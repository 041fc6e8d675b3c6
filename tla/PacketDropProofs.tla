--------------------------- MODULE PacketDropProofs ---------------------------
(***************************************************************************)
(* Dropping is safe for every stream whose priorities mean what            *)
(* StreamAssumption says, for every threshold and every network; and       *)
(* check_to_drop_frames bounds the time that the frames in the queue span. *)
(***************************************************************************)
EXTENDS PacketDrop, FiniteSetTheorems, WellFoundedInduction, TLAPS
LOCAL INSTANCE FiniteSetsExt

Running == pc \in {"wait", "fetch", "send"}

(* The frames that are sent, or will be when S is the queue, can be decoded *)
ClosedWith(S) ==
    \A n \in (S \cup hand \cup sent) \cap Video : Refs[n] \subseteq S \cup hand \cup sent

(* Between here and the next frame that needs a dropped one, nothing opens *)
(* a gate at min.                                                          *)
GatedWith(S, min) ==
    \A n, r \in Video :
        /\ r < next /\ next <= n
        /\ r \in Refs[n] /\ r \notin S \cup hand \cup sent
        => \A m \in Video : next <= m /\ m <= n => Prio[m] < min

(* The queue is behind what was taken out of it *)
Ordered ==
    /\ \A m \in packets, n \in hand \cup sent : n < m
    /\ pc # "send" => hand = {}

Decodable ==
    /\ Running => ClosedWith(packets) /\ GatedWith(packets, minPriority)
    /\ SentAreDecodable

IInv == TypeOK /\ Ordered /\ Decodable

Gate == {0, HIGH, HIGHEST}

-----------------------------------------------------------------------------
(* Dropping what is below h from any part of the queue keeps both parts of *)
(* the invariant: whoever needs a dropped frame is itself below h.         *)
LEMMA DropFacts ==
    ASSUME TypeOK, Ordered, NEW S \in SUBSET packets, NEW min \in Gate,
           NEW h \in {HIGH, HIGHEST},
           NEW q, q = DropFrames([packets |-> S, min |-> min], h)
    PROVE  /\ q.packets \subseteq S /\ q.min \in Gate
           /\ ClosedWith(S) => ClosedWith(q.packets)
           /\ GatedWith(S, min) => GatedWith(q.packets, q.min)
  <1>1. /\ q.packets = {n \in S : n \in Video => Prio[n] >= h}
        /\ q.min = (IF min < h THEN h ELSE min)
    BY DEF DropFrames
  <1>2. q.packets \subseteq S /\ q.min \in Gate
    BY <1>1 DEF Gate, HIGH, HIGHEST
  <1>3. ASSUME ClosedWith(S) PROVE ClosedWith(q.packets)
    <2> SUFFICES ASSUME NEW n \in (q.packets \cup hand \cup sent) \cap Video, NEW r \in Refs[n]
                 PROVE  r \in q.packets \cup hand \cup sent
      BY DEF ClosedWith
    <2>1. n \in Packets /\ r \in Packets /\ r \in Video /\ r < n
      BY StreamAssumption
    <2>2. r \in S \cup hand \cup sent
      BY <1>2, <1>3 DEF ClosedWith
    <2>3. CASE n \in hand \cup sent
      BY <2>1, <2>2, <2>3 DEF Ordered, Packets
    <2>4. CASE n \in q.packets
      <3>1. Prio[n] >= h /\ Prio[n] \in 0 .. HIGHEST /\ Prio[r] \in 0 .. HIGHEST
        BY <1>1, <2>1, <2>4, StreamAssumption
      <3>2. Prio[r] >= h
        BY <2>1, <3>1, StreamAssumption DEF HIGH, HIGHEST, Packets
      <3> QED
        BY <1>1, <2>2, <3>2
    <2> QED
      BY <2>3, <2>4
  <1>4. ASSUME GatedWith(S, min) PROVE GatedWith(q.packets, q.min)
    <2> SUFFICES ASSUME NEW n \in Video, NEW r \in Video, NEW m \in Video,
                        r < next, next <= n, r \in Refs[n],
                        r \notin q.packets \cup hand \cup sent, next <= m, m <= n
                 PROVE  Prio[m] < q.min
      BY DEF GatedWith
    <2>1. /\ {n, r, m} \subseteq Packets /\ Prio[m] \in 0 .. HIGHEST /\ Prio[r] \in 0 .. HIGHEST
      BY StreamAssumption
    <2>2. CASE r \in S
      <3>1. Prio[r] < h
        BY <1>1, <2>1, <2>2 DEF HIGH, HIGHEST
      <3>2. Prio[m] < h
        BY <2>1, <3>1, StreamAssumption DEF TypeOK, Packets
      <3> QED
        BY <1>1, <2>1, <3>2 DEF Gate, HIGH, HIGHEST
    <2>3. CASE r \notin S
      <3>1. Prio[m] < min
        BY <1>4, <2>3 DEF GatedWith
      <3> QED
        BY <1>1, <2>1, <3>1 DEF Gate, HIGH, HIGHEST
    <2> QED
      BY <2>2, <2>3
  <1> QED
    BY <1>2, <1>3, <1>4

(* So does the trimming of the queue, which drops twice at most. *)
LEMMA TrimFacts ==
    ASSUME TypeOK, Ordered, NEW q, q = Trim([packets |-> packets, min |-> minPriority])
    PROVE  /\ q.packets \subseteq packets /\ q.min \in Gate
           /\ ClosedWith(packets) => ClosedWith(q.packets)
           /\ GatedWith(packets, minPriority) => GatedWith(q.packets, q.min)
  <1> DEFINE q0 == [packets |-> packets, min |-> minPriority]
             b  == IF Delayed(q0.packets, BThreshold + 1) THEN DropFrames(q0, HIGH) ELSE q0
  <1>1. minPriority \in Gate
    BY DEF TypeOK, Gate
  <1>2. /\ b.packets \subseteq packets /\ b.min \in Gate
        /\ ClosedWith(packets) => ClosedWith(b.packets)
        /\ GatedWith(packets, minPriority) => GatedWith(b.packets, b.min)
    <2>1. CASE Delayed(q0.packets, BThreshold + 1)
      BY <1>1, <2>1, DropFacts
    <2>2. CASE ~Delayed(q0.packets, BThreshold + 1)
      BY <1>1, <2>2
    <2> QED
      BY <2>1, <2>2
  <1>3. q = IF Delayed(b.packets, PThreshold + 1) THEN DropFrames(b, HIGHEST) ELSE b
    BY DEF Trim
  <1>4. b = [packets |-> b.packets, min |-> b.min]
    BY DEF DropFrames
  <1> HIDE DEF b
  <1>5. CASE Delayed(b.packets, PThreshold + 1)
    <2>1. q = DropFrames([packets |-> b.packets, min |-> b.min], HIGHEST)
      BY <1>3, <1>4, <1>5
    <2> QED
      BY <1>2, <2>1, DropFacts
  <1>6. CASE ~Delayed(b.packets, PThreshold + 1)
    BY <1>2, <1>3, <1>6
  <1> QED
    BY <1>5, <1>6

(* The queue is finite, and its size a number. *)
LEMMA QueueFinite ==
    ASSUME TypeOK
    PROVE  /\ IsFiniteSet(packets) /\ Cardinality(packets) \in Nat
           /\ \A S \in SUBSET packets : Cardinality(S) \in Nat /\ Cardinality(S) <= Cardinality(packets)
           /\ \A S \in SUBSET packets, n \in Packets :
                 Cardinality(S \cup {n}) \in Nat /\ Cardinality(S \cup {n}) <= Cardinality(packets) + 1
  <1>1. IsFiniteSet(1 .. next - 1)
    BY FS_Interval DEF TypeOK
  <1>2. IsFiniteSet(packets)
    BY <1>1, FS_Subset DEF TypeOK
  <1>3. Cardinality(packets) \in Nat
    BY <1>2, FS_CardinalityType
  <1>4. \A S \in SUBSET packets : /\ IsFiniteSet(S) /\ Cardinality(S) \in Nat
                                  /\ Cardinality(S) <= Cardinality(packets)
    BY <1>2, FS_Subset, FS_CardinalityType
  <1>5. ASSUME NEW S \in SUBSET packets, NEW n \in Packets
        PROVE  Cardinality(S \cup {n}) \in Nat /\ Cardinality(S \cup {n}) <= Cardinality(packets) + 1
    <2>1. \/ Cardinality(S \cup {n}) = Cardinality(S)
          \/ Cardinality(S \cup {n}) = Cardinality(S) + 1
      BY <1>4, FS_AddElement
    <2> QED
      BY <1>3, <1>4, <2>1
  <1> QED
    BY <1>2, <1>3, <1>4, <1>5

RateType == [orig : Nat, cur : Nat, prev : Nat, est : Nat, timer : {0, 1}]

Good(r) == /\ r \in RateType
           /\ r.orig >= MinRate /\ r.cur >= MinRate
           /\ r.prev # 0 => r.prev >= MinRate
           /\ r.cur # r.orig => r.timer = 1

LEMMA RaisedFacts == ASSUME NEW r, Good(r) PROVE Good(Raised(r))
  <1> DEFINE up == r.cur + r.orig \div 10
             new == Smaller(r.orig, up)
  <1>0. MinRate \in Nat
    BY NumbersAssumption
  <1>1. up \in Nat /\ up >= r.cur
    BY DEF Good, RateType
  <1>2. Raised(r) = [r EXCEPT !.prev = r.cur, !.cur = new, !.timer = IF up < r.orig THEN 1 ELSE 0]
    BY DEF Raised
  <1>3. new \in Nat /\ new >= MinRate /\ (new # r.orig => up < r.orig)
    BY <1>0, <1>1 DEF Smaller, Good, RateType
  <1> HIDE DEF up, new
  <1> QED
    BY <1>0, <1>1, <1>2, <1>3 DEF Good, RateType

LEMMA CutFacts ==
    ASSUME NEW r, Good(r), NEW new \in Nat, new >= MinRate,
           NEW s, s = [r EXCEPT !.cur = new, !.prev = 0, !.timer = 1]
    PROVE  Good(s)
  BY DEF Good, RateType

LEMMA LoweredFacts == ASSUME NEW r, Good(r) PROVE Good(Lowered(r))
  <1> DEFINE low == (r.est \div RateStep) * RateStep
             new == IF r.est # 0 /\ r.est < r.cur THEN Larger(MinRate, low) ELSE r.prev
  <1>0. MinRate \in Nat /\ RateStep \in Nat /\ RateStep > 0
    BY NumbersAssumption
  <1>1. low \in Int
    BY <1>0 DEF Good, RateType
  <1>2. Lowered(r) = IF new \in {0, r.cur} THEN r ELSE [r EXCEPT !.cur = new, !.prev = 0, !.timer = 1]
    BY DEF Lowered
  <1> HIDE DEF low
  <1>3. new \in Nat /\ (new # 0 => new >= MinRate)
    BY <1>0, <1>1 DEF Larger, Good, RateType
  <1> HIDE DEF new
  <1>4. CASE new \in {0, r.cur}
    BY <1>2, <1>4
  <1>5. CASE new \notin {0, r.cur}
    <2>1. Lowered(r) = [r EXCEPT !.cur = new, !.prev = 0, !.timer = 1]
      BY <1>2, <1>5
    <2> QED
      BY <1>3, <1>5, <2>1, CutFacts
  <1> QED
    BY <1>4, <1>5

(* The bitrates stay in range, and an increase is due while they are low. *)
LEMMA AdaptFacts ==
    ASSUME RateOK, RestoreIsScheduled, NEW due \in BOOLEAN, rate' = Adapt(rate, due)
    PROVE  RateOK' /\ RestoreIsScheduled'
  <1> DEFINE r1 == IF rate.timer = 1 /\ due THEN Raised(rate) ELSE rate
  <1>1. Good(rate)
    BY DEF Good, RateType, RateOK, RestoreIsScheduled
  <1>2. Good(r1)
    BY <1>1, RaisedFacts
  <1>3. rate' = r1 \/ rate' = Lowered(r1)
    BY DEF Adapt
  <1> HIDE DEF r1
  <1>4. Good(rate')
    BY <1>2, <1>3, LoweredFacts
  <1> QED
    BY <1>4 DEF Good, RateType, RateOK, RestoreIsScheduled

LEMMA InitIInv == Init => IInv /\ EnoughPosts /\ RestoreIsScheduled
  <1> SUFFICES ASSUME Init PROVE IInv /\ EnoughPosts /\ RestoreIsScheduled
    OBVIOUS
  <1>0. RateOK /\ RestoreIsScheduled
    <2>1. PICK o \in Rates : rate = FreshRate(o, 0)
      BY DEF Init
    <2>2. o \in Nat /\ o >= MinRate /\ MinRate \in Nat
      BY NumbersAssumption
    <2>3. rate = [orig |-> o, cur |-> o, prev |-> 0, est |-> 0, timer |-> 0]
      BY <2>1 DEF FreshRate
    <2> QED
      BY <2>2, <2>3 DEF RateOK, RestoreIsScheduled
  <1>1. TypeOK
    <2>1. Count \in Nat /\ dynamic \in BOOLEAN
      BY NumbersAssumption DEF Init
    <2>2. packets \cup hand \cup sent = {} /\ next \in 1 .. Count + 1 /\ session \in Nat
      BY <2>1 DEF Init
    <2> QED
      BY <1>0, <2>1, <2>2 DEF Init, TypeOK
  <1>2. Ordered /\ SentAreDecodable /\ ClosedWith(packets)
    BY DEF Init, Ordered, SentAreDecodable, ClosedWith
  <1>3. GatedWith(packets, minPriority)
    BY StreamAssumption DEF Init, GatedWith, Packets
  <1>4. EnoughPosts
    BY FS_EmptySet DEF Init, EnoughPosts
  <1> QED
    BY <1>0, <1>1, <1>2, <1>3, <1>4 DEF IInv, Decodable

(* Audio is never dropped, and no frame is decoded from it. *)
LEMMA AudioStep ==
    ASSUME IInv, EnoughPosts, RestoreIsScheduled, Deliver, AddAudio
    PROVE  (IInv /\ EnoughPosts /\ RestoreIsScheduled)'
  <1>1. /\ next \in Packets /\ next \notin Video /\ next' = next + 1 /\ ~posting /\ posting'
        /\ packets' = packets \cup {next} /\ posting' \in BOOLEAN
        /\ UNCHANGED <<minPriority, lastDts, dropped, rate, sem, pc, hand, stop, disconnected, dynamic, session, sent>>
    BY DEF Deliver, AddAudio, IInv, TypeOK, Packets, control
  <1>2. TypeOK'
    <2>1. Count \in Nat
      BY NumbersAssumption
    <2>2. next' \in 1 .. Count + 1 /\ next' - 1 = next /\ next \in Nat
      BY <1>1, <2>1 DEF Packets
    <2>3. (packets \cup hand \cup sent)' \subseteq 1 .. next' - 1
      BY <1>1, <2>2 DEF IInv, TypeOK
    <2>4. RateOK'
      BY <1>1 DEF IInv, TypeOK, RateOK
    <2> QED
      BY <1>1, <2>2, <2>3, <2>4 DEF IInv, TypeOK
  <1>3. Ordered'
    BY <1>1 DEF IInv, TypeOK, Ordered, Packets
  <1>4. SentAreDecodable'
    BY <1>1 DEF IInv, Decodable, SentAreDecodable
  <1>5. ASSUME Running PROVE ClosedWith(packets)' /\ GatedWith(packets, minPriority)'
    <2>1. ClosedWith(packets)'
      BY <1>1, <1>5 DEF IInv, Decodable, ClosedWith
    <2>2. GatedWith(packets, minPriority)'
      <3> SUFFICES ASSUME NEW n \in Video, NEW r \in Video, r < next', next' <= n, r \in Refs[n],
                          r \notin (packets \cup hand \cup sent)',
                          NEW m \in Video, next' <= m, m <= n
                   PROVE  Prio[m] < minPriority'
        BY DEF GatedWith
      <3>1. {n, r, m} \subseteq Nat /\ next \in Nat
        BY <1>1, StreamAssumption DEF Packets
      <3> QED
        BY <1>1, <1>5, <3>1 DEF IInv, Decodable, GatedWith
    <2> QED
      BY <2>1, <2>2
  <1>6. EnoughPosts'
    <2>1. Cardinality(packets') \in Nat /\ Cardinality(packets') <= Cardinality(packets) + 1
      BY <1>1, QueueFinite DEF IInv
    <2>2. Cardinality(packets) \in Nat /\ sem \in Nat
      BY QueueFinite DEF IInv, TypeOK
    <2> QED
      BY <1>1, <2>1, <2>2 DEF EnoughPosts
  <1> QED
    BY <1>1, <1>2, <1>3, <1>4, <1>5, <1>6 DEF IInv, Decodable, Running, RestoreIsScheduled

(* A frame is let in only when everything it is decoded from is there, and *)
(* once it is in, nothing later needs a frame that is not.                 *)
LEMMA VideoStep ==
    ASSUME IInv, EnoughPosts, RestoreIsScheduled, Deliver, NEW due \in BOOLEAN, AddVideo(due)
    PROVE  (IInv /\ EnoughPosts /\ RestoreIsScheduled)'
  <1> DEFINE q0 == [packets |-> packets, min |-> minPriority]
             q  == IF dynamic THEN q0 ELSE Trim(q0)
             ok == Prio[next] >= q.min
             lost == Cardinality(packets) - Cardinality(q.packets)
  <1>1. /\ next \in Packets /\ next \in Video /\ next' = next + 1 /\ ~posting /\ next \in Nat
        /\ UNCHANGED <<sem, pc, hand, stop, disconnected, dynamic, session, sent>>
    BY DEF Deliver, AddVideo, IInv, TypeOK, Packets, control
  <1>2. /\ packets' = IF ok THEN q.packets \cup {next} ELSE q.packets
        /\ minPriority' = IF ok THEN 0 ELSE q.min
        /\ lastDts' = IF ok THEN next ELSE lastDts
        /\ dropped' = dropped + lost + IF ok THEN 0 ELSE 1
        /\ posting' = ok
        /\ rate' = IF dynamic THEN Adapt(rate, due) ELSE rate
    BY DEF AddVideo, Refused
  <1>3. /\ q.packets \subseteq packets /\ q.min \in Gate
        /\ Running => ClosedWith(q.packets) /\ GatedWith(q.packets, q.min)
    <2>1. CASE dynamic
      BY <2>1 DEF IInv, TypeOK, Gate, Decodable
    <2>2. CASE ~dynamic
      BY <2>2, TrimFacts DEF IInv, Decodable
    <2> QED
      BY <2>1, <2>2
  <1> HIDE DEF q
  <1>4. Prio[next] \in 0 .. HIGHEST
    BY <1>1, StreamAssumption
  <1>5. RateOK' /\ RestoreIsScheduled'
    BY <1>2, AdaptFacts DEF IInv, TypeOK, RateOK, RestoreIsScheduled
  <1>6. lost \in Nat /\ Cardinality(packets) \in Nat /\ Cardinality(q.packets) \in Nat
    BY <1>3, QueueFinite DEF IInv
  <1>7. TypeOK'
    <2>1. dropped' \in Nat
      BY <1>2, <1>6 DEF IInv, TypeOK
    <2>2. posting' \in BOOLEAN
      BY <1>2
    <2>3. lastDts' \in Nat /\ minPriority' \in {0, HIGH, HIGHEST}
      BY <1>1, <1>2, <1>3 DEF IInv, TypeOK, Gate
    <2>4. (packets \cup hand \cup sent)' \subseteq 1 .. next' - 1 /\ next' \in 1 .. Count + 1
      <3>1. Count \in Nat
        BY NumbersAssumption
      <3>2. next' \in 1 .. Count + 1 /\ next' - 1 = next /\ next \in Nat
        BY <1>1, <3>1 DEF Packets
      <3> QED
        BY <1>1, <1>2, <1>3, <3>2 DEF IInv, TypeOK
    <2> QED
      BY <1>1, <1>5, <2>1, <2>2, <2>3, <2>4 DEF IInv, TypeOK
  <1>8. Ordered'
    BY <1>1, <1>2, <1>3 DEF IInv, TypeOK, Ordered, Packets
  <1>9. SentAreDecodable'
    BY <1>1 DEF IInv, Decodable, SentAreDecodable
  <1>10. EnoughPosts'
    <2>1. sem \in Nat
      BY DEF IInv, TypeOK
    <2>2. CASE ok
      <3>1. Cardinality(packets') \in Nat /\ Cardinality(packets') <= Cardinality(packets) + 1
        BY <1>1, <1>2, <1>3, <2>2, QueueFinite DEF IInv
      <3>2. posting'
        BY <1>2, <2>2
      <3> QED
        BY <1>1, <1>6, <2>1, <3>1, <3>2 DEF EnoughPosts
    <2>3. CASE ~ok
      <3>1. packets' = q.packets /\ ~posting'
        BY <1>2, <2>3
      <3> QED
        BY <1>1, <1>6, <2>1, <3>1 DEF EnoughPosts
    <2> QED
      BY <2>2, <2>3
  <1>11. ASSUME Running PROVE ClosedWith(packets)' /\ GatedWith(packets, minPriority)'
    <2>1. CASE ok
      <3>1. packets' = q.packets \cup {next}
        BY <1>2, <2>1
      <3>2. ASSUME NEW n \in Video, NEW r \in Video, r < next, next <= n, r \in Refs[n]
            PROVE  r \in q.packets \cup hand \cup sent
        <4>1. r \notin q.packets \cup hand \cup sent => Prio[next] < q.min
          BY <1>1, <1>3, <1>11, <3>2 DEF GatedWith
        <4> QED
          BY <1>3, <1>4, <2>1, <4>1 DEF Gate, HIGH, HIGHEST
      <3>3. ClosedWith(packets)'
        <4> SUFFICES ASSUME NEW n \in (packets' \cup hand' \cup sent') \cap Video, NEW r \in Refs[n]
                     PROVE  r \in packets' \cup hand' \cup sent'
          BY DEF ClosedWith
        <4>1. CASE n = next
          <5>1. r \in Video /\ r < next
            BY <1>1, <4>1, StreamAssumption
          <5> QED
            BY <1>1, <3>1, <3>2, <4>1, <5>1
        <4>2. CASE n # next
          BY <1>1, <1>3, <1>11, <3>1, <4>2 DEF ClosedWith
        <4> QED
          BY <4>1, <4>2
      <3>4. GatedWith(packets, minPriority)'
        <4> SUFFICES ASSUME NEW n \in Video, NEW r \in Video, r < next', next' <= n, r \in Refs[n],
                            r \notin (packets \cup hand \cup sent)'
                     PROVE  FALSE
          BY DEF GatedWith
        <4>1. n \in Nat /\ r \in Nat
          BY StreamAssumption DEF Packets
        <4>2. r # next
          BY <3>1
        <4> QED
          BY <1>1, <3>1, <3>2, <4>1, <4>2
      <3> QED
        BY <3>3, <3>4
    <2>2. CASE ~ok
      <3>1. packets' = q.packets /\ minPriority' = q.min
        BY <1>2, <2>2
      <3>2. Prio[next] < q.min /\ q.min \in {HIGH, HIGHEST}
        BY <1>3, <1>4, <2>2 DEF Gate, HIGH, HIGHEST
      <3>3. ClosedWith(packets)'
        BY <1>1, <1>3, <1>11, <3>1 DEF ClosedWith
      <3>4. GatedWith(packets, minPriority)'
        <4> SUFFICES ASSUME NEW n \in Video, NEW r \in Video, r < next', next' <= n, r \in Refs[n],
                            r \notin (packets \cup hand \cup sent)',
                            NEW m \in Video, next' <= m, m <= n
                     PROVE  Prio[m] < q.min
          BY <3>1 DEF GatedWith
        <4>1. n \in Nat /\ r \in Nat /\ m \in Nat
          BY StreamAssumption DEF Packets
        <4>2. CASE r = next
          BY <1>1, <3>2, <4>1, <4>2, StreamAssumption
        <4>3. CASE r # next
          BY <1>1, <1>3, <1>11, <3>1, <4>1, <4>3 DEF GatedWith
        <4> QED
          BY <4>2, <4>3
      <3> QED
        BY <3>3, <3>4
    <2> QED
      BY <2>1, <2>2
  <1> QED
    BY <1>1, <1>5, <1>7, <1>8, <1>9, <1>10, <1>11 DEF IInv, Decodable, Running

(* A step that leaves the queue, the packets taken out and the bitrates. *)
LEMMA QuietStep ==
    ASSUME IInv, RestoreIsScheduled, TypeOK',
           UNCHANGED <<packets, minPriority, hand, rate, next, sent>>,
           Running' => Running, pc' # "send" => hand = {}
    PROVE  (IInv /\ RestoreIsScheduled)'
  BY DEF IInv, Ordered, Decodable, ClosedWith, GatedWith, SentAreDecodable, RestoreIsScheduled

LEMMA NextIInv ==
    ASSUME IInv, EnoughPosts, RestoreIsScheduled, [Next]_vars
    PROVE  (IInv /\ EnoughPosts /\ RestoreIsScheduled)'
  <1>0. /\ TypeOK /\ sem \in Nat /\ Cardinality(packets) \in Nat /\ MinRate \in Nat
        /\ Cardinality({}) = 0
    BY QueueFinite, NumbersAssumption, FS_EmptySet DEF IInv, TypeOK
  <1>1. CASE Deliver
    BY <1>1, AudioStep, VideoStep DEF Deliver
  <1>2. CASE Post
    <2>1. TypeOK'
      <3>1. /\ UNCHANGED <<packets, minPriority, lastDts, dropped, pc, hand, stop, disconnected, dynamic,
                           session, rate, next, sent>>
            /\ posting' = FALSE /\ sem' = sem + 1
        BY <1>2 DEF Post, queue, control
      <3>2. RateOK'
        BY <1>0, <3>1 DEF TypeOK, RateOK
      <3>3. posting' \in BOOLEAN
        BY <3>1
      <3>4. sem' \in Nat
        BY <1>0, <3>1
      <3>5. /\ lastDts \in Nat /\ dropped \in Nat /\ next \in 1 .. Count + 1 /\ session \in Nat
            /\ packets \cup hand \cup sent \subseteq 1 .. next - 1
            /\ minPriority \in {0, HIGH, HIGHEST} /\ RateOK
            /\ disconnected \in BOOLEAN /\ dynamic \in BOOLEAN /\ stop \in {"no", "now", "later"}
            /\ pc \in {"wait", "fetch", "send", "close", "free", "ended"}
        BY <1>0 DEF TypeOK
      <3> QED
        BY <3>1, <3>2, <3>3, <3>4, <3>5 DEF TypeOK
    <2>2. EnoughPosts'
      BY <1>0, <1>2 DEF Post, queue, EnoughPosts
    <2> QED
      BY <1>2, <2>1, <2>2, QuietStep DEF Post, queue, control, IInv, Ordered, Running
  <1>3. CASE SendWake
    <2>1. TypeOK'
      BY <1>0, <1>3 DEF SendWake, queue, control, TypeOK, RateOK
    <2>2. EnoughPosts'
      BY <1>0, <1>3 DEF SendWake, queue, EnoughPosts
    <2> QED
      BY <1>3, <2>1, <2>2, QuietStep DEF SendWake, queue, control, IInv, Ordered, Running
  <1>4. CASE Fetch
    <2>1. CASE packets = {}
      <3>1. TypeOK'
        BY <1>0, <1>4, <2>1 DEF Fetch, control, TypeOK, RateOK
      <3>2. EnoughPosts'
        BY <1>0, <1>4, <2>1 DEF Fetch, EnoughPosts
      <3> QED
        BY <1>4, <2>1, <3>1, <3>2, QuietStep DEF Fetch, control, IInv, Ordered, Running
    <2>2. CASE packets # {}
      <3>1. PICK first \in packets :
               /\ \A n \in packets : first <= n
               /\ pc' = "send" /\ hand' = {first} /\ packets' = packets \ {first}
        BY <1>4, <2>2 DEF Fetch
      <3>2. /\ UNCHANGED <<minPriority, lastDts, dropped, sem, posting, stop, disconnected, dynamic,
                           session, rate, next, sent>>
            /\ pc = "fetch" /\ hand = {}
        BY <1>4 DEF Fetch, control, IInv, Ordered
      <3>3. TypeOK'
        BY <1>0, <3>1, <3>2 DEF TypeOK, RateOK
      <3>4. Ordered'
        BY <1>0, <3>1, <3>2 DEF IInv, Ordered, TypeOK
      <3>5. (packets \cup hand \cup sent)' = packets \cup hand \cup sent
        BY <3>1, <3>2
      <3>6. Decodable'
        BY <3>1, <3>2, <3>5 DEF IInv, Decodable, ClosedWith, GatedWith, SentAreDecodable, Running
      <3>7. Cardinality(packets') = Cardinality(packets) - 1
        BY <1>0, <3>1, FS_RemoveElement, QueueFinite
      <3>8. EnoughPosts'
        BY <1>0, <3>1, <3>2, <3>7 DEF EnoughPosts
      <3> QED
        BY <3>2, <3>3, <3>4, <3>6, <3>8 DEF IInv, RestoreIsScheduled
    <2> QED
      BY <2>1, <2>2
  <1>5. CASE ShutDown \/ SendFails
    <2>1. /\ pc' = "close" /\ hand' = {}
          /\ UNCHANGED <<packets, minPriority, lastDts, dropped, sem, posting, stop, dynamic, session, rate, next, sent>>
          /\ disconnected' \in BOOLEAN
      BY <1>0, <1>5 DEF ShutDown, SendFails, queue, control, TypeOK
    <2>2. TypeOK'
      BY <1>0, <2>1 DEF TypeOK, RateOK
    <2> QED
      BY <2>1, <2>2 DEF IInv, Ordered, Decodable, Running, SentAreDecodable, EnoughPosts, RestoreIsScheduled
  <1>6. CASE SendDone
    <2>1. /\ pc = "send" /\ pc' = "wait" /\ sent' = sent \cup hand /\ hand' = {}
          /\ UNCHANGED <<packets, minPriority, lastDts, dropped, sem, posting, stop, disconnected, dynamic, session, next>>
      BY <1>6 DEF SendDone, queue, control
    <2>2. RateOK' /\ RestoreIsScheduled'
      <3>1. CASE ~dynamic
        BY <1>0, <1>6, <3>1 DEF SendDone, TypeOK, RateOK, RestoreIsScheduled
      <3>2. CASE dynamic
        <4>1. PICK e \in Estimates \cup {0} : rate' = [rate EXCEPT !.est = e]
          BY <1>6, <3>2 DEF SendDone
        <4>2. e \in Nat
          BY NumbersAssumption
        <4> QED
          BY <1>0, <4>1, <4>2 DEF TypeOK, RateOK, RestoreIsScheduled
      <3> QED
        BY <3>1, <3>2
    <2>3. TypeOK'
      BY <1>0, <2>1, <2>2 DEF TypeOK
    <2>4. Ordered'
      BY <2>1 DEF IInv, Ordered
    <2>5. (packets \cup hand \cup sent)' = packets \cup hand \cup sent
      BY <2>1
    <2>6. ClosedWith(packets)' /\ GatedWith(packets, minPriority)'
      BY <2>1, <2>5 DEF IInv, Decodable, ClosedWith, GatedWith, Running
    <2>7. SentAreDecodable'
      <3> SUFFICES ASSUME NEW n \in sent' \cap Video, NEW r \in Refs[n]
                   PROVE  r \in sent'
        BY DEF SentAreDecodable
      <3>0. n \in Video /\ n \in Packets /\ r \in Packets
        BY StreamAssumption
      <3>1. r < n /\ r \in Nat /\ n \in Nat
        BY <3>0, StreamAssumption DEF Packets
      <3>2. r \in packets \cup hand \cup sent
        BY <2>1 DEF IInv, Decodable, ClosedWith, Running
      <3>3. r \notin packets
        BY <2>1, <3>1 DEF IInv, Ordered
      <3> QED
        BY <2>1, <3>2, <3>3
    <2>8. EnoughPosts'
      BY <2>1 DEF EnoughPosts
    <2> QED
      BY <2>2, <2>3, <2>4, <2>6, <2>7, <2>8 DEF IInv, Decodable
  <1>7. CASE Close
    <2>1. /\ pc = "close" /\ pc' = "free"
          /\ UNCHANGED <<packets, minPriority, lastDts, dropped, sem, posting, hand, stop, disconnected,
                         dynamic, session, next, sent>>
          /\ rate' = IF dynamic THEN [rate EXCEPT !.cur = rate.orig] ELSE rate
      BY <1>7 DEF Close, queue, control
    <2>2. RateOK' /\ RestoreIsScheduled'
      BY <1>0, <2>1 DEF IInv, TypeOK, RateOK, RestoreIsScheduled
    <2>3. TypeOK'
      BY <1>0, <2>1, <2>2 DEF TypeOK
    <2> QED
      BY <2>1, <2>2, <2>3 DEF IInv, Ordered, Decodable, Running, SentAreDecodable, EnoughPosts
  <1>8. CASE FreePackets
    <2>1. TypeOK'
      BY <1>0, <1>8 DEF FreePackets, control, TypeOK, RateOK
    <2> QED
      BY <1>8, <2>1 DEF FreePackets, control, IInv, Ordered, Decodable, Running, SentAreDecodable,
                        EnoughPosts, RestoreIsScheduled
  <1>9. ASSUME NEW how \in {"now", "later"}, Stop(how)
        PROVE  (IInv /\ EnoughPosts /\ RestoreIsScheduled)'
    <2>1. TypeOK'
      BY <1>0, <1>9 DEF Stop, queue, TypeOK, RateOK
    <2>2. EnoughPosts'
      BY <1>0, <1>9 DEF Stop, queue, EnoughPosts
    <2> QED
      BY <1>9, <2>1, <2>2, QuietStep DEF Stop, queue, IInv, Ordered, Running
  <1>10. CASE Connect
    <2>1. /\ packets' = {} /\ minPriority' = 0 /\ dropped' = 0 /\ sem' = 0 /\ pc = "ended" /\ pc' = "wait"
          /\ stop' = "no" /\ disconnected' = FALSE /\ dynamic' \in BOOLEAN
          /\ next' = 1 /\ sent' = {} /\ session' = session + 1 /\ UNCHANGED <<lastDts, posting, hand>>
      BY <1>10, NumbersAssumption DEF Connect
    <2>2. hand = {}
      BY <2>1 DEF IInv, Ordered
    <2>3. RateOK' /\ RestoreIsScheduled'
      <3>1. PICK o \in Rates \cup {rate.cur} : rate' = FreshRate(o, rate.prev)
        BY <1>10 DEF Connect
      <3>2. o \in Nat /\ o >= MinRate /\ rate.prev \in Nat /\ (rate.prev # 0 => rate.prev >= MinRate)
        BY <1>0, NumbersAssumption DEF TypeOK, RateOK
      <3>3. rate' = [orig |-> o, cur |-> o, prev |-> rate.prev, est |-> 0, timer |-> 0]
        BY <3>1 DEF FreshRate
      <3> QED
        BY <1>0, <3>2, <3>3 DEF RateOK, RestoreIsScheduled
    <2>4. TypeOK'
      <3>1. Count \in Nat
        BY NumbersAssumption
      <3>2. (packets \cup hand \cup sent)' = {} /\ next' \in 1 .. Count + 1 /\ session' \in Nat
        BY <1>0, <2>1, <2>2, <3>1 DEF TypeOK
      <3> QED
        BY <1>0, <2>1, <2>3, <3>2 DEF TypeOK
    <2>5. Ordered' /\ SentAreDecodable' /\ ClosedWith(packets)'
      BY <2>1, <2>2 DEF Ordered, SentAreDecodable, ClosedWith
    <2>6. GatedWith(packets, minPriority)'
      BY <2>1, StreamAssumption DEF GatedWith, Packets
    <2>7. EnoughPosts'
      BY <1>0, <2>1 DEF EnoughPosts
    <2> QED
      BY <2>3, <2>4, <2>5, <2>6, <2>7 DEF IInv, Decodable
  <1>11. CASE UNCHANGED vars
    <2>1. TypeOK'
      BY <1>0, <1>11 DEF vars, queue, control, TypeOK, RateOK
    <2>2. EnoughPosts'
      BY <1>11 DEF vars, queue, EnoughPosts
    <2> QED
      BY <1>11, <2>1, <2>2, QuietStep DEF vars, queue, control, IInv, Ordered, Running
  <1> QED
    BY <1>1, <1>2, <1>3, <1>4, <1>5, <1>6, <1>7, <1>8, <1>9, <1>10, <1>11 DEF Next

-----------------------------------------------------------------------------
THEOREM Invariants == Spec => [](IInv /\ EnoughPosts /\ RestoreIsScheduled)
  BY InitIInv, NextIInv, PTL DEF Spec

(* The queue of rtmp-stream.c holds only what was encoded and not yet      *)
(* taken, and the bitrates of dbr_* stay above the least, at every number  *)
(* of packets, threshold, rate and estimate.                               *)
THEOREM TypeCorrect == Spec => []TypeOK
  <1>1. IInv => TypeOK
    BY DEF IInv
  <1> QED
    BY <1>1, Invariants, PTL

(* drop_frames and the gate of add_video_packet never let a frame be sent  *)
(* whose references were dropped, for every stream that satisfies          *)
(* StreamAssumption.                                                       *)
THEOREM DroppingIsSafe == Spec => []SentAreDecodable
  <1>1. IInv => SentAreDecodable
    BY DEF IInv, Decodable
  <1> QED
    BY <1>1, Invariants, PTL

(* The semaphore of the send thread never counts less than the packets     *)
(* that wait for it.                                                       *)
THEOREM NoPacketIsStranded == Spec => []EnoughPosts
  BY Invariants, PTL

(* A bitrate that dbr_bitrate_lowered took down is on its way back up.     *)
THEOREM BitrateComesBack == Spec => []RestoreIsScheduled
  BY Invariants, PTL

-----------------------------------------------------------------------------
(* The count of the dropped frames.                                        *)

Missing == {n \in Video : n < next} \ (packets \cup hand \cup sent)

LEMMA VideoFacts == \A n \in Video : n \in Nat /\ n >= 1
  BY StreamAssumption DEF Packets

(* Only video is dropped from the queue. *)
LEMMA TrimVideo ==
    ASSUME NEW S, NEW min, NEW q, q = Trim([packets |-> S, min |-> min])
    PROVE  S \ q.packets \subseteq Video
  <1> DEFINE q0 == [packets |-> S, min |-> min]
             b  == IF Delayed(q0.packets, BThreshold + 1) THEN DropFrames(q0, HIGH) ELSE q0
  <1>1. S \ b.packets \subseteq Video
    BY DEF DropFrames
  <1>2. q = IF Delayed(b.packets, PThreshold + 1) THEN DropFrames(b, HIGHEST) ELSE b
    BY DEF Trim
  <1> HIDE DEF b
  <1>3. b.packets \ q.packets \subseteq Video
    BY <1>2 DEF DropFrames
  <1> QED
    BY <1>1, <1>3

(* What is taken out of the queue and what is refused joins the missing. *)
LEMMA MissingGrows ==
    ASSUME IInv, next \in Packets, NEW R, R \subseteq packets, packets \ R \subseteq Video,
           hand' = hand, sent' = sent, next' = next + 1, next \in Video
    PROVE  /\ packets' = R \cup {next} =>
                  Cardinality(Missing') = Cardinality(Missing) + Cardinality(packets) - Cardinality(R)
           /\ packets' = R =>
                  Cardinality(Missing') = Cardinality(Missing) + Cardinality(packets) - Cardinality(R) + 1
  <1> DEFINE D == packets \ R
  <1>1. /\ packets \cup hand \cup sent \subseteq 1 .. next - 1 /\ next \in Nat
        /\ IsFiniteSet(packets) /\ Cardinality(packets) \in Nat
    BY QueueFinite DEF IInv, TypeOK, Packets
  <1>2. Missing \subseteq 1 .. next - 1 /\ IsFiniteSet(Missing)
    <2>1. Missing \subseteq 1 .. next - 1
      <3> SUFFICES ASSUME NEW x \in Missing PROVE x \in 1 .. next - 1
        OBVIOUS
      <3>1. x \in Nat /\ x >= 1 /\ x < next
        BY VideoFacts DEF Missing
      <3> QED
        BY <1>1, <3>1
    <2>2. IsFiniteSet(1 .. next - 1)
      BY <1>1, FS_Interval
    <2> QED
      BY <2>1, <2>2, FS_Subset
  <1>3. /\ D \cap Missing = {} /\ D \cap (hand \cup sent) = {} /\ D \subseteq 1 .. next - 1
        /\ next \notin Missing \cup D
    <2>1. packets \cap (hand \cup sent) = {}
      BY <1>1 DEF IInv, Ordered
    <2> QED
      BY <1>1, <1>2, <2>1 DEF Missing
  <1>4. IsFiniteSet(D) /\ Cardinality(D) = Cardinality(packets) - Cardinality(R)
    BY <1>1, FS_Difference, packets \cap R = R
  <1>5. {n \in Video : n < next'} = {n \in Video : n < next} \cup {next}
    <2>1. \A n \in Video : n < next' <=> n < next \/ n = next
      BY <1>1, VideoFacts
    <2> QED
      BY <2>1
  <1> HIDE DEF D
  <1>6. /\ IsFiniteSet(Missing \cup D)
        /\ Cardinality(Missing \cup D) = Cardinality(Missing) + Cardinality(D)
    <2>1. /\ Cardinality(Missing \cup D) =
                   Cardinality(Missing) + Cardinality(D) - Cardinality(Missing \cap D)
          /\ IsFiniteSet(Missing \cup D)
      BY <1>2, <1>4, FS_Union
    <2>2. Missing \cap D = {} /\ Cardinality({}) = 0
      BY <1>3, FS_EmptySet
    <2>3. Cardinality(Missing) \in Nat /\ Cardinality(D) \in Nat
      BY <1>2, <1>4, FS_CardinalityType
    <2>4. Cardinality(Missing \cap D) = 0
      BY <2>2
    <2> HIDE DEF Missing
    <2> QED
      BY <2>1, <2>3, <2>4
  <1>7. ASSUME packets' = R \cup {next} PROVE Missing' = Missing \cup D
    BY <1>1, <1>3, <1>5, <1>7 DEF Missing, D
  <1>8. ASSUME packets' = R PROVE Missing' = (Missing \cup D) \cup {next}
    BY <1>1, <1>3, <1>5, <1>8 DEF Missing, D
  <1>9. Cardinality((Missing \cup D) \cup {next}) = Cardinality(Missing \cup D) + 1
    BY <1>3, <1>6, FS_AddElement
  <1>10. Cardinality(Missing) \in Nat /\ Cardinality(R) \in Nat
    BY <1>1, <1>2, FS_CardinalityType, FS_Subset
  <1> QED
    BY <1>1, <1>4, <1>6, <1>7, <1>8, <1>9, <1>10

LEMMA NextAccounting == IInv /\ DroppedAccounting /\ [Next]_vars => DroppedAccounting'
  <1> SUFFICES ASSUME IInv, DroppedAccounting, [Next]_vars, Running'
               PROVE  dropped' = Cardinality(Missing')
    BY DEF DroppedAccounting, Running, Missing
  <1>1. Running => dropped = Cardinality(Missing)
    BY DEF DroppedAccounting, Running, Missing
  <1>2. CASE Deliver
    <2>1. /\ next \in Packets /\ next' = next + 1 /\ hand' = hand /\ sent' = sent /\ pc' = pc
      BY <1>2 DEF Deliver, IInv, TypeOK, Packets
    <2>2. CASE AddAudio
      <3>1. packets' = packets \cup {next} /\ next \notin Video /\ dropped' = dropped
        BY <2>2 DEF AddAudio
      <3>2. Missing' = Missing
        BY <2>1, <3>1, VideoFacts DEF Missing, Packets
      <3> QED
        BY <1>1, <2>1, <3>1, <3>2 DEF Running
    <2>3. CASE \E due \in BOOLEAN : AddVideo(due)
      <3> DEFINE q0 == [packets |-> packets, min |-> minPriority]
                 q == IF dynamic THEN q0 ELSE Trim(q0)
                 ok == Prio[next] >= q.min
                 lost == Cardinality(packets) - Cardinality(q.packets)
      <3>1. /\ next \in Video /\ packets' = IF ok THEN q.packets \cup {next} ELSE q.packets
            /\ dropped' = dropped + lost + (IF ok THEN 0 ELSE 1)
        BY <2>3 DEF AddVideo, Refused
      <3>2. q.packets \subseteq packets /\ packets \ q.packets \subseteq Video
        <4>1. CASE dynamic
          BY <4>1
        <4>2. CASE ~dynamic
          BY <4>2, TrimFacts, TrimVideo DEF IInv
        <4> QED
          BY <4>1, <4>2
      <3>3. /\ Cardinality(packets) \in Nat /\ Cardinality(q.packets) \in Nat /\ dropped \in Nat
        BY <3>2, QueueFinite DEF IInv, TypeOK
      <3> HIDE DEF q
      <3>4. dropped = Cardinality(Missing)
        BY <1>1, <2>1 DEF Running
      <3> QED
        BY <2>1, <3>1, <3>2, <3>3, <3>4, MissingGrows
    <2> QED
      BY <1>2, <2>2, <2>3 DEF Deliver
  <1>3. CASE Fetch \/ SendDone
    <2>1. /\ next' = next /\ dropped' = dropped /\ Running
          /\ (packets \cup hand \cup sent)' = packets \cup hand \cup sent
      BY <1>3 DEF Fetch, SendDone, queue, IInv, Ordered, Running
    <2> QED
      BY <1>1, <2>1 DEF Missing
  <1>4. CASE Post \/ SendWake \/ (\E how \in {"now", "later"} : Stop(how)) \/ UNCHANGED vars
    <2>1. /\ UNCHANGED <<next, dropped, packets, hand, sent>> /\ Running
      BY <1>4 DEF Post, SendWake, Stop, vars, queue, Running
    <2> QED
      BY <1>1, <2>1 DEF Missing
  <1>5. CASE ShutDown \/ SendFails \/ Close \/ FreePackets
    BY <1>5 DEF ShutDown, SendFails, Close, FreePackets, Running
  <1>6. CASE Connect
    <2>1. dropped' = 0 /\ next' = 1
      BY <1>6 DEF Connect
    <2>2. Missing' = {}
      BY <2>1, VideoFacts DEF Missing
    <2> QED
      BY <2>1, <2>2, FS_EmptySet
  <1> QED
    BY <1>2, <1>3, <1>4, <1>5, <1>6 DEF Next

(* dropped_frames counts every frame that check_to_drop_frames took out of *)
(* the queue and every one that add_video_packet refused, each once.       *)
THEOREM DropsAreCounted == Spec => []DroppedAccounting
  <1>1. Init => DroppedAccounting
    <2> SUFFICES ASSUME Init PROVE dropped = Cardinality(Missing)
      BY DEF DroppedAccounting, Missing
    <2>1. dropped = 0 /\ Missing = {}
      BY VideoFacts DEF Init, Missing
    <2> QED
      BY <2>1, FS_EmptySet
  <1> QED
    BY <1>1, NextAccounting, Invariants, PTL DEF Spec

-----------------------------------------------------------------------------
(***************************************************************************)
(* The backlog.                                                            *)
(***************************************************************************)
(* The frames that may be dropped *)
Loose(S) == {n \in S \cap Video : ~Keyframe(n)}

(* All of them but the last lie within the threshold, a handful aside *)
Narrow(S) ==
    Cardinality(Loose(S)) > Few => \A x, y, z \in Loose(S) : x < z => x - y <= PThreshold

(* last_dts_usec is the newest frame let in, or an older session's *)
Behind == \A n \in packets \cap Video : n <= lastDts

BInv == Behind /\ (~dynamic => Narrow(packets))

-----------------------------------------------------------------------------
(* The least and the greatest of a set of numbers.                         *)

LEMMA LeastExists == \A S \in SUBSET Nat : S # {} => \E x \in S : \A y \in S : x <= y
  <1> SUFFICES ASSUME NEW S \in SUBSET Nat, S # {} PROVE \E x \in S : \A y \in S : x <= y
    OBVIOUS
  <1>1. PICK x \in S : \A y \in S : ~ (<<y, x>> \in OpToRel(<, Nat))
    BY NatLessThanWellFounded, WFMin
  <1>2. \A y \in S : ~ (y < x)
    BY <1>1 DEF OpToRel
  <1> QED
    BY <1>2

LEMMA GreatestExists ==
    ASSUME NEW N \in Nat, NEW S \in SUBSET (0 .. N), S # {}
    PROVE  \E x \in S : \A y \in S : x >= y
  <1> DEFINE T == {N - y : y \in S}
  <1>1. T \in SUBSET Nat /\ T # {}
    <2>1. \A y \in S : N - y \in Nat
      OBVIOUS
    <2> QED
      BY <2>1
  <1>2. PICK x \in T : \A y \in T : x <= y
    BY <1>1, LeastExists
  <1>3. PICK z \in S : x = N - z
    OBVIOUS
  <1>4. \A y \in S : N - z <= N - y
    BY <1>2, <1>3
  <1> QED
    BY <1>4

LEMMA MinFacts ==
    ASSUME NEW S \in SUBSET Nat, S # {}
    PROVE  Min(S) \in S /\ \A y \in S : Min(S) <= y
  BY LeastExists DEF Min

LEMMA MaxFacts ==
    ASSUME NEW N \in Nat, NEW S \in SUBSET (0 .. N), S # {}
    PROVE  Max(S) \in S /\ \A y \in S : Max(S) >= y
  BY GreatestExists DEF Max

-----------------------------------------------------------------------------
(* The queue and its frames.                                               *)

LEMMA QueueFacts ==
    ASSUME TypeOK
    PROVE  /\ Count \in Nat /\ next \in Nat /\ packets \subseteq Packets
           /\ \A n \in packets : n \in Nat /\ n < next
  <1>1. Count \in Nat /\ next \in 1 .. Count + 1 /\ packets \subseteq 1 .. next - 1
    BY NumbersAssumption DEF TypeOK
  <1>2. \A n \in packets : n \in Nat /\ n < next /\ n \in Packets
    BY <1>1 DEF Packets
  <1> QED
    BY <1>1, <1>2

LEMMA LooseFacts ==
    ASSUME TypeOK, NEW S, S \subseteq packets
    PROVE  /\ Loose(S) \subseteq S /\ Loose(S) \subseteq Loose(packets)
           /\ Loose(S) \in SUBSET (0 .. Count) /\ Count \in Nat
           /\ IsFiniteSet(Loose(S)) /\ Cardinality(Loose(S)) \in Nat
           /\ Cardinality(Loose(S)) <= Cardinality(Loose(packets))
  <1>1. Loose(S) \subseteq S /\ Loose(S) \subseteq Loose(packets) /\ Loose(packets) \subseteq packets
    BY DEF Loose
  <1>2. Count \in Nat /\ next \in 1 .. Count + 1 /\ packets \subseteq 1 .. next - 1
    BY NumbersAssumption DEF TypeOK
  <1>3. 1 .. next - 1 \subseteq 0 .. Count
    BY <1>2
  <1>4. IsFiniteSet(Loose(packets)) /\ IsFiniteSet(Loose(S))
    BY <1>1, QueueFinite, FS_Subset
  <1>5. Cardinality(Loose(S)) <= Cardinality(Loose(packets))
    BY <1>1, <1>4, FS_Subset
  <1> QED
    BY <1>1, <1>2, <1>3, <1>4, <1>5, FS_CardinalityType

(* Whatever leaves the queue, it gets no wider. *)
LEMMA Narrower ==
    ASSUME TypeOK, NEW S, S \subseteq packets, Narrow(packets)
    PROVE  Narrow(S)
  <1>1. /\ Loose(S) \subseteq Loose(packets) /\ Cardinality(Loose(S)) <= Cardinality(Loose(packets))
        /\ Cardinality(Loose(S)) \in Nat /\ Cardinality(Loose(packets)) \in Nat /\ Few \in Nat
    BY LooseFacts, NumbersAssumption
  <1> QED
    BY <1>1 DEF Narrow

LEMMA DelayedDef ==
    \A S, d : Delayed(S, d) <=> /\ Cardinality(S) >= Few
                                /\ Loose(S) # {} /\ lastDts - Min(Loose(S)) >= d
  BY Zenon DEF Delayed, Loose

(* After the check for p-frames the frames left are close to the newest, *)
(* or none is left that may be dropped.                                  *)
LEMMA TrimmedFacts ==
    ASSUME NEW S \in SUBSET Packets, NEW min, NEW q, q = Trim([packets |-> S, min |-> min])
    PROVE  Loose(q.packets) = {} \/ ~Delayed(q.packets, PThreshold + 1)
  <1> DEFINE q0 == [packets |-> S, min |-> min]
             b  == IF Delayed(q0.packets, BThreshold + 1) THEN DropFrames(q0, HIGH) ELSE q0
  <1>1. q = IF Delayed(b.packets, PThreshold + 1) THEN DropFrames(b, HIGHEST) ELSE b
    BY DEF Trim
  <1> HIDE DEF b
  <1>2. CASE Delayed(b.packets, PThreshold + 1)
    <2>1. q.packets = {n \in b.packets : n \in Video => Prio[n] >= HIGHEST}
      BY <1>1, <1>2 DEF DropFrames
    <2>2. \A n \in Video : Prio[n] \in 0 .. HIGHEST
      BY StreamAssumption
    <2> QED
      BY <2>1, <2>2 DEF Loose, Keyframe, HIGHEST
  <1>3. CASE ~Delayed(b.packets, PThreshold + 1)
    BY <1>1, <1>3
  <1> QED
    BY <1>2, <1>3

(* A frame is let in behind them. *)
LEMMA LetInNarrow ==
    ASSUME TypeOK, Behind, next \in Packets, NEW R, R \subseteq packets,
           Loose(R) = {} \/ ~Delayed(R, PThreshold + 1)
    PROVE  Narrow(R \cup {next})
  <1> DEFINE N == R \cup {next}
  <1> SUFFICES ASSUME Cardinality(Loose(N)) > Few,
                      NEW x \in Loose(N), NEW y \in Loose(N), NEW z \in Loose(N), x < z
               PROVE  x - y <= PThreshold
    BY DEF Narrow
  <1>1. next \in Nat /\ PThreshold \in Nat /\ Few \in Nat /\ lastDts \in Nat
    BY NumbersAssumption, QueueFacts DEF TypeOK
  <1>2. Loose(N) \subseteq Loose(R) \cup {next} /\ Loose(R) \subseteq packets \cap Video
    BY DEF Loose
  <1>3. \A n \in Loose(R) : n \in Nat /\ n < next /\ n <= lastDts
    <2>1. \A n \in packets : n \in Nat /\ n < next
      BY QueueFacts
    <2> QED
      BY <1>2, <2>1 DEF Behind
  <1>4. x \in Loose(R)
    <2>1. x \in Loose(R) \cup {next} /\ z \in Loose(R) \cup {next}
      BY <1>2
    <2>2. ~(next < next) /\ \A n \in Loose(R) : ~(next < n)
      BY <1>1, <1>3
    <2> QED
      BY <2>1, <2>2
  <1>5. CASE y = next
    BY <1>1, <1>3, <1>4, <1>5
  <1>6. CASE y \in Loose(R)
    <2>1. Cardinality(R) >= Few
      <3>1. /\ IsFiniteSet(R) /\ Cardinality(R) \in Nat
            /\ IsFiniteSet(N) /\ Cardinality(N) <= Cardinality(R) + 1
        BY QueueFinite, FS_Subset, FS_AddElement, FS_CardinalityType
      <3>2. Loose(N) \subseteq N
        BY DEF Loose
      <3>3. /\ Cardinality(Loose(N)) <= Cardinality(N)
            /\ Cardinality(Loose(N)) \in Nat /\ Cardinality(N) \in Nat
        BY <3>1, <3>2, FS_Subset, FS_CardinalityType
      <3> QED
        BY <1>1, <3>1, <3>3
    <2>2. Loose(R) \in SUBSET Nat /\ Loose(R) # {}
      BY <1>3, <1>6
    <2>3. Min(Loose(R)) \in Nat /\ Min(Loose(R)) <= y
      BY <1>6, <2>2, MinFacts
    <2>4. ~(lastDts - Min(Loose(R)) >= PThreshold + 1)
      BY <2>1, <2>2, DelayedDef
    <2>5. x <= lastDts /\ x \in Nat /\ y \in Nat
      BY <1>3, <1>4, <1>6
    <2> QED
      BY <1>1, <2>3, <2>4, <2>5
  <1> QED
    BY <1>2, <1>5, <1>6

-----------------------------------------------------------------------------
LEMMA NoneNarrow == Narrow({})
  <1>1. Loose({}) = {} /\ Few \in Nat
    BY NumbersAssumption DEF Loose
  <1> QED
    BY <1>1 DEF Narrow

LEMMA InitBInv == Init => BInv
  BY NoneNarrow DEF Init, BInv, Behind

LEMMA VideoBInv ==
    ASSUME IInv, BInv, NEW due \in BOOLEAN, AddVideo(due), dynamic' = dynamic, next \in Packets
    PROVE  BInv'
  <1> DEFINE q0 == [packets |-> packets, min |-> minPriority]
             q == IF dynamic THEN q0 ELSE Trim(q0)
             ok == Prio[next] >= q.min
  <1>1. /\ packets' = IF ok THEN q.packets \cup {next} ELSE q.packets
        /\ lastDts' = IF ok THEN next ELSE lastDts
    BY DEF AddVideo
  <1>2. q.packets \subseteq packets
    BY TrimFacts DEF IInv
  <1>3. /\ next \in Nat /\ packets \in SUBSET Packets
        /\ \A n \in packets : n \in Nat /\ n < next
    BY QueueFacts DEF IInv
  <1>4. ~dynamic => Loose(q.packets) = {} \/ ~Delayed(q.packets, PThreshold + 1)
    BY <1>3, TrimmedFacts
  <1> HIDE DEF q
  <1>5. CASE ok
    <2>1. packets' = q.packets \cup {next} /\ lastDts' = next
      BY <1>1, <1>5
    <2>2. Behind'
      <3> SUFFICES ASSUME NEW n \in packets' \cap Video PROVE n <= next
        BY <2>1 DEF Behind
      <3>1. n \in packets \/ n = next
        BY <1>2, <2>1
      <3>2. \A k \in packets : k \in Nat /\ k < next
        BY <1>3
      <3>3. next \in Nat
        BY <1>3
      <3> QED
        BY <3>1, <3>2, <3>3
    <2>3. ~dynamic => Narrow(packets')
      BY <1>2, <1>4, <2>1, LetInNarrow DEF IInv, BInv
    <2> QED
      BY <2>2, <2>3 DEF BInv
  <1>6. CASE ~ok
    <2>1. packets' = q.packets /\ lastDts' = lastDts
      BY <1>1, <1>6
    <2>2. Behind'
      BY <1>2, <2>1 DEF BInv, Behind
    <2>3. ~dynamic => Narrow(packets')
      BY <1>2, <2>1, Narrower DEF IInv, BInv
    <2> QED
      BY <2>2, <2>3 DEF BInv
  <1> QED
    BY <1>5, <1>6

LEMMA NextBInv == IInv /\ BInv /\ [Next]_vars => BInv'
  <1> SUFFICES ASSUME IInv, BInv, [Next]_vars PROVE BInv'
    OBVIOUS
  <1>1. CASE Deliver
    <2>1. next \in Packets /\ dynamic' = dynamic
      BY <1>1 DEF Deliver, control, IInv, TypeOK, Packets
    <2>2. CASE AddAudio
      <3>1. packets' = packets \cup {next} /\ next \notin Video /\ lastDts' = lastDts
        BY <2>2 DEF AddAudio
      <3>2. Loose(packets') = Loose(packets)
        BY <3>1 DEF Loose
      <3> QED
        BY <2>1, <3>1, <3>2 DEF BInv, Behind, Narrow
    <2> QED
      BY <1>1, <2>1, <2>2, VideoBInv DEF Deliver
  <1>2. CASE Fetch \/ FreePackets
    <2>1. packets' \subseteq packets /\ lastDts' = lastDts /\ dynamic' = dynamic
      BY <1>2 DEF Fetch, FreePackets, control
    <2> QED
      BY <2>1, Narrower DEF IInv, BInv, Behind
  <1>3. CASE Connect
    BY <1>3, NoneNarrow DEF Connect, BInv, Behind
  <1>4. CASE \/ Post \/ SendWake \/ ShutDown \/ SendDone \/ SendFails \/ Close
             \/ (\E how \in {"now", "later"} : Stop(how)) \/ UNCHANGED vars
    <2>1. packets' = packets /\ lastDts' = lastDts /\ dynamic' = dynamic
      BY <1>4 DEF Post, SendWake, ShutDown, SendDone, SendFails, Close, Stop, vars, queue, control
    <2> QED
      BY <2>1 DEF BInv, Behind, Narrow
  <1> QED
    BY <1>1, <1>2, <1>3, <1>4 DEF Next

(* The frames that wait in the queue, keyframes and a handful aside, never *)
(* span more than pframe_drop_threshold_usec, the newest of them aside.    *)
THEOREM BacklogIsBounded == Spec => []BacklogBounded
  <1>1. IInv /\ BInv => BacklogBounded
    <2> DEFINE w == Loose(packets)
               m == Max(w)
               older == w \ {m}
    <2>1. BacklogBounded <=>
              (~dynamic /\ Cardinality(w) > Few => Max(older) - Min(older) <= PThreshold)
      BY Zenon DEF BacklogBounded, Loose
    <2> SUFFICES ASSUME IInv, BInv, ~dynamic, Cardinality(w) > Few
                 PROVE  Max(older) - Min(older) <= PThreshold
      BY <2>1, Zenon
    <2>2. /\ w \in SUBSET (0 .. Count) /\ Count \in Nat
          /\ IsFiniteSet(w) /\ Cardinality(w) \in Nat /\ Cardinality(w) > 1
      BY LooseFacts, NumbersAssumption DEF IInv
    <2>3. \A x, y, z \in w : x < z => x - y <= PThreshold
      BY DEF BInv, Narrow
    <2>4. w # {}
      BY <2>2, FS_EmptySet
    <2>5. m \in w /\ \A y \in w : m >= y
      BY <2>2, <2>4, MaxFacts
    <2> HIDE DEF w, m
    <2>6. older \in SUBSET (0 .. Count) /\ older \in SUBSET Nat /\ \A x \in older : x < m
      BY <2>2, <2>5
    <2>7. older # {}
      <3>1. Cardinality(older) = Cardinality(w) - 1
        BY <2>2, <2>5, FS_RemoveElement
      <3>2. older = {} => Cardinality(older) = 0
        BY FS_EmptySet
      <3> QED
        BY <2>2, <3>1, <3>2
    <2>8. older \subseteq w
      OBVIOUS
    <2> HIDE DEF older
    <2>9. Max(older) \in older /\ Min(older) \in older
      BY <2>2, <2>6, <2>7, MaxFacts, MinFacts
    <2> QED
      BY <2>3, <2>5, <2>6, <2>8, <2>9
  <1> QED
    BY <1>1, InitBInv, NextBInv, Invariants, PTL DEF Spec

=============================================================================
