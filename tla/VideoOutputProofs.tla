--------------------------- MODULE VideoOutputProofs ---------------------------
(***************************************************************************)
(* The ring of VideoOutput is correct for every cache size, every bound    *)
(* and every set of inputs: the inductive invariant of the ring and what   *)
(* follows, the ledger of ticks and merges, the stream of ticks the ring   *)
(* implements, and the frames of every input.                              *)
(***************************************************************************)
EXTENDS VideoOutput, RecursionLemmas

(* The slots in use are consecutive from first_added, and last_added is    *)
(* the newest of them (first_added itself when there is none).             *)
RingShape ==
    /\ locked => available > 0
    /\ lastAdded = IF Held = 0 THEN firstAdded ELSE Slot(Held - 1)

(* Every slot in use covers at least one tick, all of them behind the      *)
(* graphics clock, and the ticks of an older slot end before a newer one's *)
(* begin.                                                                  *)
Chain ==
    /\ \A k \in 0 .. Held - 1 :
          /\ cache[Slot(k)].count > 0
          /\ cache[Slot(k)].skipped < cache[Slot(k)].count
          /\ cache[Slot(k)].ts + cache[Slot(k)].count <= clock
    /\ \A j, k \in 0 .. Held - 1 :
          j < k => cache[Slot(j)].ts + cache[Slot(j)].count <= cache[Slot(k)].ts

(* While it runs, the semaphore counts the slots the thread has not begun. *)
Posted ==
    /\ pc \in {"deliver", "finish"} => cur = firstAdded /\ Out > 0
    /\ ~stop => Out = sem + (IF pc \in {"loop", "deliver", "finish"} THEN 1 ELSE 0)
    /\ ~stop => pc # "exit"

(* The last timestamp shown is behind every tick still owed. *)
Behind ==
    /\ shown < clock
    /\ pc # "finish" /\ Held > 0 => shown < cache[firstAdded].ts
    /\ pc = "finish" => shown = cache[firstAdded].ts

IInv == TypeOK /\ RingShape /\ Chain /\ Posted /\ Behind


core == <<ring, locked, clock, sem, stop, pc, cur, shown>>

-----------------------------------------------------------------------------
(* Walking the ring from first_added meets every slot once. *)
LEMMA SlotFacts ==
    ASSUME firstAdded \in Slots
    PROVE  /\ Slot(0) = firstAdded
           /\ \A k \in 0 .. CacheSize - 1 : Slot(k) \in Slots
           /\ \A j, k \in 0 .. CacheSize - 1 : Slot(j) = Slot(k) => j = k
           /\ \A k \in 0 .. CacheSize - 2 : Wrap(Slot(k) + 1) = Slot(k + 1)
  BY CacheAssumption DEF Slot, Slots, Wrap

(* The held slots are at most the whole ring, and a full ring is unlocked. *)
LEMMA HeldFacts ==
    ASSUME TypeOK, RingShape
    PROVE  /\ Out \in 0 .. CacheSize
           /\ Held \in 0 .. CacheSize
           /\ Held = (IF locked THEN Out + 1 ELSE Out)
  BY CacheAssumption DEF TypeOK, RingShape, Out, Held

LEMMA InitIInv == Init => IInv
  <1> SUFFICES ASSUME Init PROVE IInv
    OBVIOUS
  <1>1. TypeOK
    <2>1. cache \in [Slots -> [ts : Nat, count : Nat, skipped : Nat]]
      BY DEF Init
    <2>2. CacheSize \in Nat /\ 0 \in Slots
      BY CacheAssumption DEF Slots
    <2> QED
      BY <2>1, <2>2 DEF Init, TypeOK
  <1>2. Out = 0 /\ Held = 0
    BY CacheAssumption DEF Init, Out, Held
  <1>3. RingShape /\ Posted /\ Behind
    BY <1>2 DEF Init, RingShape, Posted, Behind
  <1>4. Chain
    BY <1>2 DEF Chain
  <1> QED
    BY <1>1, <1>3, <1>4 DEF IInv

(* A step that leaves the ring and both threads' control alone. *)
LEMMA CoreUnchanged ==
    ASSUME IInv, UNCHANGED core
    PROVE  IInv'
  <1>1. /\ Out' = Out /\ Held' = Held
        /\ \A k \in Int : Slot(k)' = Slot(k)
    BY DEF core, ring, Out, Held, Slot, Wrap
  <1>2. TypeOK' /\ RingShape' /\ Posted' /\ Behind'
    BY <1>1 DEF IInv, core, ring, TypeOK, RingShape, Posted, Behind, Slot, Wrap, Held, Out, Slots
  <1>3. Chain'
    BY <1>1 DEF IInv, Chain, core, ring, Slot, Wrap, Held, Out
  <1> QED
    BY <1>2, <1>3 DEF IInv

LEMMA MergeStep ==
    ASSUME IInv, NEW count \in 1 .. MaxCount, LockFrame(count), MergeIntoLast(count)
    PROVE  IInv'
  <1> USE CacheAssumption, BoundAssumption
  <1>1. /\ TypeOK /\ RingShape /\ Chain /\ Posted /\ Behind
    BY DEF IInv
  <1>2. /\ available = 0 /\ ~locked /\ locked' = locked
        /\ available' = available /\ firstAdded' = firstAdded
        /\ lastAdded' = lastAdded /\ clock' = clock + count
        /\ cache' = [cache EXCEPT ![lastAdded] =
              [ts |-> @.ts, count |-> @.count + count, skipped |-> @.skipped + count]]
        /\ sem' = sem /\ stop' = stop /\ pc' = pc /\ cur' = cur /\ shown' = shown
    BY DEF LockFrame, MergeIntoLast, thread
  <1>3. /\ Out = CacheSize /\ Held = CacheSize /\ Out' = Out /\ Held' = Held
        /\ lastAdded = Slot(CacheSize - 1)
    BY <1>1, <1>2 DEF Out, Held, RingShape, TypeOK
  <1>4. \A k \in Int : Slot(k)' = Slot(k)
    BY <1>2 DEF Slot, Wrap
  <1>6. /\ cache'[lastAdded].ts = cache[lastAdded].ts
        /\ cache'[lastAdded].count = cache[lastAdded].count + count
        /\ cache'[lastAdded].skipped = cache[lastAdded].skipped + count
        /\ \A s \in Slots : s # lastAdded => cache'[s] = cache[s]
    BY <1>1, <1>2 DEF TypeOK, Slots
  <1>5. TypeOK'
    <2>2. cache' \in [Slots -> [ts : Nat, count : Nat, skipped : Nat]]
      BY <1>1, <1>2 DEF TypeOK
    <2> QED
      BY <1>1, <1>2, <2>2 DEF TypeOK, Slots
  <1>7. RingShape' /\ Posted'
    BY <1>1, <1>2, <1>3, <1>4 DEF RingShape, Posted, TypeOK
  <1>8. Behind'
    BY <1>1, <1>2, <1>3, <1>6 DEF Behind, TypeOK
  <1>9. \A k \in 0 .. CacheSize - 1 : k # CacheSize - 1 => Slot(k) # lastAdded /\ Slot(k) \in Slots
    BY <1>1, <1>3, SlotFacts DEF TypeOK
  <1>10. Chain'
    <2>1. ASSUME NEW k \in 0 .. CacheSize - 1
          PROVE  /\ cache'[Slot(k)].count > 0
                 /\ cache'[Slot(k)].skipped < cache'[Slot(k)].count
                 /\ cache'[Slot(k)].ts + cache'[Slot(k)].count <= clock'
      <3>1. /\ cache[Slot(k)].count > 0
            /\ cache[Slot(k)].skipped < cache[Slot(k)].count
            /\ cache[Slot(k)].ts + cache[Slot(k)].count <= clock
        BY <1>1, <1>3 DEF Chain
      <3>2. /\ Slot(k) \in Slots /\ cache[Slot(k)].count \in Nat
            /\ cache[Slot(k)].skipped \in Nat /\ cache[Slot(k)].ts \in Nat
            /\ clock \in Nat
        BY <1>1, SlotFacts DEF TypeOK
      <3> QED
        BY <1>2, <1>3, <1>6, <1>9, <3>1, <3>2
    <2>2. ASSUME NEW j \in 0 .. CacheSize - 1, NEW k \in 0 .. CacheSize - 1, j < k
          PROVE  cache'[Slot(j)].ts + cache'[Slot(j)].count <= cache'[Slot(k)].ts
      <3>1. cache[Slot(j)].ts + cache[Slot(j)].count <= cache[Slot(k)].ts
        BY <1>1, <1>3, <2>2 DEF Chain
      <3>2. Slot(j) # lastAdded /\ Slot(j) \in Slots /\ Slot(k) \in Slots
        BY <1>1, <1>9, <2>2, SlotFacts DEF TypeOK
      <3> QED
        BY <1>6, <3>1, <3>2
    <2> QED
      BY <1>3, <1>4, <2>1, <2>2 DEF Chain
  <1> QED
    BY <1>5, <1>7, <1>8, <1>10 DEF IInv

LEMMA ClaimStep ==
    ASSUME IInv, NEW count \in 1 .. MaxCount, LockFrame(count), ClaimSlot(count)
    PROVE  IInv'
  <1> USE CacheAssumption, BoundAssumption
  <1>1. TypeOK /\ RingShape /\ Chain /\ Posted /\ Behind
    BY DEF IInv
  <1>2. /\ available # 0 /\ ~locked /\ locked' /\ locked' \in BOOLEAN
        /\ available' = available /\ firstAdded' = firstAdded
        /\ lastAdded' = IF available # CacheSize THEN Wrap(lastAdded + 1) ELSE lastAdded
        /\ cache' = [cache EXCEPT ![lastAdded'] = [ts |-> clock, count |-> count, skipped |-> 0]]
        /\ clock' = clock + count
        /\ sem' = sem /\ stop' = stop /\ pc' = pc /\ cur' = cur /\ shown' = shown
    BY DEF LockFrame, ClaimSlot, thread
  <1>3. /\ Held = Out /\ Held' = Out + 1 /\ Out' = Out
        /\ Out \in 0 .. CacheSize - 1
    BY <1>1, <1>2 DEF Held, Out, TypeOK
  <1>4. \A k \in Int : Slot(k)' = Slot(k)
    BY <1>2 DEF Slot, Wrap
  <1>5. lastAdded' = Slot(Out) /\ lastAdded' \in Slots
    <2>1. CASE Out = 0
      BY <1>1, <1>2, <1>3, <2>1, SlotFacts DEF RingShape, TypeOK, Out
    <2>2. CASE Out > 0
      <3>1. lastAdded = Slot(Out - 1) /\ Out - 1 \in 0 .. CacheSize - 2
        BY <1>1, <1>3, <2>2 DEF RingShape
      <3>2. lastAdded' = Wrap(lastAdded + 1)
        BY <1>2, <1>3, <2>2 DEF Out
      <3>3. Wrap(Slot(Out - 1) + 1) = Slot(Out - 1 + 1)
        BY <1>1, <3>1, SlotFacts DEF TypeOK
      <3> QED
        BY <1>1, <1>3, <3>1, <3>2, <3>3, SlotFacts DEF TypeOK
    <2> QED
      BY <1>3, <2>1, <2>2
  <1>6. /\ cache'[lastAdded'] = [ts |-> clock, count |-> count, skipped |-> 0]
        /\ \A s \in Slots : s # lastAdded' => cache'[s] = cache[s]
    BY <1>1, <1>2, <1>5 DEF TypeOK
  <1>7. TypeOK'
    <2>1. cache' \in [Slots -> [ts : Nat, count : Nat, skipped : Nat]]
      BY <1>1, <1>2, <1>5 DEF TypeOK
    <2> QED
      BY <1>1, <1>2, <1>5, <2>1 DEF TypeOK, Slots
  <1>8. RingShape' /\ Posted'
    BY <1>1, <1>2, <1>3, <1>4, <1>5 DEF RingShape, Posted, TypeOK
  <1>9. \A k \in 0 .. Out - 1 : Slot(k) \in Slots /\ cache'[Slot(k)] = cache[Slot(k)]
    BY <1>1, <1>3, <1>5, <1>6, SlotFacts DEF TypeOK
  <1>10. Behind'
    <2>1. CASE Out = 0
      BY <1>1, <1>2, <1>3, <1>5, <1>6, <2>1, SlotFacts DEF Behind, Posted, TypeOK
    <2>2. CASE Out > 0
      <3>1. firstAdded = Slot(0) /\ cache'[firstAdded] = cache[firstAdded]
        BY <1>1, <1>3, <1>9, <2>2, SlotFacts DEF TypeOK
      <3> QED
        BY <1>1, <1>2, <1>3, <2>2, <3>1 DEF Behind, TypeOK
    <2> QED
      BY <1>3, <2>1, <2>2
  <1>11. Chain'
    <2>1. ASSUME NEW k \in 0 .. Out
          PROVE  /\ cache'[Slot(k)].count > 0
                 /\ cache'[Slot(k)].skipped < cache'[Slot(k)].count
                 /\ cache'[Slot(k)].ts + cache'[Slot(k)].count <= clock'
      <3>1. CASE k = Out
        BY <1>1, <1>2, <1>5, <1>6, <3>1 DEF TypeOK
      <3>2. CASE k # Out
        <4>1. /\ cache[Slot(k)].count > 0
              /\ cache[Slot(k)].skipped < cache[Slot(k)].count
              /\ cache[Slot(k)].ts + cache[Slot(k)].count <= clock
          BY <1>1, <1>3, <3>2 DEF Chain
        <4> QED
          BY <1>1, <1>2, <1>3, <1>9, <3>2, <4>1 DEF TypeOK
      <3> QED
        BY <3>1, <3>2
    <2>2. ASSUME NEW j \in 0 .. Out, NEW k \in 0 .. Out, j < k
          PROVE  cache'[Slot(j)].ts + cache'[Slot(j)].count <= cache'[Slot(k)].ts
      <3>1. j \in 0 .. Out - 1 /\ cache'[Slot(j)] = cache[Slot(j)]
        BY <1>3, <1>9, <2>2
      <3>2. CASE k = Out
        BY <1>1, <1>3, <1>5, <1>6, <3>1, <3>2 DEF Chain
      <3>3. CASE k # Out
        BY <1>1, <1>3, <1>9, <2>2, <3>1, <3>3 DEF Chain
      <3> QED
        BY <3>2, <3>3
    <2> QED
      BY <1>3, <1>4, <2>1, <2>2 DEF Chain
  <1> QED
    BY <1>7, <1>8, <1>10, <1>11 DEF IInv

LEMMA UnlockStep ==
    ASSUME IInv, UnlockFrame
    PROVE  IInv'
  <1> USE CacheAssumption
  <1>1. TypeOK /\ RingShape /\ Chain /\ Posted /\ Behind
    BY DEF IInv
  <1>2. /\ locked /\ ~locked' /\ locked' \in BOOLEAN
        /\ available' = available - 1 /\ available > 0
        /\ firstAdded' = firstAdded /\ lastAdded' = lastAdded /\ cache' = cache
        /\ sem' = sem + 1
        /\ clock' = clock /\ stop' = stop /\ pc' = pc /\ cur' = cur /\ shown' = shown
    BY <1>1 DEF UnlockFrame, thread, history, RingShape
  <1>3. Out' = Out + 1 /\ Held' = Held /\ Held = Out + 1 /\ Out \in 0 .. CacheSize - 1
    BY <1>1, <1>2 DEF Held, Out, TypeOK
  <1>4. \A k \in Int : Slot(k)' = Slot(k)
    BY <1>2 DEF Slot, Wrap
  <1>5. TypeOK' /\ RingShape' /\ Behind'
    BY <1>1, <1>2, <1>3, <1>4 DEF TypeOK, RingShape, Behind, Slots
  <1>6. Posted'
    BY <1>1, <1>2, <1>3 DEF Posted, TypeOK
  <1>7. Chain'
    BY <1>1, <1>2, <1>3, <1>4 DEF Chain
  <1> QED
    BY <1>5, <1>6, <1>7 DEF IInv

(* The steps that move the clock or a program counter but not the ring. *)
LEMMA RingUnchanged ==
    ASSUME IInv, UNCHANGED <<ring, locked>>, TypeOK', Posted', Behind',
           clock' >= clock
    PROVE  IInv'
  <1>1. TypeOK /\ RingShape /\ Chain
    BY DEF IInv
  <1>2. /\ available' = available /\ firstAdded' = firstAdded /\ lastAdded' = lastAdded
        /\ cache' = cache /\ locked' = locked
    BY DEF ring
  <1>3. Out' = Out /\ Held' = Held /\ Held \in 0 .. CacheSize
    BY <1>1, <1>2, HeldFacts DEF Out, Held
  <1>4. \A k \in Int : Slot(k)' = Slot(k)
    BY <1>2 DEF Slot, Wrap
  <1>5. RingShape'
    BY <1>1, <1>2, <1>3, <1>4 DEF RingShape
  <1>6. ASSUME NEW k \in 0 .. Held - 1
        PROVE  cache[Slot(k)].ts + cache[Slot(k)].count <= clock'
    <2>1. cache[Slot(k)].ts + cache[Slot(k)].count <= clock /\ Slot(k) \in Slots
      BY <1>1, <1>3, SlotFacts, CacheAssumption DEF Chain, TypeOK
    <2>2. cache[Slot(k)].ts \in Nat /\ cache[Slot(k)].count \in Nat
      BY <1>1, <2>1 DEF TypeOK
    <2>3. clock \in Nat /\ clock' \in Nat
      BY <1>1 DEF TypeOK
    <2> QED
      BY <2>1, <2>2, <2>3
  <1>7. Chain'
    BY <1>1, <1>2, <1>3, <1>4, <1>6 DEF Chain
  <1> QED
    BY <1>5, <1>7 DEF IInv

(* A frame that may be read is stamped before the graphics clock. *)
LEMMA FirstBehindClock ==
    ASSUME TypeOK, Chain, RingShape, Held > 0
    PROVE  cache[firstAdded].ts \in Nat /\ cache[firstAdded].ts < clock
  <1>1. firstAdded = Slot(0) /\ 0 \in 0 .. Held - 1 /\ firstAdded \in Slots
    BY HeldFacts, SlotFacts DEF TypeOK
  <1>2. cache[firstAdded].count > 0 /\ cache[firstAdded].ts + cache[firstAdded].count <= clock
    BY <1>1 DEF Chain
  <1> QED
    BY <1>1, <1>2 DEF TypeOK

LEMMA ControlStep ==
    ASSUME IInv,
           \/ IdleTick \/ Wake \/ LeaveLoop \/ TakeFrame \/ EndInputs \/ Stop
    PROVE  IInv'
  <1> USE CacheAssumption
  <1>1. TypeOK /\ RingShape /\ Chain /\ Posted /\ Behind
    BY DEF IInv
  <1>2. Out \in 0 .. CacheSize /\ Held \in 0 .. CacheSize /\ (Out > 0 => Held > 0)
    BY <1>1, HeldFacts
  <1>3. ASSUME UNCHANGED <<ring, locked>>
        PROVE  /\ Out' = Out /\ Held' = Held /\ locked' = locked
               /\ available' = available /\ firstAdded' = firstAdded
               /\ lastAdded' = lastAdded /\ cache' = cache
    BY <1>3 DEF ring, Out, Held
  <1>4. CASE IdleTick
    <2>1. UNCHANGED <<ring, locked>> /\ clock' = clock + 1
      BY <1>4 DEF IdleTick
    <2>2. TypeOK'
      BY <1>1, <1>3, <1>4, <2>1 DEF IdleTick, thread, history, TypeOK, Slots
    <2>3. Posted'
      BY <1>1, <1>2, <1>3, <1>4, <2>1 DEF IdleTick, thread, TypeOK, Posted
    <2>4. Behind'
      BY <1>1, <1>2, <1>3, <1>4, <2>1 DEF IdleTick, thread, history, TypeOK, Behind
    <2> QED
      BY <1>1, <2>1, <2>2, <2>3, <2>4, RingUnchanged DEF TypeOK
  <1>5. CASE Wake
    <2>1. UNCHANGED <<ring, locked>> /\ clock' = clock
      BY <1>5 DEF Wake
    <2>2. TypeOK'
      BY <1>1, <1>3, <1>5, <2>1 DEF Wake, history, TypeOK, Slots
    <2>3. Posted'
      BY <1>1, <1>2, <1>3, <1>5, <2>1 DEF Wake, TypeOK, Posted
    <2>4. Behind'
      BY <1>1, <1>2, <1>3, <1>5, <2>1 DEF Wake, history, TypeOK, Behind
    <2> QED
      BY <1>1, <2>1, <2>2, <2>3, <2>4, RingUnchanged DEF TypeOK
  <1>6. CASE LeaveLoop
    <2>1. UNCHANGED <<ring, locked>> /\ clock' = clock
      BY <1>6 DEF LeaveLoop
    <2>2. TypeOK'
      BY <1>1, <1>3, <1>6, <2>1 DEF LeaveLoop, history, TypeOK, Slots
    <2>3. Posted'
      BY <1>1, <1>2, <1>3, <1>6, <2>1 DEF LeaveLoop, TypeOK, Posted
    <2>4. Behind'
      BY <1>1, <1>2, <1>3, <1>6, <2>1 DEF LeaveLoop, history, TypeOK, Behind
    <2> QED
      BY <1>1, <2>1, <2>2, <2>3, <2>4, RingUnchanged DEF TypeOK
  <1>7. CASE TakeFrame
    <2>1. UNCHANGED <<ring, locked>> /\ clock' = clock
      BY <1>7 DEF TakeFrame
    <2>2. TypeOK'
      BY <1>1, <1>3, <1>7, <2>1 DEF TakeFrame, history, TypeOK, Slots
    <2>3. Posted'
      BY <1>1, <1>2, <1>3, <1>7, <2>1 DEF TakeFrame, TypeOK, Posted
    <2>4. Behind'
      BY <1>1, <1>2, <1>3, <1>7, <2>1 DEF TakeFrame, history, TypeOK, Behind
    <2> QED
      BY <1>1, <2>1, <2>2, <2>3, <2>4, RingUnchanged DEF TypeOK
  <1>8. CASE EndInputs
    <2>1. UNCHANGED <<ring, locked>> /\ clock' = clock
      BY <1>8 DEF EndInputs
    <2>2. cur = firstAdded /\ Out > 0 /\ Held > 0
      BY <1>1, <1>2, <1>8 DEF EndInputs, InputLoop, Posted
    <2>3. cache[firstAdded].ts \in Nat /\ cache[firstAdded].ts < clock
      BY <1>1, <1>2, <2>2, FirstBehindClock
    <2>4. TypeOK' /\ Posted' /\ Behind'
      BY <1>1, <1>2, <1>3, <1>8, <2>1, <2>2, <2>3
         DEF EndInputs, InputLoop, TypeOK, Posted, Behind, Slots
    <2> QED
      BY <1>1, <2>1, <2>4, RingUnchanged DEF TypeOK
  <1>9. CASE Stop
    <2>1. UNCHANGED <<ring, locked>> /\ clock' = clock
      BY <1>9 DEF Stop
    <2>2. TypeOK'
      BY <1>1, <1>3, <1>9, <2>1 DEF Stop, thread, history, TypeOK, Slots
    <2>3. Posted'
      BY <1>1, <1>2, <1>3, <1>9, <2>1 DEF Stop, thread, TypeOK, Posted
    <2>4. Behind'
      BY <1>1, <1>2, <1>3, <1>9, <2>1 DEF Stop, thread, history, TypeOK, Behind
    <2> QED
      BY <1>1, <2>1, <2>2, <2>3, <2>4, RingUnchanged DEF TypeOK
  <1> QED
    BY <1>4, <1>5, <1>6, <1>7, <1>8, <1>9

LEMMA RepeatStep ==
    ASSUME IInv, FinishFrame, RepeatSlot
    PROVE  IInv'
  <1> USE CacheAssumption
  <1> DEFINE late == IF cache[cur].skipped > 0 THEN 1 ELSE 0
  <1>1. TypeOK /\ RingShape /\ Chain /\ Posted /\ Behind
    BY DEF IInv
  <1>2. /\ pc = "finish" /\ pc' = "loop" /\ cache[cur].count # 1
        /\ available' = available /\ firstAdded' = firstAdded /\ lastAdded' = lastAdded
        /\ cache' = [cache EXCEPT ![cur] =
              [ts |-> @.ts + 1, count |-> @.count - 1, skipped |-> @.skipped - late]]
        /\ locked' = locked /\ sem' = sem /\ clock' = clock /\ stop' = stop
        /\ cur' = cur /\ shown' = shown
    BY DEF FinishFrame, RepeatSlot, history
  <1>3. /\ cur = firstAdded /\ cur = Slot(0) /\ Out > 0 /\ Held > 0 /\ Held \in 0 .. CacheSize
        /\ Out' = Out /\ Held' = Held
    BY <1>1, <1>2, HeldFacts, SlotFacts DEF TypeOK, Posted, Out, Held
  <1>4. \A k \in Int : Slot(k)' = Slot(k)
    BY <1>2 DEF Slot, Wrap
  <1>5. /\ cache[cur].ts \in Nat /\ cache[cur].count \in Nat /\ cache[cur].skipped \in Nat
        /\ cache[cur].count > 1 /\ cache[cur].skipped < cache[cur].count
        /\ cache[cur].ts + cache[cur].count <= clock
        /\ late \in {0, 1} /\ late <= cache[cur].skipped
        /\ (late = 0 => cache[cur].skipped = 0)
    BY <1>1, <1>2, <1>3 DEF TypeOK, Chain
  <1> HIDE DEF late
  <1>6. /\ cache'[cur] = [ts |-> cache[cur].ts + 1, count |-> cache[cur].count - 1,
                          skipped |-> cache[cur].skipped - late]
        /\ \A s \in Slots : s # cur => cache'[s] = cache[s]
    BY <1>1, <1>2 DEF TypeOK
  <1>7. TypeOK'
    <2>1. cache' \in [Slots -> [ts : Nat, count : Nat, skipped : Nat]]
      BY <1>1, <1>2, <1>5 DEF TypeOK
    <2> QED
      BY <1>1, <1>2, <2>1 DEF TypeOK, Slots
  <1>8. RingShape' /\ Posted' /\ Behind'
    BY <1>1, <1>2, <1>3, <1>4, <1>5, <1>6 DEF RingShape, Posted, Behind, TypeOK
  <1>9. \A k \in 1 .. Held - 1 : Slot(k) \in Slots /\ cache'[Slot(k)] = cache[Slot(k)]
    BY <1>1, <1>3, <1>6, SlotFacts DEF TypeOK
  <1>10. Chain'
    <2>1. ASSUME NEW k \in 0 .. Held - 1
          PROVE  /\ cache'[Slot(k)].count > 0
                 /\ cache'[Slot(k)].skipped < cache'[Slot(k)].count
                 /\ cache'[Slot(k)].ts + cache'[Slot(k)].count <= clock'
      <3>1. CASE k = 0
        BY <1>2, <1>3, <1>5, <1>6, <3>1
      <3>2. CASE k # 0
        BY <1>1, <1>2, <1>9, <3>2 DEF Chain
      <3> QED
        BY <3>1, <3>2
    <2>2. ASSUME NEW j \in 0 .. Held - 1, NEW k \in 0 .. Held - 1, j < k
          PROVE  cache'[Slot(j)].ts + cache'[Slot(j)].count <= cache'[Slot(k)].ts
      <3>1. /\ cache[Slot(j)].ts + cache[Slot(j)].count <= cache[Slot(k)].ts
            /\ cache'[Slot(k)] = cache[Slot(k)]
        BY <1>1, <1>9, <2>2 DEF Chain
      <3>2. CASE j = 0
        <4>1. cache'[Slot(j)].ts + cache'[Slot(j)].count = cache[Slot(j)].ts + cache[Slot(j)].count
          BY <1>3, <1>5, <1>6, <3>2
        <4> QED
          BY <3>1, <4>1
      <3>3. CASE j # 0
        BY <1>9, <3>1, <3>3
      <3> QED
        BY <3>2, <3>3
    <2> QED
      BY <1>3, <1>4, <2>1, <2>2 DEF Chain
  <1> QED
    BY <1>7, <1>8, <1>10 DEF IInv

LEMMA CompleteStep ==
    ASSUME IInv, FinishFrame, CompleteSlot
    PROVE  IInv'
  <1> USE CacheAssumption
  <1>1. TypeOK /\ RingShape /\ Chain /\ Posted /\ Behind
    BY DEF IInv
  <1>2. /\ pc = "finish" /\ pc' = "wait" /\ cache[cur].count = 1
        /\ available' = available + 1 /\ firstAdded' = Wrap(firstAdded + 1)
        /\ lastAdded' = IF available' = CacheSize THEN firstAdded' ELSE lastAdded
        /\ cache' = [cache EXCEPT ![cur] = [ts |-> @.ts + 1, count |-> 0, skipped |-> @.skipped]]
        /\ locked' = locked /\ sem' = sem /\ clock' = clock /\ stop' = stop
        /\ cur' = cur /\ shown' = shown
    BY DEF FinishFrame, CompleteSlot, history
  <1>3. /\ cur = firstAdded /\ cur = Slot(0) /\ Out \in 1 .. CacheSize
        /\ Held \in 1 .. CacheSize /\ Out' = Out - 1 /\ Held' = Held - 1
    BY <1>1, <1>2, HeldFacts, SlotFacts DEF TypeOK, Posted, Out, Held
  <1>4. firstAdded' \in Slots
    BY <1>1, <1>2 DEF TypeOK, Slots, Wrap
  <1>5. \A k \in 0 .. CacheSize - 2 : Slot(k)' = Slot(k + 1)
    BY <1>1, <1>2 DEF TypeOK, Slots, Slot, Wrap
  <1>6. \A s \in Slots : s # cur => cache'[s] = cache[s]
    BY <1>1, <1>2 DEF TypeOK
  <1>7. \A k \in 1 .. Held - 1 : Slot(k) \in Slots /\ cache'[Slot(k)] = cache[Slot(k)]
    BY <1>1, <1>3, <1>6, SlotFacts DEF TypeOK
  <1>8. TypeOK'
    <2>1. cache' \in [Slots -> [ts : Nat, count : Nat, skipped : Nat]]
      BY <1>1, <1>2 DEF TypeOK
    <2>2. available' \in 0 .. CacheSize
      BY <1>1, <1>2, <1>3 DEF TypeOK, Out
    <2> QED
      BY <1>1, <1>2, <1>4, <2>1, <2>2 DEF TypeOK, Slots
  <1>9. RingShape'
    <2>1. locked' => available' > 0
      BY <1>1, <1>2 DEF RingShape, TypeOK
    <2>2. CASE Held = 1
      <3>1. Held' = 0
        BY <1>3, <2>2
      <3>2. lastAdded' = firstAdded'
        <4>1. CASE locked
          BY <1>1, <1>3, <2>2, <4>1 DEF Held, TypeOK, Out
        <4>2. CASE ~locked
          BY <1>1, <1>2, <1>3, <2>2, <4>2 DEF Held, Out, TypeOK
        <4> QED
          BY <4>1, <4>2
      <3> QED
        BY <2>1, <3>1, <3>2 DEF RingShape
    <2>3. CASE Held > 1
      <3>1. PICK h \in 0 .. CacheSize - 2 : h = Held - 2
        BY <1>3, <2>3
      <3>2. lastAdded = Slot(h + 1) /\ Slot(h)' = Slot(h + 1) /\ Held' - 1 = h
        BY <1>1, <1>3, <1>5, <2>3, <3>1 DEF RingShape
      <3>3. lastAdded' = Slot(h)'
        <4>1. CASE available' = CacheSize
          \* only the slot being written is left: it is the new first one
          <5>1. Held = 2
            BY <1>1, <1>2, <1>3, <2>3, <4>1 DEF Held, Out, TypeOK
          <5>2. h = 0
            BY <3>1, <5>1
          <5>3. Slot(0)' = firstAdded'
            <6>1. Slot(0)' = Slot(0 + 1)
              BY <1>5
            <6>2. firstAdded' = Slot(1)
              BY <1>2 DEF Slot
            <6> QED
              BY <6>1, <6>2
          <5> QED
            BY <1>2, <4>1, <5>2, <5>3
        <4>2. CASE available' # CacheSize
          BY <1>2, <3>2, <4>2
        <4> QED
          BY <4>1, <4>2
      <3>4. lastAdded' = Slot(Held - 1)'
        BY <3>2, <3>3 DEF Slot
      <3> QED
        BY <1>3, <2>1, <2>3, <3>4 DEF RingShape
    <2> QED
      BY <1>3, <2>2, <2>3
  <1>10. Posted'
    BY <1>1, <1>2, <1>3 DEF Posted, TypeOK
  <1>11. Behind'
    <2>1. CASE Held = 1
      BY <1>1, <1>2, <1>3, <2>1 DEF Behind
    <2>2. CASE Held > 1
      <3>1. firstAdded' = Slot(1) /\ cache'[Slot(1)] = cache[Slot(1)] /\ Slot(1) \in Slots
        BY <1>1, <1>2, <1>3, <1>7, <2>2, SMTT(30) DEF Slot, TypeOK, Slots
      <3>2. cache[Slot(0)].ts + cache[Slot(0)].count <= cache[Slot(1)].ts
        BY <1>1, <1>3, <2>2 DEF Chain
      <3>3. /\ shown = cache[Slot(0)].ts /\ cache[Slot(0)].count = 1
            /\ cache[Slot(0)].ts \in Nat /\ cache[Slot(1)].ts \in Nat
        BY <1>1, <1>2, <1>3, <3>1 DEF Behind, TypeOK
      <3> QED
        BY <1>1, <1>2, <3>1, <3>2, <3>3 DEF Behind
    <2> QED
      BY <1>3, <2>1, <2>2
  <1>12. Chain'
    <2>1. ASSUME NEW k \in 0 .. Held - 2
          PROVE  k + 1 \in 1 .. Held - 1 /\ Slot(k)' = Slot(k + 1)
      BY <1>3, <1>5
    <2>2. ASSUME NEW k \in 0 .. Held - 2
          PROVE  /\ cache'[Slot(k)'].count > 0
                 /\ cache'[Slot(k)'].skipped < cache'[Slot(k)'].count
                 /\ cache'[Slot(k)'].ts + cache'[Slot(k)'].count <= clock'
      BY <1>1, <1>2, <1>3, <1>7, <2>1 DEF Chain
    <2>3. ASSUME NEW j \in 0 .. Held - 2, NEW k \in 0 .. Held - 2, j < k
          PROVE  cache'[Slot(j)'].ts + cache'[Slot(j)'].count <= cache'[Slot(k)'].ts
      <3>1. j + 1 \in 0 .. Held - 1 /\ k + 1 \in 0 .. Held - 1 /\ j + 1 < k + 1
        BY <1>3, <2>3
      <3> QED
        BY <1>1, <1>3, <1>7, <2>1, <3>1 DEF Chain
    <2> QED
      BY <1>3, <2>2, <2>3 DEF Chain
  <1> QED
    BY <1>8, <1>9, <1>10, <1>11, <1>12 DEF IInv

-----------------------------------------------------------------------------
(* IInv is inductive. *)
LEMMA NextIInv == IInv /\ [Next]_vars => IInv'
  <1> SUFFICES ASSUME IInv, [Next]_vars PROVE IInv'
    OBVIOUS
  <1>1. CASE \E count \in 1 .. MaxCount : LockFrame(count)
    BY <1>1, MergeStep, ClaimStep DEF LockFrame
  <1>2. CASE UnlockFrame
    BY <1>2, UnlockStep
  <1>3. CASE IdleTick \/ Wake \/ LeaveLoop \/ TakeFrame \/ EndInputs \/ Stop
    BY <1>3, ControlStep
  <1>4. CASE FinishFrame
    BY <1>4, CompleteStep, RepeatStep DEF FinishFrame
  <1>5. CASE \/ DeliverToInput \/ Disconnect \/ IncTextureEncoders \/ DecTextureEncoders
            \/ \E id \in Inputs, div \in Divisors : Connect(id, div)
    <2>1. UNCHANGED core
      BY <1>5 DEF DeliverToInput, Disconnect, IncTextureEncoders, DecTextureEncoders,
                  Connect, core, thread, history
    <2> QED
      BY <2>1, CoreUnchanged
  <1>6. CASE UNCHANGED vars
    <2>1. UNCHANGED core
      BY <1>6 DEF vars, core, thread, history
    <2> QED
      BY <2>1, CoreUnchanged
  <1> QED
    BY <1>1, <1>2, <1>3, <1>4, <1>5, <1>6 DEF Next

(* The inductive invariant holds in every reachable state. *)
THEOREM RingInvariant == Spec => []IInv
  BY InitIInv, NextIInv, PTL DEF Spec

(* Type correctness. *)
THEOREM TypeCorrect == Spec => []TypeOK
  <1>1. IInv => TypeOK
    BY DEF IInv
  <1> QED
    BY <1>1, RingInvariant, PTL

(* The graphics thread never writes the slot the video thread is reading:  *)
(* the written slot is the last of the held ones, the read one the first,  *)
(* and a locked ring with a frame out holds at least two.                  *)
THEOREM RingNeverTears == Spec => []NoTearing
  <1>1. IInv => NoTearing
    <2> SUFFICES ASSUME IInv, locked, pc \in {"deliver", "finish"} PROVE lastAdded # cur
      BY DEF NoTearing
    <2>1. TypeOK /\ RingShape /\ cur = firstAdded /\ Out > 0
      BY DEF IInv, Posted
    <2>2. Held \in 2 .. CacheSize /\ lastAdded = Slot(Held - 1)
      BY <2>1, HeldFacts DEF RingShape
    <2> QED
      BY <2>1, <2>2, SlotFacts, CacheAssumption DEF TypeOK
  <1> QED
    BY <1>1, RingInvariant, PTL

(* The inner loop of the video thread never runs on an empty ring. *)
THEOREM RingNeverUnderruns == Spec => []NeverReadsEmptyRing
  <1>1. IInv => NeverReadsEmptyRing
    <2> SUFFICES ASSUME IInv, pc \in {"deliver", "finish"}
                 PROVE  Out > 0 /\ cache[cur].count > 0
      BY DEF NeverReadsEmptyRing
    <2>1. TypeOK /\ RingShape /\ Chain /\ cur = firstAdded /\ Out > 0
      BY DEF IInv, Posted
    <2>2. Held > 0 /\ Held \in Nat /\ cur = Slot(0)
      BY <2>1, HeldFacts, SlotFacts DEF TypeOK
    <2> QED
      BY <2>1, <2>2 DEF Chain
  <1> QED
    BY <1>1, RingInvariant, PTL

(* Frames reach the inputs with strictly increasing timestamps. *)
THEOREM RingIsMonotone == Spec => TimestampsIncrease
  <1>1. IInv /\ [Next]_vars => [delivered' # delivered => shown' > shown]_vars
    <2> SUFFICES ASSUME IInv, Next, delivered' # delivered PROVE shown' > shown
      OBVIOUS
    <2>1. EndInputs
      BY DEF Next, LockFrame, UnlockFrame, IdleTick, Wake, LeaveLoop, TakeFrame, DeliverToInput,
             FinishFrame, Connect, Disconnect, IncTextureEncoders, DecTextureEncoders, Stop,
             history
    <2>2. TypeOK /\ RingShape /\ Behind /\ cur = firstAdded /\ Out > 0 /\ pc = "deliver"
      BY <2>1 DEF IInv, EndInputs, InputLoop, Posted
    <2>3. Held > 0 /\ cache[firstAdded].ts \in Nat
      BY <2>2, HeldFacts DEF TypeOK
    <2> QED
      BY <2>1, <2>2, <2>3 DEF EndInputs, Behind
  <1> QED
    BY <1>1, RingInvariant, PTL DEF Spec, TimestampsIncrease

(* No frame is stamped ahead of the graphics clock. *)
THEOREM RingNeverAhead == Spec => []NeverAhead
  <1>1. IInv => NeverAhead
    BY DEF IInv, Behind, NeverAhead
  <1> QED
    BY <1>1, RingInvariant, PTL

-----------------------------------------------------------------------------
(***************************************************************************)
(* Sums over the slots in use.                                             *)
(***************************************************************************)
Counts == [s \in Slots |-> cache[s].count]
Owed   == SumFunctionOnSet(Counts, HeldSlots)

(* Every tick handed over is delivered or still counted on a slot in use,  *)
(* a tick that is being delivered on both sides until its slot is updated; *)
(* and the skipped counts of the slots in use are what is still to be      *)
(* reported of the merges.                                                 *)
Ledger ==
    /\ produced \in Nat /\ delivered \in Nat /\ skippedFrames \in Int /\ merged \in Int
    /\ delivered + Owed = produced + (IF pc = "finish" THEN 1 ELSE 0)
    /\ SkipAccounting

LInv == IInv /\ Ledger

LEMMA SlotSums ==
    ASSUME TypeOK, RingShape
    PROVE  /\ IsFiniteSet(HeldSlots) /\ HeldSlots \subseteq Slots
           /\ \A s \in HeldSlots : Counts[s] = cache[s].count /\ Skipped[s] = cache[s].skipped
           /\ \A s \in HeldSlots : Counts[s] \in Nat /\ Skipped[s] \in Nat
           /\ \A s \in HeldSlots : Counts[s] \in Int /\ Skipped[s] \in Int
           /\ Owed \in Int /\ Pending \in Int
  <1>1. Held \in 0 .. CacheSize
    BY HeldFacts
  <1>2. HeldSlots \subseteq Slots
    BY <1>1, SlotFacts, CacheAssumption DEF HeldSlots, TypeOK
  <1>3. IsFiniteSet(Slots)
    BY CacheAssumption, FS_Interval DEF Slots
  <1>4. IsFiniteSet(HeldSlots)
    BY <1>2, <1>3, FS_Subset
  <1>5. \A s \in HeldSlots : /\ Counts[s] = cache[s].count /\ Skipped[s] = cache[s].skipped
                             /\ Counts[s] \in Nat /\ Skipped[s] \in Nat
                             /\ Counts[s] \in Int /\ Skipped[s] \in Int
    BY <1>2 DEF Counts, Skipped, TypeOK
  <1>6. Owed \in Int
    BY <1>4, <1>5, SumNat DEF Owed
  <1>7. Pending \in Int
    BY <1>4, <1>5, SumNat DEF Pending
  <1> QED
    BY <1>2, <1>4, <1>5, <1>6, <1>7

LEMMA InitLedger == Init => Ledger
  <1> SUFFICES ASSUME Init PROVE Ledger
    OBVIOUS
  <1>1. Held = 0
    BY CacheAssumption DEF Init, Held, Out
  <1>2. HeldSlots = {}
    BY <1>1 DEF HeldSlots
  <1>3. Owed = 0 /\ Pending = 0
    BY <1>2, SumEmpty DEF Owed, Pending
  <1> QED
    BY <1>3 DEF Init, Ledger, SkipAccounting

(* A step that leaves the slots in use and their numbers alone. *)
LEMMA SameSums ==
    ASSUME IInv, UNCHANGED <<available, firstAdded, cache>>, Held' = Held
    PROVE  Owed' = Owed /\ Pending' = Pending /\ HeldSlots' = HeldSlots
  <1>1. HeldSlots' = HeldSlots
    BY DEF HeldSlots, Slot, Wrap
  <1>2. Counts' = Counts /\ Skipped' = Skipped
    BY DEF Counts, Skipped
  <1> QED
    BY <1>1, <1>2 DEF Owed, Pending

(* One slot in use is changed. *)
LEMMA ChangedSums ==
    ASSUME IInv, UNCHANGED firstAdded, Held' = Held, NEW x \in HeldSlots, NEW r,
           r.count \in Int, r.skipped \in Int,
           cache' = [cache EXCEPT ![x] = r]
    PROVE  /\ Owed' = Owed + (r.count - cache[x].count)
           /\ Pending' = Pending + (r.skipped - cache[x].skipped)
  <1>1. /\ IsFiniteSet(HeldSlots) /\ HeldSlots \subseteq Slots
        /\ \A s \in HeldSlots : Counts[s] = cache[s].count /\ Skipped[s] = cache[s].skipped
        /\ \A s \in HeldSlots : Counts[s] \in Int /\ Skipped[s] \in Int
    BY SlotSums DEF IInv
  <1>2. HeldSlots' = HeldSlots
    BY DEF HeldSlots, Slot, Wrap
  <1>3. \A s \in HeldSlots : cache'[s] = IF s = x THEN r ELSE cache[s]
    BY <1>1 DEF IInv, TypeOK
  <1>4. \A s \in HeldSlots : Counts'[s] = cache'[s].count /\ Skipped'[s] = cache'[s].skipped
    BY <1>1 DEF Counts, Skipped, Slots
  <1>5. \A s \in HeldSlots : /\ Counts'[s] \in Int /\ Skipped'[s] \in Int
                             /\ s # x => Counts'[s] = Counts[s] /\ Skipped'[s] = Skipped[s]
    BY <1>1, <1>3, <1>4
  <1>6. Counts'[x] = r.count /\ Skipped'[x] = r.skipped
    BY <1>3, <1>4
  <1>7. SumFunctionOnSet(Counts', HeldSlots)
           = SumFunctionOnSet(Counts, HeldSlots) + (Counts'[x] - Counts[x])
    BY <1>1, <1>5, SumChange
  <1>8. SumFunctionOnSet(Skipped', HeldSlots)
           = SumFunctionOnSet(Skipped, HeldSlots) + (Skipped'[x] - Skipped[x])
    BY <1>1, <1>5, SumChange
  <1> QED
    BY <1>1, <1>2, <1>6, <1>7, <1>8 DEF Owed, Pending

(* A slot comes into use, or goes out of it. *)
LEMMA AddedSums ==
    ASSUME IInv, NEW x \in Slots, x \notin HeldSlots, HeldSlots' = HeldSlots \cup {x}, NEW r,
           r.count \in Int, r.skipped \in Int,
           cache' = [cache EXCEPT ![x] = r]
    PROVE  Owed' = Owed + r.count /\ Pending' = Pending + r.skipped
  <1>1. /\ IsFiniteSet(HeldSlots) /\ HeldSlots \subseteq Slots
        /\ \A s \in HeldSlots : Counts[s] = cache[s].count /\ Skipped[s] = cache[s].skipped
        /\ \A s \in HeldSlots : Counts[s] \in Int /\ Skipped[s] \in Int
        /\ Owed \in Int /\ Pending \in Int
    BY SlotSums DEF IInv
  <1>2. \A s \in HeldSlots : cache'[s] = cache[s]
    BY <1>1 DEF IInv, TypeOK
  <1>3. cache'[x] = r
    BY DEF IInv, TypeOK
  <1>4. \A s \in HeldSlots \cup {x} : Counts'[s] = cache'[s].count /\ Skipped'[s] = cache'[s].skipped
    BY <1>1 DEF Counts, Skipped, Slots
  <1>5. \A s \in HeldSlots : Counts'[s] = Counts[s] /\ Skipped'[s] = Skipped[s]
    BY <1>1, <1>2, <1>4
  <1>6. Counts'[x] = r.count /\ Skipped'[x] = r.skipped
    BY <1>3, <1>4
  <1>7. \A s \in HeldSlots \cup {x} : Counts'[s] \in Int /\ Skipped'[s] \in Int
    BY <1>1, <1>5, <1>6
  <1>8. SumFunctionOnSet(Counts', HeldSlots \cup {x})
           = Counts'[x] + SumFunctionOnSet(Counts', HeldSlots)
    BY <1>1, <1>7, SumAdd
  <1>9. SumFunctionOnSet(Skipped', HeldSlots \cup {x})
           = Skipped'[x] + SumFunctionOnSet(Skipped', HeldSlots)
    BY <1>1, <1>7, SumAdd
  <1>10. /\ SumFunctionOnSet(Counts', HeldSlots) = SumFunctionOnSet(Counts, HeldSlots)
         /\ SumFunctionOnSet(Skipped', HeldSlots) = SumFunctionOnSet(Skipped, HeldSlots)
    BY <1>1, <1>5, SumSame
  <1>11. Owed' = r.count + Owed /\ Pending' = r.skipped + Pending
    BY <1>6, <1>8, <1>9, <1>10, Zenon DEF Owed, Pending
  <1> QED
    BY <1>1, <1>11

LEMMA RemovedSums ==
    ASSUME IInv, NEW x \in HeldSlots, HeldSlots' = HeldSlots \ {x}, NEW r,
           cache' = [cache EXCEPT ![x] = r]
    PROVE  Owed' = Owed - cache[x].count /\ Pending' = Pending - cache[x].skipped
  <1>1. /\ IsFiniteSet(HeldSlots) /\ HeldSlots \subseteq Slots
        /\ \A s \in HeldSlots : Counts[s] = cache[s].count /\ Skipped[s] = cache[s].skipped
        /\ \A s \in HeldSlots : Counts[s] \in Int /\ Skipped[s] \in Int
    BY SlotSums DEF IInv
  <1> DEFINE R == HeldSlots \ {x}
  <1>2. IsFiniteSet(R)
    BY <1>1, FS_RemoveElement
  <1>3. \A s \in R : cache'[s] = cache[s]
    BY <1>1 DEF IInv, TypeOK
  <1>4. \A s \in R : Counts'[s] = cache'[s].count /\ Skipped'[s] = cache'[s].skipped
    BY <1>1 DEF Counts, Skipped, Slots
  <1>5. \A s \in R : /\ Counts[s] \in Int /\ Skipped[s] \in Int
                     /\ Counts'[s] = Counts[s] /\ Skipped'[s] = Skipped[s]
    BY <1>1, <1>3, <1>4
  <1>6. /\ SumFunctionOnSet(Counts', R) = SumFunctionOnSet(Counts, R)
        /\ SumFunctionOnSet(Skipped', R) = SumFunctionOnSet(Skipped, R)
    <2> HIDE DEF R
    <2> QED
      BY <1>2, <1>5, SumSame
  <1>7. /\ SumFunctionOnSet(Counts, HeldSlots) = Counts[x] + SumFunctionOnSet(Counts, R)
        /\ SumFunctionOnSet(Counts, R) \in Int
    BY <1>1, SumRemove
  <1>8. /\ SumFunctionOnSet(Skipped, HeldSlots) = Skipped[x] + SumFunctionOnSet(Skipped, R)
        /\ SumFunctionOnSet(Skipped, R) \in Int
    BY <1>1, SumRemove
  <1>9. Owed' = SumFunctionOnSet(Counts, R) /\ Pending' = SumFunctionOnSet(Skipped, R)
    BY <1>6, Zenon DEF Owed, Pending
  <1>10. Owed = cache[x].count + Owed' /\ Pending = cache[x].skipped + Pending'
    BY <1>1, <1>7, <1>8, <1>9, Zenon DEF Owed, Pending
  <1>11. Owed' \in Int /\ Pending' \in Int /\ cache[x].count \in Int /\ cache[x].skipped \in Int
    BY <1>1, <1>7, <1>8, <1>9
  <1> QED
    BY <1>10, <1>11

-----------------------------------------------------------------------------
(* The steps that change the slots in use. *)
LEMMA MergeLedger ==
    ASSUME LInv, NEW count \in 1 .. MaxCount, LockFrame(count), MergeIntoLast(count)
    PROVE  Ledger'
  <1>1. IInv /\ Ledger /\ TypeOK /\ RingShape
    BY DEF LInv, IInv
  <1>2. /\ available = 0 /\ ~locked /\ locked' = locked /\ available' = available
        /\ firstAdded' = firstAdded /\ produced' = produced + count /\ merged' = merged + count
        /\ delivered' = delivered /\ skippedFrames' = skippedFrames /\ pc' = pc
        /\ cache' = [cache EXCEPT ![lastAdded] =
              [ts |-> @.ts, count |-> @.count + count, skipped |-> @.skipped + count]]
    BY DEF LockFrame, MergeIntoLast, thread
  <1>3. Held = CacheSize /\ Held' = Held /\ lastAdded = Slot(CacheSize - 1)
    BY <1>1, <1>2, CacheAssumption DEF Out, Held, RingShape, TypeOK
  <1>4. lastAdded \in HeldSlots /\ lastAdded \in Slots /\ count \in Nat
    BY <1>1, <1>3, CacheAssumption, BoundAssumption DEF HeldSlots, TypeOK
  <1> DEFINE r == [ts |-> cache[lastAdded].ts, count |-> cache[lastAdded].count + count,
                   skipped |-> cache[lastAdded].skipped + count]
  <1>5. cache' = [cache EXCEPT ![lastAdded] = r]
    BY <1>2
  <1>6. /\ r.count = cache[lastAdded].count + count /\ r.skipped = cache[lastAdded].skipped + count
        /\ cache[lastAdded].count \in Int /\ cache[lastAdded].skipped \in Int
    BY <1>1, <1>4 DEF TypeOK
  <1> HIDE DEF r
  <1>9. r.count \in Int /\ r.skipped \in Int
    BY <1>4, <1>6
  <1>7. /\ Owed' = Owed + (r.count - cache[lastAdded].count)
        /\ Pending' = Pending + (r.skipped - cache[lastAdded].skipped)
    <2>1. UNCHANGED firstAdded /\ Held' = Held /\ lastAdded \in HeldSlots
      BY <1>2, <1>3, <1>4
    <2> QED
      BY <1>1, <1>5, <1>9, <2>1, ChangedSums
  <1>8. Owed' = Owed + count /\ Pending' = Pending + count /\ Owed \in Int /\ Pending \in Int
    BY <1>1, <1>4, <1>6, <1>7, SlotSums
  <1> QED
    BY <1>1, <1>2, <1>4, <1>8 DEF Ledger, SkipAccounting

LEMMA ClaimLedger ==
    ASSUME LInv, NEW count \in 1 .. MaxCount, LockFrame(count), ClaimSlot(count)
    PROVE  Ledger'
  <1>1. IInv /\ Ledger /\ TypeOK /\ RingShape
    BY DEF LInv, IInv
  <1>2. /\ available # 0 /\ ~locked /\ locked' /\ available' = available
        /\ firstAdded' = firstAdded /\ produced' = produced + count /\ merged' = merged
        /\ delivered' = delivered /\ skippedFrames' = skippedFrames /\ pc' = pc
        /\ lastAdded' = IF available # CacheSize THEN Wrap(lastAdded + 1) ELSE lastAdded
        /\ cache' = [cache EXCEPT ![lastAdded'] = [ts |-> clock, count |-> count, skipped |-> 0]]
    BY DEF LockFrame, ClaimSlot, thread
  <1>3. Held = Out /\ Held' = Out + 1 /\ Out \in 0 .. CacheSize - 1
    BY <1>1, <1>2, CacheAssumption DEF Out, Held, TypeOK
  <1>4. IInv'
    BY <1>1, ClaimStep
  <1>5. \A k \in Int : Slot(k)' = Slot(k)
    BY <1>2 DEF Slot, Wrap
  <1>6. lastAdded' = Slot(Out)
    BY <1>3, <1>4, <1>5 DEF IInv, RingShape
  <1>7. HeldSlots = {Slot(k) : k \in 0 .. Out - 1} /\ HeldSlots' = {Slot(k) : k \in 0 .. Out}
    BY <1>3, <1>5 DEF HeldSlots
  <1>8. HeldSlots' = HeldSlots \cup {Slot(Out)}
    BY <1>3, <1>7
  <1>9. Slot(Out) \in Slots /\ Slot(Out) \notin HeldSlots
    BY <1>1, <1>3, <1>7, SlotFacts, CacheAssumption DEF TypeOK
  <1> DEFINE r == [ts |-> clock, count |-> count, skipped |-> 0]
  <1>10. cache' = [cache EXCEPT ![Slot(Out)] = r]
    <2>1. cache' = [cache EXCEPT ![lastAdded'] = r]
      BY <1>2, Zenon
    <2> QED
      BY <1>6, <2>1, Zenon
  <1>11. r.count = count /\ r.skipped = 0
    OBVIOUS
  <1> HIDE DEF r
  <1>14. count \in Nat /\ r.count \in Int /\ r.skipped \in Int
    BY <1>11, BoundAssumption
  <1>12. Owed' = Owed + r.count /\ Pending' = Pending + r.skipped
    BY <1>1, <1>8, <1>9, <1>10, <1>14, AddedSums
  <1>13. Owed' = Owed + count /\ Pending' = Pending /\ Owed \in Int /\ Pending \in Int
    BY <1>1, <1>11, <1>12, SlotSums
  <1> QED
    BY <1>1, <1>2, <1>14, <1>13 DEF Ledger, SkipAccounting

LEMMA RepeatLedger ==
    ASSUME LInv, FinishFrame, RepeatSlot
    PROVE  Ledger'
  <1> DEFINE late == IF cache[cur].skipped > 0 THEN 1 ELSE 0
  <1>1. IInv /\ Ledger /\ TypeOK /\ RingShape /\ Posted
    BY DEF LInv, IInv
  <1>2. /\ pc = "finish" /\ pc' = "loop" /\ locked' = locked /\ available' = available
        /\ firstAdded' = firstAdded /\ produced' = produced /\ merged' = merged
        /\ delivered' = delivered /\ skippedFrames' = skippedFrames + late
        /\ cache' = [cache EXCEPT ![cur] =
              [ts |-> @.ts + 1, count |-> @.count - 1, skipped |-> @.skipped - late]]
    BY DEF FinishFrame, RepeatSlot, history
  <1>3. cur = Slot(0) /\ cur \in Slots /\ Held > 0 /\ Held \in Nat /\ Held' = Held
    BY <1>1, <1>2, HeldFacts, SlotFacts DEF TypeOK, Posted, Held, Out
  <1>4. cur \in HeldSlots
    BY <1>3 DEF HeldSlots
  <1>5. late \in Int /\ cache[cur].count \in Int /\ cache[cur].skipped \in Int
    BY <1>1, <1>3 DEF TypeOK
  <1> HIDE DEF late
  <1> DEFINE r == [ts |-> cache[cur].ts + 1, count |-> cache[cur].count - 1,
                   skipped |-> cache[cur].skipped - late]
  <1>6. cache' = [cache EXCEPT ![cur] = r]
    BY <1>2
  <1>7. r.count = cache[cur].count - 1 /\ r.skipped = cache[cur].skipped - late
    OBVIOUS
  <1> HIDE DEF r
  <1>11. r.count \in Int /\ r.skipped \in Int
    BY <1>5, <1>7
  <1>8. /\ Owed' = Owed + (r.count - cache[cur].count)
        /\ Pending' = Pending + (r.skipped - cache[cur].skipped)
    <2>1. UNCHANGED firstAdded /\ Held' = Held /\ cur \in HeldSlots
      BY <1>2, <1>3, <1>4
    <2> QED
      BY <1>1, <1>6, <1>11, <2>1, ChangedSums
  <1>9. Owed' = Owed - 1 /\ Pending' = Pending - late /\ Owed \in Int /\ Pending \in Int
    BY <1>1, <1>5, <1>7, <1>8, SlotSums
  <1>10. skippedFrames' + Pending' = merged'
    BY <1>1, <1>2, <1>5, <1>9 DEF Ledger, SkipAccounting
  <1> QED
    BY <1>1, <1>2, <1>5, <1>9, <1>10 DEF Ledger, SkipAccounting

LEMMA CompleteLedger ==
    ASSUME LInv, FinishFrame, CompleteSlot
    PROVE  Ledger'
  <1>1. IInv /\ Ledger /\ TypeOK /\ RingShape /\ Posted /\ Chain
    BY DEF LInv, IInv
  <1>2. /\ pc = "finish" /\ pc' = "wait" /\ locked' = locked /\ available' = available + 1
        /\ firstAdded' = Wrap(firstAdded + 1) /\ produced' = produced /\ merged' = merged
        /\ delivered' = delivered /\ skippedFrames' = skippedFrames
        /\ cache[cur].count = 1
        /\ cache' = [cache EXCEPT ![cur] = [ts |-> @.ts + 1, count |-> 0, skipped |-> @.skipped]]
    BY DEF FinishFrame, CompleteSlot, history
  <1>3. /\ cur = Slot(0) /\ cur \in Slots /\ Held \in 1 .. CacheSize /\ Held' = Held - 1
    BY <1>1, <1>2, HeldFacts, SlotFacts, CacheAssumption DEF TypeOK, Posted, Held, Out
  <1>4. cur \in HeldSlots
    BY <1>3 DEF HeldSlots
  <1>5. cache[cur].skipped = 0
    BY <1>1, <1>2, <1>3 DEF Chain, TypeOK
  <1>6. \A k \in 0 .. CacheSize - 2 : Slot(k)' = Slot(k + 1)
    BY <1>1, <1>2, CacheAssumption DEF TypeOK, Slots, Slot, Wrap
  <1>7. HeldSlots' = {Slot(k) : k \in 1 .. Held - 1}
    <2>1. HeldSlots' = {Slot(k)' : k \in 0 .. Held - 2}
      BY <1>3 DEF HeldSlots
    <2>2. \A k \in 0 .. Held - 2 : k \in 0 .. CacheSize - 2 /\ k + 1 \in 1 .. Held - 1
      BY <1>3, CacheAssumption
    <2>3. \A k \in 1 .. Held - 1 : k - 1 \in 0 .. Held - 2 /\ k - 1 + 1 = k
      BY <1>3
    <2>4. {Slot(k)' : k \in 0 .. Held - 2} = {Slot(k + 1) : k \in 0 .. Held - 2}
      BY <1>6, <2>2
    <2>5. {Slot(k + 1) : k \in 0 .. Held - 2} = {Slot(k) : k \in 1 .. Held - 1}
      BY <2>2, <2>3
    <2> QED
      BY <2>1, <2>4, <2>5
  <1>8. HeldSlots' = HeldSlots \ {cur}
    <2>1. \A k \in 1 .. Held - 1 : Slot(k) # Slot(0)
      BY <1>1, <1>3, SlotFacts, CacheAssumption DEF TypeOK
    <2>2. HeldSlots = {Slot(0)} \cup {Slot(k) : k \in 1 .. Held - 1}
      <3>1. 0 .. Held - 1 = {0} \cup 1 .. Held - 1
        BY <1>3
      <3>2. HeldSlots = {Slot(k) : k \in {0} \cup 1 .. Held - 1}
        BY <3>1 DEF HeldSlots
      <3> QED
        BY <3>2
    <2> QED
      BY <1>3, <1>7, <2>1, <2>2
  <1>9. Owed' = Owed - cache[cur].count /\ Pending' = Pending - cache[cur].skipped
    BY <1>1, <1>2, <1>4, <1>8, RemovedSums
  <1>10. Owed' = Owed - 1 /\ Pending' = Pending /\ Owed \in Int /\ Pending \in Int
    BY <1>1, <1>2, <1>5, <1>9, SlotSums
  <1> QED
    BY <1>1, <1>2, <1>10 DEF Ledger, SkipAccounting

-----------------------------------------------------------------------------
(* The steps that leave the slots in use alone. *)
LEMMA QuietLedger ==
    ASSUME LInv, UNCHANGED <<available, firstAdded, cache, produced>>, Held' = Held,
           \/ delivered' = delivered /\ (pc' = "finish" <=> pc = "finish")
           \/ delivered' = delivered + 1 /\ pc # "finish" /\ pc' = "finish",
           UNCHANGED <<skippedFrames, merged>> \/ (skippedFrames' = 0 /\ merged' = Pending)
    PROVE  Ledger'
  <1>1. Owed' = Owed /\ Pending' = Pending
    BY SameSums DEF LInv
  <1>2. Owed \in Int /\ Pending \in Int
    BY SlotSums DEF LInv, IInv
  <1> QED
    BY <1>1, <1>2 DEF LInv, Ledger, SkipAccounting

LEMMA NextLedger == LInv /\ [Next]_vars => Ledger'
  <1> SUFFICES ASSUME LInv, [Next]_vars PROVE Ledger'
    OBVIOUS
  <1>1. CASE \E count \in 1 .. MaxCount : LockFrame(count)
    BY <1>1, MergeLedger, ClaimLedger DEF LockFrame
  <1>2. CASE UnlockFrame
    <2>1. Held' = Held
      BY <1>2, CacheAssumption DEF UnlockFrame, Held, Out, LInv, IInv, TypeOK, RingShape
    <2>2. Owed' = Owed /\ Pending' = Pending
      <3>1. HeldSlots' = HeldSlots /\ Counts' = Counts /\ Skipped' = Skipped
        BY <1>2, <2>1 DEF UnlockFrame, HeldSlots, Slot, Wrap, Counts, Skipped
      <3> QED
        BY <3>1 DEF Owed, Pending
    <2> QED
      BY <1>2, <2>2 DEF UnlockFrame, LInv, Ledger, SkipAccounting, thread, stats, history
  <1>3. CASE IdleTick \/ Wake \/ LeaveLoop \/ TakeFrame \/ Stop \/ DeliverToInput
    <2>1. /\ UNCHANGED <<available, firstAdded, cache, produced, delivered, locked>>
          /\ UNCHANGED <<skippedFrames, merged>>
      BY <1>3 DEF IdleTick, Wake, LeaveLoop, TakeFrame, Stop, DeliverToInput, ring, stats, history
    <2>2. pc' = "finish" <=> pc = "finish"
      BY <1>3 DEF IdleTick, Wake, LeaveLoop, TakeFrame, Stop, DeliverToInput, thread
    <2>3. Held' = Held
      BY <2>1 DEF Held, Out
    <2> QED
      BY <2>1, <2>2, <2>3, QuietLedger
  <1>5. CASE EndInputs
    BY <1>5, QuietLedger DEF EndInputs, InputLoop, ring, stats, Held, Out
  <1>6. CASE FinishFrame
    BY <1>6, CompleteLedger, RepeatLedger DEF FinishFrame
  <1>7. CASE \/ Disconnect \/ IncTextureEncoders \/ DecTextureEncoders
             \/ \E id \in Inputs, div \in Divisors : Connect(id, div)
    <2>1. UNCHANGED <<available, firstAdded, cache, produced, delivered, locked, pc>>
      BY <1>7 DEF Disconnect, IncTextureEncoders, DecTextureEncoders, Connect, ring, thread, history
    <2>2. UNCHANGED <<skippedFrames, merged>> \/ (skippedFrames' = 0 /\ merged' = Pending)
      BY <1>7 DEF Disconnect, IncTextureEncoders, DecTextureEncoders, Connect, ResetFrames, stats
    <2>3. Held' = Held
      BY <2>1 DEF Held, Out
    <2> QED
      BY <2>1, <2>2, <2>3, QuietLedger
  <1>8. CASE UNCHANGED vars
    <2>1. UNCHANGED <<available, firstAdded, cache, produced, delivered, locked, pc,
                      skippedFrames, merged>>
      BY <1>8 DEF vars, ring, thread, stats, history
    <2>2. Held' = Held
      BY <2>1 DEF Held, Out
    <2> QED
      BY <2>1, <2>2, QuietLedger
  <1> QED
    BY <1>1, <1>2, <1>3, <1>5, <1>6, <1>7, <1>8 DEF Next

THEOREM LedgerKept == Spec => []LInv
  <1>1. Init => LInv
    BY InitIInv, InitLedger DEF LInv
  <1>2. LInv /\ [Next]_vars => LInv'
    BY NextIInv, NextLedger DEF LInv
  <1> QED
    BY <1>1, <1>2, PTL DEF Spec

(* skipped_frames reports every merged tick once. *)
THEOREM SkipsAreCounted == Spec => []SkipAccounting
  <1>1. LInv => SkipAccounting
    BY DEF LInv, Ledger
  <1> QED
    BY <1>1, LedgerKept, PTL

-----------------------------------------------------------------------------
(* The frame that the inputs have just seen is a tick still owed. *)
LEMMA DeliverImplements ==
    ASSUME LInv, EndInputs
    PROVE  Stream!Deliver
  <1>1. TypeOK /\ RingShape /\ Chain /\ Posted /\ Behind /\ Ledger
    BY DEF LInv, IInv
  <1>2. /\ pc = "deliver" /\ delivered' = delivered + 1 /\ shown' = cache[cur].ts
        /\ clock' = clock /\ produced' = produced /\ stop' = stop
    BY DEF EndInputs, InputLoop
  <1>3. cur = firstAdded /\ cur = Slot(0) /\ Held > 0 /\ Held \in Nat /\ cur \in Slots
    BY <1>1, <1>2, HeldFacts, SlotFacts DEF Posted, TypeOK
  <1>4. cur \in HeldSlots /\ cache[cur].count > 0 /\ cache[cur].count \in Nat
    BY <1>1, <1>3 DEF HeldSlots, Chain, TypeOK
  <1>5. /\ IsFiniteSet(HeldSlots) /\ Counts[cur] = cache[cur].count
        /\ \A s \in HeldSlots : Counts[s] \in Nat
    BY <1>1, <1>4, SlotSums
  <1>6. Owed >= Counts[cur] /\ Owed \in Nat
    BY <1>4, <1>5, SumAtLeast DEF Owed
  <1>7. delivered < produced
    BY <1>1, <1>2, <1>4, <1>5, <1>6 DEF Ledger
  <1>8. shown < cache[cur].ts /\ cache[cur].ts < clock /\ cache[cur].ts \in Nat
    BY <1>1, <1>2, <1>3, FirstBehindClock DEF Behind
  <1>9. shown' \in shown + 1 .. clock - 1
    BY <1>1, <1>2, <1>8 DEF TypeOK
  <1> QED
    BY <1>2, <1>7, <1>9 DEF Stream!Deliver

(* A step of the ring is a step of the stream or changes nothing of it. *)
LEMMA StepImplements == LInv /\ [Next]_vars => [Stream!Next]_(Stream!vars)
  <1> SUFFICES ASSUME LInv, [Next]_vars PROVE [Stream!Next]_(Stream!vars)
    OBVIOUS
  <1>1. ASSUME NEW count \in 1 .. MaxCount, LockFrame(count)
        PROVE  Stream!Next
    BY <1>1 DEF LockFrame, Stream!Next, Stream!Produce
  <1>2. CASE IdleTick
    BY <1>2 DEF IdleTick, history, Stream!Next, Stream!Idle
  <1>3. CASE EndInputs
    BY <1>3, DeliverImplements DEF Stream!Next
  <1>4. CASE Stop
    BY <1>4 DEF Stop, history, Stream!Next, Stream!Stop
  <1>5. CASE UNCHANGED <<clock, produced, delivered, shown, stop>>
    BY <1>5 DEF Stream!vars
  <1>6. CASE \/ UnlockFrame \/ Wake \/ LeaveLoop \/ TakeFrame \/ DeliverToInput \/ FinishFrame
             \/ Disconnect \/ IncTextureEncoders \/ DecTextureEncoders
             \/ \E id \in Inputs, div \in Divisors : Connect(id, div)
    BY <1>5, <1>6 DEF UnlockFrame, Wake, LeaveLoop, TakeFrame, DeliverToInput, FinishFrame,
                      Disconnect, IncTextureEncoders, DecTextureEncoders, Connect, history
  <1>7. CASE UNCHANGED vars
    BY <1>5, <1>7 DEF vars, history
  <1> QED
    BY <1>1, <1>2, <1>3, <1>4, <1>6, <1>7 DEF Next

(* The safety part of the refinement: every behaviour of the ring is, under *)
(* the names of its history variables, a behaviour of the stream of ticks.  *)
THEOREM RingIsAStream == Spec => Stream!Safety
  <1>1. Init => Stream!Init
    BY DEF Init, Stream!Init
  <1> QED
    BY <1>1, LedgerKept, StepImplements, PTL DEF Spec, Stream!Safety

-----------------------------------------------------------------------------
(***************************************************************************)
(* The frames of an input.                                                 *)
(***************************************************************************)
(* Where an input stands when n frames have been delivered. *)
At(in, n) ==
    /\ in.ctr = (n - in.since) % in.div
    /\ in.got = IF n = in.since THEN 0 ELSE in.since + 1 + in.div * ((n - in.since - 1) \div in.div)

(* The frames an input has been offered: one more when the loop over the   *)
(* inputs has come past it.                                                *)
Offered(i) == IF pc = "deliver" /\ i < idx THEN delivered + 1 ELSE delivered

InputType == [id : Inputs, div : Nat \ {0}, ctr : Nat, since : Nat, got : Nat, passed : BOOLEAN]

InputsKept ==
    /\ delivered \in Nat /\ idx \in Nat \ {0}
    /\ inputs \in Seq(InputType)
    /\ \A i \in 1 .. Len(inputs) : /\ inputs[i].since <= delivered
                                   /\ inputs[i].passed \/ At(inputs[i], Offered(i))



(* Division with a remainder. *)
LEMMA DivModUnique ==
    ASSUME NEW d \in Nat \ {0}, NEW q \in Nat, NEW r \in Nat, r < d
    PROVE  (d * q + r) \div d = q /\ (d * q + r) % d = r
  OBVIOUS

LEMMA DivModExists ==
    ASSUME NEW d \in Nat \ {0}
    PROVE  \A m \in Nat : \E q, r \in Nat : r < d /\ m = d * q + r
  <1> DEFINE S == {m \in Nat : \E q, r \in Nat : r < d /\ m = d * q + r}
  <1>1. 0 \in S
    <2>1. 0 \in Nat /\ 0 < d /\ 0 = d * 0 + 0
      OBVIOUS
    <2> QED
      BY <2>1
  <1>2. ASSUME NEW m \in Nat, m \in S PROVE m + 1 \in S
    <2>1. PICK q \in Nat, r \in Nat : r < d /\ m = d * q + r
      BY <1>2
    <2>2. CASE r + 1 < d
      <3>1. r + 1 \in Nat /\ m + 1 = d * q + (r + 1) /\ m + 1 \in Nat
        BY <2>1
      <3> QED
        BY <2>2, <3>1
    <2>3. CASE ~(r + 1 < d)
      <3>1. r + 1 = d
        BY <2>1, <2>3
      <3>2. q + 1 \in Nat /\ m + 1 = d * q + d /\ m + 1 \in Nat
        BY <2>1, <3>1
      <3>3. d * (q + 1) + 0 = d * q + d
        OBVIOUS
      <3>4. m + 1 = d * (q + 1) + 0 /\ 0 < d /\ 0 \in Nat
        BY <3>2, <3>3
      <3> QED
        BY <3>2, <3>4
    <2> QED
      BY <2>2, <2>3
  <1> HIDE DEF S
  <1>3. Nat \subseteq S
    BY <1>1, <1>2, NatSet
  <1> QED
    BY <1>3 DEF S

(* The next number. *)
LEMMA DivModNext ==
    ASSUME NEW d \in Nat \ {0}, NEW m \in Nat
    PROVE  /\ m \div d \in Nat /\ m % d \in Nat /\ m % d < d
           /\ (m + 1) % d = IF (m % d) + 1 = d THEN 0 ELSE (m % d) + 1
           /\ (m + 1) \div d = IF (m % d) + 1 = d THEN (m \div d) + 1 ELSE m \div d
           /\ m % d = 0 => d * (m \div d) = m
           /\ 0 % d = 0
  <1>1. PICK q \in Nat, r \in Nat : r < d /\ m = d * q + r
    BY DivModExists
  <1>2. m \div d = q /\ m % d = r
    BY <1>1, DivModUnique
  <1>3. CASE r + 1 < d
    <2>1. m + 1 = d * q + (r + 1) /\ r + 1 \in Nat
      BY <1>1
    <2>2. (m + 1) \div d = q /\ (m + 1) % d = r + 1
      BY <1>3, <2>1, DivModUnique
    <2> QED
      BY <1>1, <1>2, <1>3, <2>2
  <1>4. CASE r + 1 = d
    <2>1. m + 1 = d * q + d /\ q + 1 \in Nat
      BY <1>1, <1>4
    <2>2. d * (q + 1) + 0 = d * q + d
      OBVIOUS
    <2>3. m + 1 = d * (q + 1) + 0 /\ 0 < d /\ 0 \in Nat
      BY <2>1, <2>2
    <2>4. (m + 1) \div d = q + 1 /\ (m + 1) % d = 0
      BY <2>1, <2>3, DivModUnique
    <2> QED
      BY <1>1, <1>2, <1>4, <2>4
  <1> QED
    BY <1>1, <1>3, <1>4

(* One frame more, for an input that skips it and for one that gets it. *)
LEMMA TickedFacts ==
    ASSUME NEW in \in InputType
    PROVE  /\ Ticked(in) = [id |-> in.id, div |-> in.div,
                            ctr |-> IF in.ctr + 1 = in.div THEN 0 ELSE in.ctr + 1,
                            since |-> in.since, got |-> in.got, passed |-> in.passed]
           /\ GivenTo(in) = [id |-> in.id, div |-> in.div,
                             ctr |-> IF in.ctr + 1 = in.div THEN 0 ELSE in.ctr + 1,
                             since |-> in.since, got |-> delivered + 1, passed |-> in.passed]
  <1>1. Ticked(in) = [id |-> in.id, div |-> in.div,
                      ctr |-> IF in.ctr + 1 = in.div THEN 0 ELSE in.ctr + 1,
                      since |-> in.since, got |-> in.got, passed |-> in.passed]
    BY DEF InputType, Ticked
  <1>2. GivenTo(in) = [Ticked(in) EXCEPT !.got = delivered + 1]
    BY DEF GivenTo
  <1> QED
    BY <1>1, <1>2

LEMMA TickedAt ==
    ASSUME NEW in \in InputType, delivered \in Nat, in.since <= delivered
    PROVE  /\ in.ctr # 0 /\ At(in, delivered) => At(Ticked(in), delivered + 1)
           /\ in.ctr = 0 /\ At(in, delivered) => At(GivenTo(in), delivered + 1)
           /\ Ticked(in) \in InputType /\ GivenTo(in) \in InputType
  <1> DEFINE d == in.div
             s == in.since
             m == delivered - s
  <1>1. d \in Nat \ {0} /\ s \in Nat /\ m \in Nat /\ in.ctr \in Nat /\ in.got \in Nat
    BY DEF InputType
  <1>2. /\ m \div d \in Nat /\ m % d \in Nat /\ m % d < d
        /\ (m + 1) % d = IF (m % d) + 1 = d THEN 0 ELSE (m % d) + 1
        /\ m % d = 0 => d * (m \div d) = m
        /\ 0 % d = 0
    BY <1>1, DivModNext
  <1>3. m # 0 /\ m % d # 0 => (m - 1) \div d = m \div d
    <2> SUFFICES ASSUME m # 0, m % d # 0 PROVE (m - 1) \div d = m \div d
      OBVIOUS
    <2> DEFINE k == m - 1
    <2>1. k \in Nat /\ k + 1 = m
      BY <1>1
    <2> HIDE DEF k, m
    <2>2. /\ (k + 1) % d = IF (k % d) + 1 = d THEN 0 ELSE (k % d) + 1
          /\ (k + 1) \div d = IF (k % d) + 1 = d THEN (k \div d) + 1 ELSE k \div d
      BY <1>1, <2>1, DivModNext
    <2>3. k \div d = m \div d
      BY <2>1, <2>2
    <2> QED
      BY <2>3 DEF k
  <1>4. delivered + 1 - s = m + 1 /\ delivered + 1 - s - 1 = m /\ delivered + 1 # s
        /\ delivered - s - 1 = m - 1
    BY <1>1
  <1>5. At(in, delivered) => in.ctr = m % d /\ (m # 0 => in.got = s + 1 + d * ((m - 1) \div d))
    BY <1>1, <1>4 DEF At
  <1>6. ASSUME NEW r \in InputType, r.div = d, r.since = s,
               r.ctr = (m + 1) % d, r.got = s + 1 + d * (m \div d)
        PROVE  At(r, delivered + 1)
    BY <1>1, <1>4, <1>6 DEF At
  <1>7. Ticked(in) \in InputType /\ GivenTo(in) \in InputType
    BY <1>1, TickedFacts DEF InputType
  <1> HIDE DEF m, d, s
  <1>8. ASSUME in.ctr # 0, At(in, delivered) PROVE At(Ticked(in), delivered + 1)
    <2>1. in.ctr = m % d /\ m # 0
      BY <1>2, <1>5, <1>8
    <2>2. in.got = s + 1 + d * (m \div d)
      BY <1>3, <1>5, <1>8, <2>1
    <2>3. Ticked(in).ctr = (m + 1) % d /\ Ticked(in).got = in.got
          /\ Ticked(in).div = d /\ Ticked(in).since = s
      BY <1>2, <2>1, TickedFacts DEF d, s
    <2> QED
      BY <1>6, <1>7, <2>2, <2>3
  <1>9. ASSUME in.ctr = 0, At(in, delivered) PROVE At(GivenTo(in), delivered + 1)
    <2>1. m % d = 0 /\ d * (m \div d) = m
      BY <1>2, <1>5, <1>9
    <2>2. delivered + 1 = s + 1 + m
      BY <1>1 DEF m
    <2>3. GivenTo(in).ctr = (m + 1) % d /\ GivenTo(in).got = delivered + 1
          /\ GivenTo(in).div = d /\ GivenTo(in).since = s
      BY <1>2, <1>9, <2>1, TickedFacts DEF d, s
    <2> QED
      BY <1>6, <1>7, <2>1, <2>2, <2>3
  <1> QED
    BY <1>7, <1>8, <1>9

(* The loop has come past one input. *)
LEMMA PassLemma ==
    ASSUME InputsKept, pc = "deliver", idx <= Len(inputs), NEW r \in InputType,
           inputs' = [inputs EXCEPT ![idx] = r], r.since = inputs[idx].since,
           r.passed \/ At(r, delivered + 1),
           pc' = pc, idx' = idx + 1, delivered' = delivered
    PROVE  InputsKept'
  <1>1. inputs' \in Seq(InputType) /\ Len(inputs') = Len(inputs) /\ idx \in 1 .. Len(inputs)
    BY DEF InputsKept
  <1>2. \A i \in 1 .. Len(inputs) : inputs'[i] = IF i = idx THEN r ELSE inputs[i]
    BY DEF InputsKept
  <1>3. ASSUME NEW i \in 1 .. Len(inputs)
        PROVE  /\ inputs'[i].since <= delivered
               /\ inputs'[i].passed \/ At(inputs'[i], Offered(i)')
    <2>1. CASE i = idx
      <3>1. inputs'[i] = r /\ Offered(i)' = delivered + 1
        BY <1>2, <2>1 DEF Offered, InputsKept
      <3> QED
        BY <1>1, <3>1 DEF InputsKept
    <2>2. CASE i # idx
      <3>1. inputs'[i] = inputs[i] /\ Offered(i)' = Offered(i)
        BY <1>2, <2>2 DEF Offered, InputsKept
      <3> QED
        BY <3>1 DEF InputsKept
    <2> QED
      BY <2>1, <2>2
  <1>4. delivered' \in Nat /\ idx' \in Nat \ {0}
    BY DEF InputsKept
  <1> QED
    BY <1>1, <1>3, <1>4 DEF InputsKept, Offered

(* An input leaves a list; the ones behind it move up. *)
LEMMA RemoveFacts ==
    ASSUME NEW T, NEW seq \in Seq(T), NEW i \in 1 .. Len(seq)
    PROVE  /\ RemoveAt(seq, i) \in Seq(T) /\ Len(RemoveAt(seq, i)) = Len(seq) - 1
           /\ \A k \in 1 .. Len(seq) - 1 :
                 RemoveAt(seq, i)[k] = IF k < i THEN seq[k] ELSE seq[k + 1]
  <1> DEFINE a == SubSeq(seq, 1, i - 1)
             b == SubSeq(seq, i + 1, Len(seq))
  <1>1. a \in Seq(T) /\ Len(a) = i - 1 /\ \A k \in 1 .. i - 1 : a[k] = seq[k]
    OBVIOUS
  <1>2. b \in Seq(T) /\ Len(b) = Len(seq) - i /\ \A k \in 1 .. Len(seq) - i : b[k] = seq[i + k]
    OBVIOUS
  <1>3. RemoveAt(seq, i) = a \o b
    BY DEF RemoveAt
  <1> HIDE DEF a, b
  <1>6. a \o b \in Seq(T)
    BY <1>1, <1>2
  <1>8. a \in Seq(T) /\ b \in Seq(T)
    BY <1>1, <1>2
  <1>9. Len(a \o b) = Len(a) + Len(b)
    BY <1>8
  <1>7. Len(a \o b) = (i - 1) + (Len(seq) - i)
    BY <1>1, <1>2, <1>9, Zenon
  <1>4. a \o b \in Seq(T) /\ Len(a \o b) = Len(seq) - 1
    BY <1>6, <1>7
  <1>5. ASSUME NEW k \in 1 .. Len(seq) - 1
        PROVE  (a \o b)[k] = IF k < i THEN seq[k] ELSE seq[k + 1]
    <2>1. CASE k < i
      BY <1>1, <1>2, <2>1
    <2>2. CASE ~(k < i)
      <3>1. (a \o b)[k] = b[k - (i - 1)] /\ k - (i - 1) \in 1 .. Len(seq) - i
        BY <1>1, <1>2, <2>2
      <3> QED
        BY <1>2, <2>2, <3>1
    <2> QED
      BY <2>1, <2>2
  <1> QED
    BY <1>3, <1>4, <1>5

LEMMA DropFailedStep ==
    ASSUME InputsKept, pc = "deliver", idx <= Len(inputs), Drop(PassedOver(idx), idx),
           pc' = pc, idx' = idx + 1, delivered' = delivered
    PROVE  InputsKept'
  <1> DEFINE p == PassedOver(idx)
  <1>1. idx \in 1 .. Len(inputs) /\ DOMAIN inputs = 1 .. Len(inputs) /\ Len(inputs) \in Nat
    BY DEF InputsKept
  <1>2. \A k \in 1 .. Len(inputs) :
           [inputs[k] EXCEPT !.passed = @ \/ k = idx + 1] \in InputType
    <2> SUFFICES ASSUME NEW k \in 1 .. Len(inputs)
                 PROVE  [inputs[k] EXCEPT !.passed = @ \/ k = idx + 1] \in InputType
      OBVIOUS
    <2>1. inputs[k] \in InputType
      BY DEF InputsKept
    <2>2. (inputs[k].passed \/ k = idx + 1) \in BOOLEAN
      OBVIOUS
    <2> QED
      BY <2>1, <2>2 DEF InputType
  <1>3. p = [k \in 1 .. Len(inputs) |-> [inputs[k] EXCEPT !.passed = @ \/ k = idx + 1]]
    BY <1>1 DEF PassedOver
  <1>4. p \in Seq(InputType) /\ Len(p) = Len(inputs)
    BY <1>1, <1>2, <1>3
  <1>5. \A k \in 1 .. Len(inputs) : p[k] = [inputs[k] EXCEPT !.passed = @ \/ k = idx + 1]
    BY <1>3
  <1>6. inputs' = RemoveAt(p, idx)
    BY DEF Drop
  <1> HIDE DEF p
  <1>7. /\ inputs' \in Seq(InputType) /\ Len(inputs') = Len(inputs) - 1
        /\ \A k \in 1 .. Len(inputs) - 1 : inputs'[k] = IF k < idx THEN p[k] ELSE p[k + 1]
    BY <1>1, <1>4, <1>6, RemoveFacts
  <1>8. ASSUME NEW i \in 1 .. Len(inputs) - 1
        PROVE  /\ inputs'[i].since <= delivered
               /\ inputs'[i].passed \/ At(inputs'[i], Offered(i)')
    <2>1. PICK k \in 1 .. Len(inputs) : k = IF i < idx THEN i ELSE i + 1
      BY <1>1
    <2>2. inputs'[i] = p[k]
      BY <1>7, <2>1
    <2>3. inputs'[i] = [inputs[k] EXCEPT !.passed = @ \/ k = idx + 1]
      BY <1>5, <2>2
    <2>4. inputs[k] \in InputType /\ inputs[k].since <= delivered
          /\ (inputs[k].passed \/ At(inputs[k], Offered(k)))
      BY DEF InputsKept
    <2>5. /\ inputs'[i].since = inputs[k].since /\ inputs'[i].ctr = inputs[k].ctr
          /\ inputs'[i].div = inputs[k].div /\ inputs'[i].got = inputs[k].got
          /\ inputs'[i].passed = (inputs[k].passed \/ k = idx + 1)
      BY <2>3, <2>4 DEF InputType
    <2>6. CASE k = idx + 1
      BY <2>4, <2>5, <2>6
    <2>7. CASE k # idx + 1
      <3>1. Offered(i)' = Offered(k)
        BY <1>1, <2>1, <2>7 DEF Offered
      <3>2. At(inputs[k], Offered(k)) => At(inputs'[i], Offered(k))
        BY <2>5 DEF At
      <3> QED
        BY <2>4, <2>5, <3>1, <3>2
    <2> QED
      BY <2>6, <2>7
  <1>9. delivered' \in Nat /\ idx' \in Nat \ {0}
    BY DEF InputsKept
  <1> QED
    BY <1>7, <1>8, <1>9 DEF InputsKept, Offered

LEMMA DeliverStep ==
    ASSUME InputsKept, DeliverToInput
    PROVE  InputsKept'
  <1>1. /\ pc = "deliver" /\ idx <= Len(inputs) /\ pc' = pc /\ idx' = idx + 1
        /\ delivered' = delivered
    BY DEF DeliverToInput, InputLoop, history
  <1>2. idx \in 1 .. Len(inputs) /\ inputs[idx] \in InputType /\ delivered \in Nat
        /\ inputs[idx].since <= delivered /\ Offered(idx) = delivered
    BY <1>1 DEF InputsKept, Offered
  <1> DEFINE in == inputs[idx]
  <1>3. in.passed \/ At(in, delivered)
    BY <1>2 DEF InputsKept
  <1>4. /\ in.ctr # 0 /\ At(in, delivered) => At(Ticked(in), delivered + 1)
        /\ in.ctr = 0 /\ At(in, delivered) => At(GivenTo(in), delivered + 1)
        /\ Ticked(in) \in InputType /\ GivenTo(in) \in InputType
    BY <1>2, TickedAt
  <1>5. /\ Ticked(in).since = in.since /\ Ticked(in).passed = in.passed
        /\ GivenTo(in).since = in.since /\ GivenTo(in).passed = in.passed
    BY <1>2, TickedFacts
  <1>6. CASE in.ctr # 0 /\ inputs' = [inputs EXCEPT ![idx] = Ticked(in)]
    BY <1>1, <1>3, <1>4, <1>5, <1>6, PassLemma
  <1>7. CASE in.ctr = 0 /\ inputs' = [inputs EXCEPT ![idx] = GivenTo(in)]
    BY <1>1, <1>3, <1>4, <1>5, <1>7, PassLemma
  <1>8. CASE Drop(PassedOver(idx), idx)
    BY <1>1, <1>8, DropFailedStep
  <1> QED
    BY <1>6, <1>7, <1>8 DEF DeliverToInput

(* The loop has come past every input: all of them are one frame on. *)
LEMMA EndStep ==
    ASSUME InputsKept, EndInputs
    PROVE  InputsKept'
  <1>1. /\ pc = "deliver" /\ idx > Len(inputs) /\ pc' = "finish" /\ idx' = idx
        /\ delivered' = delivered + 1 /\ inputs' = inputs
    BY DEF EndInputs, InputLoop, clients
  <1>2. \A i \in 1 .. Len(inputs) : Offered(i)' = Offered(i) /\ Offered(i) = delivered + 1
    BY <1>1 DEF InputsKept, Offered
  <1>3. \A i \in 1 .. Len(inputs) : inputs[i].since \in Nat /\ inputs[i].since <= delivered
    <2>1. \A i \in 1 .. Len(inputs) : inputs[i] \in InputType /\ inputs[i].since <= delivered
      BY DEF InputsKept
    <2> QED
      BY <2>1 DEF InputType
  <1>4. \A i \in 1 .. Len(inputs) : inputs[i].since <= delivered'
    BY <1>1, <1>3 DEF InputsKept
  <1> QED
    BY <1>1, <1>2, <1>4 DEF InputsKept

LEMMA ConnectStep ==
    ASSUME InputsKept, NEW id \in Inputs, NEW div \in Divisors, Connect(id, div)
    PROVE  InputsKept'
  <1> DEFINE r == [id |-> id, div |-> div, ctr |-> 0,
                   since |-> delivered, got |-> 0, passed |-> FALSE]
  <1>1. /\ pc # "deliver" /\ pc' = pc /\ idx' = idx /\ delivered' = delivered
        /\ inputs' = Append(inputs, r)
    BY DEF Connect, InputLoop, thread, history
  <1>2. div \in Nat \ {0} /\ delivered \in Nat
    BY InputAssumption DEF InputsKept
  <1>3. r \in InputType /\ r.since = delivered
    BY <1>2 DEF InputType
  <1>4. At(r, delivered)
    <2>1. delivered - delivered = 0 /\ 0 % div = 0
      BY <1>2, DivModNext
    <2> QED
      BY <2>1 DEF At
  <1> HIDE DEF r
  <1>5. inputs' \in Seq(InputType) /\ Len(inputs') = Len(inputs) + 1
        /\ \A i \in 1 .. Len(inputs) + 1 : inputs'[i] = IF i = Len(inputs) + 1 THEN r ELSE inputs[i]
    BY <1>1, <1>3 DEF InputsKept
  <1>6. \A i \in 1 .. Len(inputs) + 1 : Offered(i)' = delivered /\ Offered(i) = delivered
    BY <1>1 DEF Offered
  <1>7. ASSUME NEW i \in 1 .. Len(inputs) + 1
        PROVE  /\ inputs'[i].since <= delivered
               /\ inputs'[i].passed \/ At(inputs'[i], Offered(i)')
    <2>1. CASE i = Len(inputs) + 1
      BY <1>2, <1>3, <1>4, <1>5, <1>6, <2>1
    <2>2. CASE i # Len(inputs) + 1
      <3>1. i \in 1 .. Len(inputs)
        BY <2>2 DEF InputsKept
      <3> QED
        BY <1>5, <1>6, <2>2, <3>1 DEF InputsKept
    <2> QED
      BY <2>1, <2>2
  <1> QED
    BY <1>1, <1>5, <1>7 DEF InputsKept

LEMMA DisconnectStep ==
    ASSUME InputsKept, Disconnect
    PROVE  InputsKept'
  <1>1. /\ pc # "deliver" /\ pc' = pc /\ idx' = idx /\ delivered' = delivered
    BY DEF Disconnect, InputLoop, thread, history
  <1>2. PICK i \in 1 .. Len(inputs) : inputs' = RemoveAt(inputs, i)
    BY DEF Disconnect, Drop, InputsKept
  <1>3. /\ inputs' \in Seq(InputType) /\ Len(inputs') = Len(inputs) - 1
        /\ \A k \in 1 .. Len(inputs) - 1 :
              inputs'[k] = IF k < i THEN inputs[k] ELSE inputs[k + 1]
    BY <1>2, RemoveFacts DEF InputsKept
  <1>4. \A k \in Int : Offered(k)' = delivered /\ Offered(k) = delivered
    BY <1>1 DEF Offered
  <1>5. ASSUME NEW k \in 1 .. Len(inputs) - 1
        PROVE  /\ inputs'[k].since <= delivered
               /\ inputs'[k].passed \/ At(inputs'[k], delivered)
    <2>1. PICK j \in 1 .. Len(inputs) : inputs'[k] = inputs[j]
      BY <1>2, <1>3 DEF InputsKept
    <2> QED
      BY <1>4, <2>1 DEF InputsKept
  <1> QED
    BY <1>1, <1>3, <1>4, <1>5 DEF InputsKept

LEMMA NextInputs == InputsKept /\ [Next]_vars => InputsKept'
  <1> SUFFICES ASSUME InputsKept, [Next]_vars PROVE InputsKept'
    OBVIOUS
  <1>1. ASSUME UNCHANGED <<inputs, delivered>>, idx' \in Nat \ {0},
               \A i \in 1 .. Len(inputs) : Offered(i)' = Offered(i)
        PROVE  InputsKept'
    BY <1>1 DEF InputsKept
  <1>2. ASSUME UNCHANGED <<inputs, delivered, idx>>, pc' = "deliver" <=> pc = "deliver"
        PROVE  InputsKept'
    BY <1>1, <1>2 DEF Offered, InputsKept
  <1>3. CASE TakeFrame
    <2>1. UNCHANGED <<inputs, delivered>> /\ idx' = 1 /\ pc # "deliver" /\ pc' = "deliver"
      BY <1>3 DEF TakeFrame, clients, history
    <2>2. \A i \in 1 .. Len(inputs) : Offered(i)' = Offered(i)
      BY <2>1 DEF Offered
    <2> QED
      BY <1>1, <2>1, <2>2
  <1>4. CASE \/ \E count \in 1 .. MaxCount : LockFrame(count)
             \/ UnlockFrame \/ IdleTick \/ Wake \/ LeaveLoop \/ FinishFrame
             \/ IncTextureEncoders \/ DecTextureEncoders \/ Stop
    <2>1. UNCHANGED <<inputs, delivered, idx>>
      BY <1>4 DEF LockFrame, UnlockFrame, IdleTick, Wake, LeaveLoop, FinishFrame,
                  IncTextureEncoders, DecTextureEncoders, Stop, clients, history, thread
    <2>2. pc' = "deliver" <=> pc = "deliver"
      BY <1>4 DEF LockFrame, UnlockFrame, IdleTick, Wake, LeaveLoop, FinishFrame, CompleteSlot,
                  RepeatSlot, IncTextureEncoders, DecTextureEncoders, Stop, thread
    <2> QED
      BY <1>2, <2>1, <2>2
  <1>5. CASE UNCHANGED vars
    BY <1>2, <1>5 DEF vars, clients, history, thread
  <1> QED
    BY <1>3, <1>4, <1>5, DeliverStep, EndStep, ConnectStep, DisconnectStep DEF Next

(* Every input has exactly the frames its divisor selects, except one the  *)
(* loop has stepped over.                                                  *)
THEOREM InputsGetTheirs == Spec => []InputsOnTheirFrames
  <1>1. Init => InputsKept
    BY DEF Init, InputsKept
  <1>2. InputsKept => InputsOnTheirFrames
    <2> SUFFICES ASSUME InputsKept, ~InputLoop, NEW i \in DOMAIN inputs
                 PROVE  inputs[i].passed \/ OnItsFrames(inputs[i])
      BY DEF InputsOnTheirFrames
    <2>1. i \in 1 .. Len(inputs) /\ Offered(i) = delivered
      BY DEF InputsKept, InputLoop, Offered
    <2>2. At(inputs[i], delivered) => OnItsFrames(inputs[i])
      BY DEF At, OnItsFrames, LastDue
    <2> QED
      BY <2>1, <2>2 DEF InputsKept
  <1> QED
    BY <1>1, <1>2, NextInputs, PTL DEF Spec

=============================================================================
