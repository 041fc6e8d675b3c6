----------------------------- MODULE VideoOutput -----------------------------
(***************************************************************************)
(* The raw video output of libobs (media-io/video-io.c): a ring of cached  *)
(* frames between the graphics thread, which locks and unlocks one slot    *)
(* per composited frame (obs-video.c, output_video_data), and the video    *)
(* thread, which hands every cached frame to the connected inputs.         *)
(*                                                                         *)
(* Timestamps are counted in frame intervals ("ticks").  A slot stands for *)
(* `count` consecutive ticks; when the ring is full the producer merges    *)
(* its ticks into the newest slot instead of blocking.                     *)
(***************************************************************************)
EXTENDS Integers, Sequences, FiniteSets, SequencesExt

CONSTANTS
    CacheSize,   \* info.cache_size
    Inputs,      \* (callback, param) pairs that may be connected
    Divisors,    \* frame_rate_divisor values in use
    Failing,     \* inputs whose callback may disconnect itself (encode error)
    MaxTick,     \* bound: ticks of the graphics clock
    MaxCount,    \* bound: intervals covered by one composited frame
    MaxGpuRefs   \* bound: texture encoders attached at once

ASSUME CacheAssumption == CacheSize \in Nat \ {0}
ASSUME BoundAssumption == MaxTick \in Nat /\ MaxCount \in Nat
ASSUME InputAssumption == Divisors \subseteq Nat \ {0} /\ Failing \subseteq Inputs

VARIABLES
    available,      \* available_frames
    firstAdded,     \* first_added
    lastAdded,      \* last_added
    cache,          \* cache[i]: timestamp, count, skipped
    locked,         \* the graphics thread is between lock_frame and unlock_frame
    clock,          \* first tick the graphics thread has not produced yet
    sem,            \* update_semaphore
    stop,           \* stop
    pc,             \* where the video thread is
    cur,            \* frame_info, as an index into cache
    idx,            \* i of the loop over the inputs
    inputs,         \* inputs
    rawActive,      \* raw_active
    gpuRefs,        \* gpu_refs
    skippedFrames,  \* skipped_frames
    totalFrames,    \* total_frames
    produced,       \* history: ticks handed over by the graphics thread
    delivered,      \* history: frames that have passed the input loop
    shown,          \* history: timestamp of the last of them
    merged          \* history: ticks merged into a full ring since reset_frames

ring    == <<available, firstAdded, lastAdded, cache>>
thread  == <<pc, cur, idx>>
stats   == <<skippedFrames, totalFrames, merged>>
clients == <<inputs, rawActive, gpuRefs>>
history == <<produced, delivered, shown>>
vars    == <<ring, locked, clock, sem, stop, thread, clients, stats, history>>

Slots    == 0 .. CacheSize - 1
Wrap(n)  == IF n >= CacheSize THEN n - CacheSize ELSE n
Out      == CacheSize - available               \* frames the thread may read
Held     == Out + (IF locked THEN 1 ELSE 0)     \* and the one being written
Slot(k)  == Wrap(firstAdded + k)                \* the k-th of them
HeldSlots == {Slot(k) : k \in 0 .. Held - 1}
Skipped  == [s \in Slots |-> cache[s].skipped]
Pending  == SumFunctionOnSet(Skipped, HeldSlots)

Connected == {inputs[i].id : i \in DOMAIN inputs}
InputLoop == pc = "deliver"                     \* the video thread holds input_mutex

-----------------------------------------------------------------------------
(* video_output_open, init_cache *)
Init ==
    /\ available = CacheSize /\ firstAdded = 0 /\ lastAdded = 0
    /\ cache = [s \in Slots |-> [ts |-> 0, count |-> 0, skipped |-> 0]]
    /\ locked = FALSE /\ clock = 0 /\ sem = 0 /\ stop = FALSE
    /\ pc = "wait" /\ cur = 0 /\ idx = 1
    /\ inputs = <<>> /\ rawActive = FALSE /\ gpuRefs = 0
    /\ skippedFrames = 0 /\ totalFrames = 0 /\ merged = 0
    /\ produced = 0 /\ delivered = 0 /\ shown = -1

-----------------------------------------------------------------------------
(* The graphics thread. *)

(* video_output_lock_frame with available_frames == 0 *)
MergeIntoLast(count) ==
    /\ available = 0
    /\ cache' = [cache EXCEPT ![lastAdded] =
                    [ts |-> @.ts, count |-> @.count + count, skipped |-> @.skipped + count]]
    /\ merged' = merged + count
    /\ UNCHANGED <<available, firstAdded, lastAdded, locked>>

(* mutant: last_added never advances *)
ClaimAt(slot, ts, count) ==
    /\ available # 0
    /\ lastAdded' = slot
    /\ cache' = [cache EXCEPT ![slot] = [ts |-> ts, count |-> count, skipped |-> 0]]
    /\ locked' = TRUE
    /\ UNCHANGED <<available, firstAdded, merged>>
ClaimSlot_NoAdvance(count) == ClaimAt(lastAdded, clock, count)
(* video_output_lock_frame with a slot available *)
ClaimSlot(count) ==
    /\ available # 0
    /\ lastAdded' = IF available # CacheSize THEN Wrap(lastAdded + 1) ELSE lastAdded
    /\ cache' = [cache EXCEPT ![lastAdded'] = [ts |-> clock, count |-> count, skipped |-> 0]]
    /\ locked' = TRUE
    /\ UNCHANGED <<available, firstAdded, merged>>

LockFrame(count) ==
    /\ ~locked
    /\ clock + count <= MaxTick
    /\ MergeIntoLast(count) \/ ClaimSlot(count)
    /\ clock' = clock + count
    /\ produced' = produced + count
    /\ UNCHANGED <<sem, stop, thread, clients, skippedFrames, totalFrames, delivered, shown>>

(* mutant: the thread is only woken when the ring was empty *)
UnlockFrame_PostIfEmpty ==
    /\ locked
    /\ locked' = FALSE
    /\ available' = available - 1
    /\ sem' = IF available = CacheSize THEN sem + 1 ELSE sem
    /\ UNCHANGED <<firstAdded, lastAdded, cache, clock, stop, thread, clients, stats, history>>

(* video_output_unlock_frame *)
UnlockFrame ==
    /\ locked
    /\ locked' = FALSE
    /\ available' = available - 1
    /\ sem' = sem + 1
    /\ UNCHANGED <<firstAdded, lastAdded, cache, clock, stop, thread, clients, stats, history>>

(* A tick for which the mix was not raw-active: nothing is handed over. *)
IdleTick ==
    /\ ~locked
    /\ clock < MaxTick
    /\ clock' = clock + 1
    /\ UNCHANGED <<ring, locked, sem, stop, thread, clients, stats, history>>

-----------------------------------------------------------------------------
(* The video thread. *)

(* mutant: the result of os_sem_wait is taken for granted *)
Wake_Spurious ==
    /\ pc = "wait"
    /\ sem' = IF sem > 0 THEN sem - 1 ELSE 0
    /\ pc' = IF stop THEN "exit" ELSE "loop"
    /\ UNCHANGED <<ring, locked, clock, stop, cur, idx, clients, stats, history>>

(* os_sem_wait, then the first test of stop *)
Wake ==
    /\ pc = "wait"
    /\ sem > 0
    /\ sem' = sem - 1
    /\ pc' = IF stop THEN "exit" ELSE "loop"
    /\ UNCHANGED <<ring, locked, clock, stop, cur, idx, clients, stats, history>>

(* while (!video->stop && ...): leave the frame that was announced unread *)
LeaveLoop ==
    /\ pc = "loop"
    /\ stop
    /\ pc' = "wait"
    /\ totalFrames' = totalFrames + 1
    /\ UNCHANGED <<ring, locked, clock, sem, stop, cur, idx, clients,
                   skippedFrames, merged, history>>

(* video_output_cur_frame: read first_added, then take input_mutex *)
TakeFrame ==
    /\ pc = "loop"
    /\ ~stop
    /\ cur' = firstAdded
    /\ idx' = 1
    /\ pc' = "deliver"
    /\ UNCHANGED <<ring, locked, clock, sem, stop, clients, stats, history>>

(* mutant: the counter wraps one frame late *)
Ticked_LateWrap(in) == [in EXCEPT !.ctr = IF @ = in.div THEN 0 ELSE @ + 1]

(* frame_rate_divisor_counter *)
Ticked(in) == [in EXCEPT !.ctr = IF @ + 1 = in.div THEN 0 ELSE @ + 1]

GivenTo(in) == [Ticked(in) EXCEPT !.got = delivered + 1]
Drop(seq, i) == /\ inputs' = RemoveAt(seq, i)
                /\ rawActive' = (Len(seq) > 1)

(* da_erase moves the next input to i, and the loop goes on at i + 1 *)
PassedOver(i) ==
    [k \in DOMAIN inputs |-> [inputs[k] EXCEPT !.passed = @ \/ k = i + 1]]

(* one iteration of the loop over the inputs *)
DeliverToInput ==
    /\ InputLoop
    /\ idx <= Len(inputs)
    /\ LET in == inputs[idx] IN
       \/ /\ in.ctr # 0
          /\ inputs' = [inputs EXCEPT ![idx] = Ticked(in)]
          /\ UNCHANGED rawActive
       \/ /\ in.ctr = 0
          /\ inputs' = [inputs EXCEPT ![idx] = GivenTo(in)]
          /\ UNCHANGED rawActive
       \/ \* the callback ends in full_stop and video_output_disconnect2
          /\ in.ctr = 0
          /\ in.id \in Failing
          /\ Drop(PassedOver(idx), idx)
    /\ idx' = idx + 1
    /\ UNCHANGED <<ring, locked, clock, sem, stop, pc, cur, gpuRefs, stats, history>>

(* the loop is over and input_mutex is released *)
EndInputs ==
    /\ InputLoop
    /\ idx > Len(inputs)
    /\ pc' = "finish"
    /\ delivered' = delivered + 1
    /\ shown' = cache[cur].ts
    /\ UNCHANGED <<ring, locked, clock, sem, stop, cur, idx, clients, stats, produced>>

(* mutant: an emptied ring leaves last_added behind first_added *)
CompleteSlot_StaleLast ==
    /\ cache[cur].count = 1
    /\ cache' = [cache EXCEPT ![cur] = [ts |-> @.ts + 1, count |-> 0, skipped |-> @.skipped]]
    /\ firstAdded' = Wrap(firstAdded + 1)
    /\ available' = available + 1
    /\ pc' = "wait"
    /\ UNCHANGED <<lastAdded, skippedFrames>>

(* the second data_mutex section of video_output_cur_frame *)
CompleteSlot ==
    /\ cache[cur].count = 1
    /\ cache' = [cache EXCEPT ![cur] = [ts |-> @.ts + 1, count |-> 0, skipped |-> @.skipped]]
    /\ firstAdded' = Wrap(firstAdded + 1)
    /\ available' = available + 1
    /\ lastAdded' = IF available' = CacheSize THEN firstAdded' ELSE lastAdded
    /\ pc' = "wait"
    /\ UNCHANGED skippedFrames

(* mutant: skipped is never consumed *)
RepeatSlot_KeepSkipped ==
    /\ cache[cur].count # 1
    /\ cache' = [cache EXCEPT ![cur] = [@ EXCEPT !.ts = @ + 1, !.count = @ - 1]]
    /\ skippedFrames' = skippedFrames + (IF cache[cur].skipped > 0 THEN 1 ELSE 0)
    /\ pc' = "loop"
    /\ UNCHANGED <<available, firstAdded, lastAdded>>

RepeatSlot ==
    /\ cache[cur].count # 1
    /\ LET late == IF cache[cur].skipped > 0 THEN 1 ELSE 0 IN
       /\ cache' = [cache EXCEPT ![cur] =
                       [ts |-> @.ts + 1, count |-> @.count - 1, skipped |-> @.skipped - late]]
       /\ skippedFrames' = skippedFrames + late
    /\ pc' = "loop"
    /\ UNCHANGED <<available, firstAdded, lastAdded>>

FinishFrame ==
    /\ pc = "finish"
    /\ CompleteSlot \/ RepeatSlot
    /\ totalFrames' = totalFrames + 1
    /\ UNCHANGED <<locked, clock, sem, stop, cur, idx, clients, merged, history>>

-----------------------------------------------------------------------------
(* Any other thread.  input_mutex keeps these out of the input loop. *)

ResetFrames ==
    /\ skippedFrames' = 0
    /\ totalFrames' = 0
    /\ merged' = Pending

(* video_output_connect2 *)
Connect(id, div) ==
    /\ ~InputLoop
    /\ id \notin Connected
    /\ IF inputs = <<>> /\ gpuRefs = 0 THEN ResetFrames ELSE UNCHANGED stats
    /\ rawActive' = TRUE
    /\ inputs' = Append(inputs, [id |-> id, div |-> div, ctr |-> 0,
                                 since |-> delivered, got |-> 0, passed |-> FALSE])
    /\ UNCHANGED <<ring, locked, clock, sem, stop, thread, gpuRefs, history>>

(* video_output_disconnect2 *)
Disconnect ==
    /\ ~InputLoop
    /\ \E i \in DOMAIN inputs : Drop(inputs, i)
    /\ UNCHANGED <<ring, locked, clock, sem, stop, thread, gpuRefs, stats, history>>

(* video_output_inc_texture_encoders *)
IncTextureEncoders ==
    /\ gpuRefs < MaxGpuRefs
    /\ gpuRefs' = gpuRefs + 1
    /\ IF gpuRefs = 0 /\ ~rawActive THEN ResetFrames ELSE UNCHANGED stats
    /\ UNCHANGED <<ring, locked, clock, sem, stop, thread, inputs, rawActive, history>>

(* video_output_dec_texture_encoders *)
DecTextureEncoders ==
    /\ gpuRefs > 0
    /\ gpuRefs' = gpuRefs - 1
    /\ UNCHANGED <<ring, locked, clock, sem, stop, thread, inputs, rawActive, stats, history>>

(* video_output_stop, up to the join *)
Stop ==
    /\ ~stop
    /\ stop' = TRUE
    /\ sem' = sem + 1
    /\ UNCHANGED <<ring, locked, clock, thread, clients, stats, history>>

-----------------------------------------------------------------------------
VideoThread == \/ Wake \/ LeaveLoop \/ TakeFrame \/ DeliverToInput
               \/ EndInputs \/ FinishFrame

Next ==
    \/ \E count \in 1 .. MaxCount : LockFrame(count)
    \/ UnlockFrame
    \/ IdleTick
    \/ Wake
    \/ LeaveLoop
    \/ TakeFrame
    \/ DeliverToInput
    \/ EndInputs
    \/ FinishFrame
    \/ \E id \in Inputs, div \in Divisors : Connect(id, div)
    \/ Disconnect
    \/ IncTextureEncoders
    \/ DecTextureEncoders
    \/ Stop

Spec == Init /\ [][Next]_vars

(* The graphics thread never blocks between lock and unlock, and the video *)
(* thread is a plain loop: both keep running.                              *)
FairSpec == Spec /\ WF_vars(VideoThread) /\ WF_vars(UnlockFrame)

-----------------------------------------------------------------------------
(* Type invariant of the ring and of the two threads' control state. *)
TypeOK ==
    /\ available \in 0 .. CacheSize
    /\ firstAdded \in Slots /\ lastAdded \in Slots /\ cur \in Slots
    /\ cache \in [Slots -> [ts : Nat, count : Nat, skipped : Nat]]
    /\ locked \in BOOLEAN /\ stop \in BOOLEAN
    /\ clock \in Nat /\ sem \in Nat
    /\ pc \in {"wait", "loop", "deliver", "finish", "exit"}
    /\ shown \in Nat \cup {-1}

(* The slot the graphics thread is writing is never the slot whose frame   *)
(* the video thread is handing to the inputs: data_mutex is held by        *)
(* neither while pixels move, so only the ring arithmetic protects them.   *)
NoTearing == locked /\ pc \in {"deliver", "finish"} => lastAdded # cur

(* video_output_cur_frame has no check that a frame is there; it relies on *)
(* one semaphore post per unlocked slot.  It never starts on an empty ring *)
(* (where --count would go negative), even though one slot takes several   *)
(* passes of the inner loop and a full ring posts nothing.                 *)
NeverReadsEmptyRing == pc \in {"deliver", "finish"} => Out > 0 /\ cache[cur].count > 0

(* Frames reach the inputs with strictly increasing timestamps, also when  *)
(* a slot is repeated, when ticks are merged into a slot that is being     *)
(* delivered and when the ring wraps.                                      *)
TimestampsIncrease == [][delivered' # delivered => shown' > shown]_vars

(* A frame handed to the inputs is never stamped with a tick the graphics  *)
(* thread has not composited yet, whatever was merged into its slot.       *)
NeverAhead == shown < clock

(* skipped_frames reports exactly the ticks merged because the ring was    *)
(* full, and reports each of them once.                                    *)
SkipAccounting == skippedFrames + Pending = merged

(* The number of the last frame an input of divisor d must have received,  *)
(* n frames after it was connected.                                        *)
LastDue(since, d) ==
    IF delivered = since THEN 0
    ELSE since + 1 + d * ((delivered - since - 1) \div d)

OnItsFrames(in) ==
    /\ in.ctr = (delivered - in.since) % in.div
    /\ in.got = LastDue(in.since, in.div)

(* Every input has seen exactly the frames its divisor selects, counted    *)
(* from its connection, whatever other inputs connect, disconnect or fail  *)
(* meanwhile, unless the loop has stepped over it when the input before it *)
(* disconnected itself.                                                    *)
InputsOnTheirFrames ==
    ~InputLoop => \A i \in DOMAIN inputs : inputs[i].passed \/ OnItsFrames(inputs[i])

(* The comment in struct video_input: the per-input counter makes inputs   *)
(* started at the same time run on the same frames.  Every input is on its *)
(* frames, with no exception.                                              *)
SameStartSameFrames ==
    ~InputLoop => \A i \in DOMAIN inputs : OnItsFrames(inputs[i])

(* The ring implements the stream of ticks of TickStream: the history      *)
(* variables are the stream's state, so the refinement is by name.         *)
Stream == INSTANCE TickStream
ImplementsTickStream == Stream!Spec

=============================================================================
