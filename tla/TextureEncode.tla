---------------------------- MODULE TextureEncode ----------------------------
(***************************************************************************)
(* The texture encode queue of libobs: the graphics thread queues          *)
(* composited textures with a count of ticks (obs-video.c, queue_frame),   *)
(* the GPU encode thread hands every tick of them to the attached encoders *)
(* (obs-video-gpu-encode.c), and encoders come and go from other threads   *)
(* (obs.c, start_gpu_encode and stop_gpu_encode; the first one allocates   *)
(* the queues and the thread, the last one frees them).  The pause of an   *)
(* encoder (obs-output.c, obs-encoder.c) is a pair of tick timestamps.     *)
(*                                                                         *)
(* Timestamps count frame intervals, from 1: the code takes 0 for "none".  *)
(***************************************************************************)
EXTENDS Integers, Sequences, FiniteSets, Functions

CONSTANTS
    Encoders,    \* texture encoders
    Textures,    \* NUM_ENCODE_TEXTURES
    Plans        \* bounds: ticks of the graphics clock, the most one iteration of
                 \* its thread covers, the encoders used, calls of start_gpu_encode
                 \* and of obs_output_pause, encode errors

ASSUME TextureAssumption ==
    /\ Textures \in Nat \ {0}
    /\ Plans \subseteq [tick : Nat, lag : Nat, who : SUBSET Encoders, start : Nat,
                        pause : Nat, fail : Nat]

VARIABLES
    clock,      \* video_time, in ticks
    gpc,        \* where the graphics thread is in its loop
    wasActive,  \* gpu_was_active
    vframes,    \* vframe_info_buffer_gpu
    avail,      \* length of gpu_encoder_avail_queue
    pending,    \* gpu_encoder_queue: timestamp and count
    sem,        \* gpu_encode_semaphore
    inactive,   \* gpu_encode_inactive
    exists,     \* the semaphore and the event are allocated
    stop,       \* gpu_encode_stop
    active,     \* gpu_encoder_active
    attached,   \* gpu_encoders
    threads,    \* GPU encode threads: where they are, wait_frames, tf, encoders
    handle,     \* gpu_encode_thread, gpu_encode_thread_initialized
    ctl,        \* ctl[e]: how far the start or the stop of e has come
    pause,      \* pause_data of each encoder
    seen,       \* history: ticks each encoder was given since it was attached
    owed,       \* history: ticks queued and not yet finished, and those finished
    upset,      \* history: what has happened that the code is not prepared for
    left        \* what is left of the plan

graphics == <<clock, gpc, wasActive, vframes>>
queue    == <<avail, pending, sem>>
life     == <<exists, stop, active, attached, handle, ctl>>
vars     == <<graphics, queue, inactive, life, threads, pause, seen, owed, upset, left>>

Threads  == {"g1", "g2"}
NoThread == "none"
NoFrame  == [ts |-> 0, count |-> 0]
NoPause  == [last |-> 0, start |-> 0, end |-> 0]

At(t, where) == threads[t].pc = where
Alive(t)     == ~At(t, "off") /\ ~At(t, "lost")

(* Once the code has met what it is not prepared for, only the calls that   *)
(* are under way are followed to their end.  A late frame and a lull, in    *)
(* which the thread records no ticks while the queue is kept, go on.        *)
Calm == upset \subseteq {"lag", "lull"}

Init ==
    /\ clock = 1 /\ gpc = "update" /\ wasActive = FALSE /\ vframes = <<>>
    /\ avail = 0 /\ pending = <<>> /\ sem = 0
    /\ inactive = TRUE /\ exists = FALSE /\ stop = FALSE
    /\ active = 0 /\ attached = {} /\ handle = NoThread
    /\ threads = [t \in Threads |-> [pc |-> "off", wait |-> 1, hand |-> NoFrame, busy |-> {}]]
    /\ ctl = [e \in Encoders |-> "off"]
    /\ pause = [e \in Encoders |-> NoPause]
    /\ seen = [e \in Encoders |-> 0]
    /\ owed = [queued |-> 0, done |-> 0]
    /\ upset = {}
    /\ left \in Plans

-----------------------------------------------------------------------------
(* The graphics thread: obs_graphics_thread_loop                            *)

(* update_active_state *)
UpdateActive ==
    /\ gpc = "update" /\ Calm
    /\ wasActive' = (active > 0)
    /\ vframes' = IF ~wasActive /\ active > 0 THEN <<>> ELSE vframes
    /\ gpc' = "output"
    /\ upset' = IF wasActive /\ active = 0 /\ attached # {} THEN upset \cup {"lull"} ELSE upset
    /\ UNCHANGED <<clock, queue, inactive, life, threads, pause, seen, owed, left>>

(* mutant: a post without a tick *)
RaiseNoCount(q) == [q EXCEPT !.posts = @ + 1]

(* the newest pending texture stands for one tick more *)
Raise(q) == [q EXCEPT !.pending[Len(q.pending)].count = @ + 1, !.posts = @ + 1]

(* one call of queue_frame, with `count` ticks left of the frame stamped ts *)
QueueFrame(q, ts, count) ==
    IF q.avail = 0 \/ (q.pending # <<>> /\ count > 1)
    THEN IF q.pending = <<>> THEN q ELSE Raise(q)   \* no texture at all: being freed
    ELSE [avail |-> q.avail - 1, posts |-> q.posts + 1,
          pending |-> Append(q.pending, [ts |-> ts, count |-> 1])]

(* encode_gpu: the queue after all ticks of a frame *)
EncodeGpu(v) ==
    LET after[n \in 0 .. v.count] ==
            IF n = 0 THEN [avail |-> avail, pending |-> pending, posts |-> 0]
            ELSE QueueFrame(after[n - 1], v.ts, v.count - n + 1)
    IN  after[v.count]

(* output_gpu_encoders, under gpu_encoder_mutex *)
OutputGpuEncoders ==
    /\ gpc = "output" /\ Calm
    /\ gpc' = "sleep"
    /\ IF wasActive /\ vframes # <<>>
       THEN LET v == Head(vframes)  q == EncodeGpu(v) IN
            /\ vframes' = Tail(vframes)
            /\ avail' = q.avail /\ pending' = q.pending /\ sem' = sem + q.posts
            /\ owed' = [owed EXCEPT !.queued = @ + q.posts]
            /\ upset' = IF v.count > 1 THEN upset \cup {"lag"} ELSE upset
       ELSE UNCHANGED <<vframes, queue, owed, upset>>
    /\ UNCHANGED <<clock, wasActive, inactive, life, threads, pause, seen, left>>

(* video_sleep: the tick that begins was composed `count` ticks late *)
VideoSleep(count) ==
    /\ gpc = "sleep" /\ Calm
    /\ count <= left.tick
    /\ clock' = clock + count
    /\ vframes' = IF wasActive THEN Append(vframes, [ts |-> clock, count |-> count]) ELSE vframes
    /\ gpc' = "update"
    /\ left' = [left EXCEPT !.tick = @ - count]
    /\ UNCHANGED <<wasActive, queue, inactive, life, threads, pause, seen, owed, upset>>

Graphics == UpdateActive \/ OutputGpuEncoders \/ \E n \in 1 .. left.lag : VideoSleep(n)

-----------------------------------------------------------------------------
(* gpu_encode_thread                                                        *)

(* os_sem_wait returns *)
Wake(t) ==
    /\ At(t, "wait") /\ sem > 0
    /\ sem' = sem - 1
    /\ threads' = [threads EXCEPT ![t].pc = "woken"]
    /\ UNCHANGED <<graphics, avail, pending, inactive, life, pause, seen, owed, upset, left>>

(* mutant: every wake leaves a frame in hand *)
BeginSwallows(t) ==
    /\ At(t, "woken")
    /\ threads' = [threads EXCEPT ![t].pc = IF stop THEN "off" ELSE "wait"]
    /\ UNCHANGED <<graphics, queue, inactive, life, pause, seen, owed, upset, left>>

(* the stop, the first wakes that only leave a frame in hand, a frame *)
Begin(t) ==
    /\ At(t, "woken")
    /\ LET go == ~stop /\ threads[t].wait = 0 IN
       /\ threads' = [threads EXCEPT ![t] =
                        IF stop THEN [@ EXCEPT !.pc = "off", !.wait = 1]
                        ELSE IF go THEN [@ EXCEPT !.pc = "take"]
                        ELSE [@ EXCEPT !.pc = "wait", !.wait = threads[t].wait - 1]]
       /\ inactive' = (inactive /\ ~go)
    /\ UNCHANGED <<graphics, queue, life, pause, seen, owed, upset, left>>

(* the first section under gpu_encoder_mutex *)
TakeFrame(t) ==
    /\ At(t, "take") /\ pending # <<>>
    /\ threads' = [threads EXCEPT ![t] = [@ EXCEPT !.pc = "encode", !.hand = Head(pending),
                                                   !.busy = attached]]
    /\ pending' = Tail(pending)
    /\ UNCHANGED <<graphics, avail, sem, inactive, life, pause, seen, owed, upset, left>>

(* video_pause_check_internal: the pause left behind, and whether the frame *)
(* is ignored                                                               *)
PauseCheck(p, ts) ==
    LET q == [p EXCEPT !.last = ts]
        ends == p.start # 0 /\ ts = p.end
    IN  [pause  |-> IF ends THEN [q EXCEPT !.start = 0, !.end = 0] ELSE q,
         ignore |-> p.start # 0 /\ ~ends /\ ts >= p.start]

(* one encoder of the loop; the encoder takes the frame or fails *)
EncodeNext(t) ==
    \E e \in threads[t].busy :
        /\ At(t, "encode")
        /\ LET ts == threads[t].hand.ts
               check == PauseCheck(pause[e], ts) IN
           /\ pause' = [pause EXCEPT ![e] = check.pause]
           /\ seen' = [seen EXCEPT ![e] = @ + 1]
           /\ \/ /\ threads' = [threads EXCEPT ![t].busy = @ \ {e}]
                 /\ UNCHANGED <<upset, left>>
              \/ /\ ~check.ignore /\ left.fail > 0 /\ Calm
                 /\ left' = [left EXCEPT !.fail = @ - 1]
                 /\ upset' = upset \cup {"error"}
                 /\ threads' = [threads EXCEPT ![t] = [@ EXCEPT !.pc = "failed", !.busy = {e}]]
        /\ UNCHANGED <<graphics, queue, inactive, life, owed>>

(* full_stop, called by the thread itself: remove_connection comes to       *)
(* stop_gpu_encode, which waits for the event the thread has reset          *)
FullStop(t) ==
    /\ At(t, "failed")
    /\ active' = active - 1
    /\ attached' = attached \ threads[t].busy
    /\ threads' = [threads EXCEPT ![t].pc = "stuck"]
    /\ UNCHANGED <<graphics, queue, inactive, exists, stop, handle, ctl, pause, seen, owed, upset, left>>

(* mutants: count-- for --count, a repeated frame keeps its timestamp *)
RepeatOffByOne(f)  == <<[ts |-> f.ts + 1, count |-> f.count - 1]>>
RepeatSameStamp(f) == IF f.count > 1 THEN <<[f EXCEPT !.count = @ - 1]>> ELSE <<>>

(* what is pushed back to the front of the queue, after one tick of f *)
Repeat(f) == IF f.count > 1 THEN <<[ts |-> f.ts + 1, count |-> f.count - 1]>> ELSE <<>>

Freed(f) == IF f.count > 1 THEN 0 ELSE 1

(* the second section under gpu_encoder_mutex *)
FinishFrame(t) ==
    /\ At(t, "encode") /\ threads[t].busy = {}
    /\ pending' = Repeat(threads[t].hand) \o pending
    /\ avail' = avail + Freed(threads[t].hand)
    /\ threads' = [threads EXCEPT ![t] = [@ EXCEPT !.pc = "signal", !.hand = NoFrame]]
    /\ owed' = [owed EXCEPT !.done = @ + 1]
    /\ UNCHANGED <<graphics, sem, inactive, life, pause, seen, upset, left>>

SignalInactive(t) ==
    /\ At(t, "signal")
    /\ inactive' = TRUE
    /\ threads' = [threads EXCEPT ![t].pc = "wait"]
    /\ UNCHANGED <<graphics, queue, life, pause, seen, owed, upset, left>>

GpuThread(t) == \/ Wake(t) \/ Begin(t) \/ TakeFrame(t) \/ EncodeNext(t) \/ FullStop(t)
                \/ FinishFrame(t) \/ SignalInactive(t)

-----------------------------------------------------------------------------
(* start_gpu_encode and stop_gpu_encode, called by any thread               *)

(* init_gpu_encoding.  When the last encoder of before is still being       *)
(* stopped, the old semaphore is replaced under the thread that waits on it.*)
InitGpuEncoding ==
    /\ stop' = FALSE /\ exists' = TRUE /\ inactive' = TRUE
    /\ avail' = avail + Textures /\ sem' = 0
    /\ \E t \in Threads :
          /\ At(t, "off")
          /\ handle' = t
          /\ threads' = [u \in Threads |->
                           IF u = t THEN [threads[u] EXCEPT !.pc = "wait"]
                           ELSE IF At(u, "wait") THEN [threads[u] EXCEPT !.pc = "lost"]
                           ELSE threads[u]]
    /\ owed' = IF exists THEN owed ELSE [queued |-> 0, done |-> 0]
    /\ upset' = IF exists THEN upset \cup {"overlap"} ELSE upset \ {"lull"}
    /\ UNCHANGED pending

(* start_gpu_encode, under gpu_encoder_mutex; obs_encoder_start has reset   *)
(* the pause                                                                *)
Attach(e) ==
    /\ ctl[e] = "off" /\ left.start > 0 /\ e \in left.who /\ Calm
    /\ left' = [left EXCEPT !.start = @ - 1]
    /\ IF attached = {} THEN InitGpuEncoding
       ELSE UNCHANGED <<stop, exists, inactive, queue, handle, threads, owed, upset>>
    /\ attached' = attached \cup {e}
    /\ pause' = [pause EXCEPT ![e] = NoPause]
    /\ seen' = [seen EXCEPT ![e] = 0]
    /\ ctl' = [ctl EXCEPT ![e] = "attached"]
    /\ UNCHANGED <<graphics, active>>

Activate(e) ==
    /\ ctl[e] = "attached"
    /\ active' = active + 1
    /\ ctl' = [ctl EXCEPT ![e] = "on"]
    /\ UNCHANGED <<graphics, queue, inactive, exists, stop, attached, handle, threads, pause,
                   seen, owed, upset, left>>

Deactivate(e) ==
    /\ ctl[e] = "on"
    /\ active' = active - 1
    /\ ctl' = [ctl EXCEPT ![e] = "deactivated"]
    /\ UNCHANGED <<graphics, queue, inactive, exists, stop, attached, handle, threads, pause,
                   seen, owed, upset, left>>

(* da_erase_item, and whether this was the last one *)
Detach(e) ==
    /\ ctl[e] = "deactivated"
    /\ attached' = attached \ {e}
    /\ ctl' = [ctl EXCEPT ![e] = IF attached \subseteq {e} THEN "detachedLast" ELSE "detached"]
    /\ UNCHANGED <<graphics, queue, inactive, exists, stop, active, handle, threads, pause,
                   seen, owed, upset, left>>

(* mutant: the event is not waited for *)
AwaitNothing(e) ==
    /\ ctl[e] \in {"detached", "detachedLast"} /\ exists
    /\ ctl' = [ctl EXCEPT ![e] = IF @ = "detached" THEN "off" ELSE "stopThread"]
    /\ UNCHANGED <<graphics, queue, inactive, exists, stop, active, attached, handle, threads,
                   pause, seen, owed, upset, left>>

(* os_event_wait(gpu_encode_inactive) *)
AwaitInactive(e) ==
    /\ ctl[e] \in {"detached", "detachedLast"} /\ exists /\ inactive
    /\ ctl' = [ctl EXCEPT ![e] = IF @ = "detached" THEN "off" ELSE "stopThread"]
    /\ UNCHANGED <<graphics, queue, inactive, exists, stop, active, attached, handle, threads,
                   pause, seen, owed, upset, left>>

(* mutant: the thread is not woken to see the stop *)
StopThreadAsleep(e) ==
    /\ ctl[e] = "stopThread"
    /\ IF handle = NoThread THEN UNCHANGED stop ELSE stop' = TRUE
    /\ ctl' = [ctl EXCEPT ![e] = IF handle = NoThread THEN "free" ELSE "join"]
    /\ UNCHANGED <<graphics, queue, inactive, exists, active, attached, handle, threads,
                   pause, seen, owed, upset, left>>

(* stop_gpu_encoding_thread up to pthread_join *)
StopThread(e) ==
    /\ ctl[e] = "stopThread"
    /\ IF handle = NoThread
       THEN /\ ctl' = [ctl EXCEPT ![e] = "free"]
            /\ UNCHANGED <<stop, sem>>
       ELSE /\ stop' = TRUE /\ sem' = sem + 1
            /\ ctl' = [ctl EXCEPT ![e] = "join"]
    /\ UNCHANGED <<graphics, avail, pending, inactive, exists, active, attached, handle, threads,
                   pause, seen, owed, upset, left>>

Join(e) ==
    /\ ctl[e] = "join"
    /\ handle # NoThread => At(handle, "off")
    /\ handle' = NoThread
    /\ ctl' = [ctl EXCEPT ![e] = "free"]
    /\ UNCHANGED <<graphics, queue, inactive, exists, stop, active, attached, threads,
                   pause, seen, owed, upset, left>>

(* free_gpu_encoding; another encoder may still be about to wait for the event *)
Free(e) ==
    /\ ctl[e] = "free"
    /\ exists' = FALSE
    /\ avail' = 0 /\ pending' = <<>> /\ sem' = 0
    /\ ctl' = [ctl EXCEPT ![e] = "off"]
    /\ upset' = IF \E o \in Encoders : ctl[o] = "detached" THEN upset \cup {"freed"} ELSE upset
    /\ UNCHANGED <<graphics, inactive, stop, active, attached, handle, threads, pause,
                   seen, owed, left>>

Caller(e) == \/ Activate(e) \/ Detach(e) \/ AwaitInactive(e) \/ StopThread(e) \/ Join(e) \/ Free(e)

-----------------------------------------------------------------------------
(* obs_encoded_output_pause of an output with the video encoder e: the      *)
(* frame two ticks on, counted from the last one the encoder has seen.  (An *)
(* encoder that has seen none has no grid to count on, and is left out.)    *)
ClosestTs(p) == p.last + (clock - p.last + 2)

Pause(e) ==
    /\ ctl[e] = "on" /\ left.pause > 0 /\ pause[e].last # 0 /\ Calm
    /\ \/ /\ pause[e].start = 0 /\ pause[e].end = 0
          /\ pause' = [pause EXCEPT ![e].start = ClosestTs(pause[e])]
       \/ /\ pause[e].start # 0 /\ pause[e].end = 0
          /\ pause' = [pause EXCEPT ![e].end = ClosestTs(pause[e])]
    /\ left' = [left EXCEPT !.pause = @ - 1]
    /\ UNCHANGED <<graphics, queue, inactive, life, threads, seen, owed, upset>>

Next ==
    \/ Graphics
    \/ \E t \in Threads : GpuThread(t)
    \/ \E e \in Encoders : Attach(e) \/ Deactivate(e) \/ Caller(e) \/ Pause(e)

Spec == Init /\ [][Next]_vars

(* Threads run; nobody is obliged to stop an encoder or to pause it.        *)
FairSpec ==
    /\ Spec
    /\ \A t \in Threads : WF_vars(GpuThread(t))
    /\ \A e \in Encoders : WF_vars(Caller(e))

-----------------------------------------------------------------------------
InHand(t) == IF At(t, "encode") THEN 1 ELSE 0
Held(t)   == IF At(t, "encode") THEN threads[t].hand.count ELSE 0
Counts(q) == [i \in DOMAIN q |-> q[i].count]
Total(q)  == SumFunctionOnSet(Counts(q), DOMAIN q)

(* The state has the shape of struct obs_core_video_mix and of the threads. *)
TypeOK ==
    /\ clock \in Nat /\ gpc \in {"update", "output", "sleep"}
    /\ vframes \in Seq([ts : Nat, count : Nat \ {0}])
    /\ pending \in Seq([ts : Nat, count : Nat \ {0}])
    /\ avail \in Nat /\ sem \in Nat /\ active \in Int
    /\ attached \subseteq Encoders /\ handle \in Threads \cup {NoThread}
    /\ \A t \in Threads : /\ threads[t].wait \in {0, 1} /\ threads[t].busy \subseteq Encoders
                          /\ threads[t].pc \in {"off", "wait", "woken", "take", "encode", "failed",
                                                "stuck", "signal", "lost"}

(* Every texture is free, pending or in the thread's hand: none is handed   *)
(* to the graphics thread while encoders read it, and none gets lost.       *)
TexturesConserved ==
    Calm /\ exists => avail + Len(pending) + InHand("g1") + InHand("g2") = Textures

(* deque_pop_front in gpu_encode_thread does not ask whether a frame is     *)
(* there: the posts of the semaphore must match the counts of the frames,   *)
(* one tick kept in hand, also when counts are raised under way.            *)
NeverPopsEmpty == Calm => \A t \in Threads : At(t, "take") => pending # <<>>

(* No tick is lost: what was queued is finished, in hand or counted on a    *)
(* pending texture.                                                         *)
TicksConserved ==
    Calm /\ exists =>
        owed.queued = owed.done + Total(pending) + Held("g1") + Held("g2")

(* Textures, counts and posts, changed in five places under two mutexes or  *)
(* none, agree.                                                             *)
QueuesAgree == TexturesConserved /\ NeverPopsEmpty /\ TicksConserved

(* stop_gpu_encode returns only when the thread no longer uses the encoder, *)
(* which obs_encoder_shutdown destroys next: erasing it from the list and   *)
(* then waiting for the event is enough, as the thread resets the event     *)
(* before it copies the list.                                               *)
NotUsedAfterStop ==
    Calm => \A t \in Threads : \A e \in threads[t].busy : ctl[e] # "off"

(* While the graphics thread keeps up, an encoder sees every tick, in order *)
(* and once, whether its texture was repeated or fresh.  (After a lull the  *)
(* textures of before it are still queued, and are given to the encoder     *)
(* that starts next, with a gap behind them.)                               *)
TicksConsecutive ==
    [][\A e \in Encoders :
          upset = {} /\ seen[e] > 0 /\ seen'[e] > seen[e] => pause'[e].last = pause[e].last + 1]_vars

(* A pause ends on the frame stamped ts_end exactly: that frame is still to *)
(* come when obs_output_pause is told to go on, and comes.                  *)
UnpauseReached ==
    \A e \in Encoders : ctl[e] = "on" /\ pause[e].end # 0 => pause[e].last < pause[e].end

(* stop_gpu_encode returns, whatever the queue holds: as no plan has calls  *)
(* for ever, a time comes again when none is under way.                     *)
StopReturns == []<>(~Calm \/ \A e \in Encoders : ctl[e] \in {"off", "attached", "on"})

(* Every tick but the one kept in hand is encoded, until the thread stops.  *)
TicksFinished == []<>(~Calm \/ stop \/ owed.queued <= owed.done + 1)

=============================================================================
