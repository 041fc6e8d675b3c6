----------------------------- MODULE AsyncFrames -----------------------------
(***************************************************************************)
(* The video frames of an asynchronous source (libobs/obs-source.c): a     *)
(* capture thread copies frames into a cache of reference-counted slots    *)
(* and queues them; every tick the graphics thread takes the frame whose   *)
(* time has come, passes it through the filters and renders it.  The       *)
(* filter modelled is the video delay (obs-filters/async-delay-filter.c),  *)
(* which keeps frames for several ticks.                                   *)
(*                                                                         *)
(* async_mutex makes each action atomic; the copy into the slot and the    *)
(* rendering of a frame go on without it.                                  *)
(***************************************************************************)
EXTENDS Integers, Sequences, FiniteSets, Functions

CONSTANTS
    Frames,      \* the heap: frames that obs_source_frame_create may return
    None,        \* a null pointer
    Sizes,       \* frame sizes the source may deliver
    NoSize,      \* async_cache_width before the first frame
    MaxAsync,    \* MAX_ASYNC_FRAMES
    MaxUnused,   \* MAX_UNUSED_FRAME_DURATION
    MaxVar,      \* MAX_TS_VAR
    Smooth,      \* 2000000 in ready_async_frame
    Mod,         \* 2^64, the width of a timestamp
    Lapses,      \* times between two ticks
    Steps,       \* differences between the timestamps of two frames, modulo Mod
    Modes,       \* async_unbuffered, chosen at the start
    Delays,      \* settings of the delay filter; {} if the source has no filter
    MaxJump,     \* SEC_TO_NSEC in is_timestamp_jump
    MaxSent      \* bound: frames the source delivers

ASSUME NoneAssumption == None \notin Frames
ASSUME NumberAssumption ==
    /\ {MaxAsync, MaxUnused, Mod} \subseteq Nat \ {0}
    /\ {MaxVar, Smooth, MaxJump, MaxSent} \subseteq Nat
    /\ Lapses \subseteq Nat /\ Steps \subseteq Nat /\ Delays \subseteq Nat
ASSUME ModeAssumption == Modes \subseteq BOOLEAN

VARIABLES
    alive,       \* frames that are allocated
    refs,        \* refs of each frame
    ts,          \* timestamp of each frame
    cache,       \* frames in async_cache
    used,        \* those with the used flag
    unused,      \* unused_count of each
    size,        \* async_cache_width and height
    queue,       \* async_frames
    cur,         \* cur_async_frame
    lastTs,      \* last_frame_ts
    unbuffered,  \* async_unbuffered
    output,      \* output of obs_source_output_video_internal: the copy's target
    stamp,       \* timestamp of the frame being delivered
    held,        \* the frame between obs_source_get_frame and _release_frame
    filter,      \* the delay filter: its frames and its private data
    leaving,     \* frames of a removed filter that are not released yet
    sent,        \* history: frames the source has delivered
    no,          \* history: the number of the delivery in each frame
    shown        \* history: the number of the frame rendered last

heap    == <<alive, refs>>
slots   == <<cache, used, unused, size>>
pending == <<queue, cur, lastTs>>
capture == <<output, stamp, sent>>
content == <<ts, no>>
delay   == <<filter, leaving>>
render  == <<held, shown>>
vars    == <<heap, slots, pending, capture, content, delay, render, unbuffered>>

Sub(x, y) == (x - y) % Mod

NoFilter == [on |-> FALSE, frames |-> <<>>, delay |-> 0, reached |-> FALSE,
             reset |-> FALSE, last |-> 0]

-----------------------------------------------------------------------------
(* obs_source_create_internal *)
Init ==
    /\ alive = {} /\ refs = [f \in Frames |-> 0]
    /\ cache = {} /\ used = {} /\ unused = [f \in Frames |-> 0] /\ size = NoSize
    /\ queue = <<>> /\ cur = None /\ lastTs = 0
    /\ unbuffered \in Modes
    /\ output = None /\ stamp = 1 % Mod /\ sent = 0
    /\ ts = [f \in Frames |-> 0] /\ no = [f \in Frames |-> 0]
    /\ filter = NoFilter /\ leaving = <<>>
    /\ held = None /\ shown = 0

-----------------------------------------------------------------------------
(* Reference counts. *)

(* obs_source_frame_decref of every frame in the set *)
Decref(set, count) == [f \in Frames |-> IF f \in set THEN count[f] - 1 ELSE count[f]]
Dropped(set, count) == {f \in set : count[f] = 1}

(* obs_source_release_frame, also remove_async_frame of what is left *)
Release(set) ==
    /\ refs' = Decref(set, refs)
    /\ alive' = alive \ Dropped(set, refs)
    /\ used' = used \ set

-----------------------------------------------------------------------------
(* The capture thread. *)

(* free_async_cache *)
FreeAsyncCache ==
    /\ refs' = Decref(cache, refs)
    /\ alive' = alive \ Dropped(cache, refs)
    /\ cache' = {} /\ used' = {}
    /\ queue' = <<>> /\ cur' = None

(* cache_video with the queue at its limit: all is thrown away, the frame too *)
Overflow ==
    /\ Len(queue) >= MaxAsync
    /\ FreeAsyncCache
    /\ lastTs' = 0
    /\ UNCHANGED <<unused, size, output>>

Idle == cache \ used
(* clean_cache *)
Expired(f) == f \in Idle /\ unused[f] + 1 = MaxUnused
Counted(but) == [f \in Frames |-> IF f \in Idle \ {but} THEN unused[f] + 1 ELSE unused[f]]

(* mutant: the slot is taken before clean_cache has looked at it *)
ReuseUnmarked(f) ==
    /\ f \in Idle
    /\ cache' = cache \ {g \in Idle : Expired(g)}
    /\ alive' = alive \ {g \in Idle : Expired(g)}
    /\ used' = (used \cup {f}) \ {g \in Idle : Expired(g)}
    /\ unused' = [Counted(f) EXCEPT ![f] = 0]
    /\ refs' = [refs EXCEPT ![f] = @ + 1]
    /\ output' = f

(* an unused slot is taken again *)
Reuse(f) ==
    /\ f \in Idle
    /\ cache' = cache \ {g \in Idle \ {f} : Expired(g)}
    /\ alive' = alive \ {g \in Idle \ {f} : Expired(g)}
    /\ used' = used \cup {f}
    /\ unused' = [Counted(f) EXCEPT ![f] = 0]
    /\ refs' = [refs EXCEPT ![f] = @ + 1]
    /\ output' = f

Fresh == CHOOSE f \in Frames : f \notin alive

(* obs_source_frame_create: every slot is in use *)
Create ==
    /\ Idle = {}
    /\ \E f \in Frames : f \notin alive
    /\ cache' = cache \cup {Fresh}
    /\ alive' = alive \cup {Fresh}
    /\ used' = used \cup {Fresh}
    /\ unused' = [unused EXCEPT ![Fresh] = 0]
    /\ refs' = [refs EXCEPT ![Fresh] = 2]
    /\ output' = Fresh

(* async_texture_changed: the old slots go, a first new one is created *)
CreateResized(z) ==
    /\ z # size
    /\ \E f \in Frames : f \notin alive
    /\ cache' = {Fresh}
    /\ alive' = (alive \ Dropped(cache, refs)) \cup {Fresh}
    /\ used' = {Fresh}
    /\ unused' = [unused EXCEPT ![Fresh] = 0]
    /\ refs' = [Decref(cache, refs) EXCEPT ![Fresh] = 2]
    /\ output' = Fresh
    /\ queue' = <<>> /\ cur' = None

(* mutant: the limit is not tested *)
CacheVideoAlways(z) ==
    /\ \/ z = size /\ (Create \/ \E f \in Frames : Reuse(f)) /\ UNCHANGED <<queue, cur>>
       \/ CreateResized(z)
    /\ size' = z
    /\ UNCHANGED lastTs

(* cache_video, up to the copy *)
CacheVideo(z) ==
    /\ Len(queue) < MaxAsync
    /\ \/ z = size /\ (Create \/ \E f \in Frames : Reuse(f)) /\ UNCHANGED <<queue, cur>>
       \/ CreateResized(z)
    /\ size' = z
    /\ UNCHANGED lastTs

(* obs_source_output_video_internal *)
OutputVideo(z, step) ==
    /\ output = None
    /\ sent < MaxSent
    /\ sent' = sent + 1
    /\ stamp' = (stamp + step) % Mod
    /\ Overflow \/ CacheVideo(z)
    /\ UNCHANGED <<unbuffered, content, delay, render>>

(* the second section under async_mutex, after copy_frame_data *)
Push ==
    /\ output # None
    /\ ts' = [ts EXCEPT ![output] = stamp]
    /\ no' = [no EXCEPT ![output] = sent]
    /\ refs' = [refs EXCEPT ![output] = @ - 1]
    /\ IF refs[output] = 1   \* the cache was freed meanwhile
       THEN alive' = alive \ {output} /\ UNCHANGED queue
       ELSE queue' = Append(queue, output) /\ UNCHANGED alive
    /\ output' = None
    /\ UNCHANGED <<slots, cur, lastTs, unbuffered, stamp, sent, delay, render>>

(* obs_source_output_video with no frame, from any thread *)
OutputNothing ==
    /\ FreeAsyncCache
    /\ lastTs' = 0
    /\ UNCHANGED <<unused, size, unbuffered, capture, content, delay, render>>

-----------------------------------------------------------------------------
(* The graphics thread. *)

(* frame_out_of_bounds *)
OutOfBounds(t) == t - lastTs > MaxVar \/ lastTs - t > MaxVar

Time(k) == ts[queue[k]]

(* The loop of ready_async_frame: k is next_frame, k - 1 the frame before  *)
(* it, offset frame_offset.  Gives the frame to show and last_frame_ts;    *)
(* frame 0 if none is ready.                                               *)
Scan[k \in Nat \ {0}, last \in Nat, offset \in Nat] ==
    IF last <= Time(k) \/ (k > 1 /\ last - Time(k) < Smooth) THEN [head |-> k - 1, last |-> last]
    ELSE IF k = Len(queue) THEN [head |-> k, last |-> last]
    ELSE LET kept == IF Sub(Time(k + 1), Time(k)) > MaxVar
                     THEN Sub(Time(k + 1), offset) ELSE last
         IN  Scan[k + 1, kept, Sub(Time(k + 1), kept)]

(* mutant: the time since the last tick is forgotten *)
ClosestStandstill(lapse) ==
    IF queue = <<>> THEN [head |-> 0, last |-> lastTs]
    ELSE IF lastTs = 0 THEN [head |-> 1, last |-> Time(1)]
    ELSE Scan[1, lastTs, Sub(Time(1), lastTs)]

(* get_closest_frame, ready_async_frame: the frame to show, and last_frame_ts *)
Closest(lapse) ==
    IF queue = <<>> THEN [head |-> 0, last |-> lastTs]
    ELSE IF lastTs = 0 THEN [head |-> 1, last |-> Time(1)]
    ELSE IF unbuffered THEN [head |-> Len(queue), last |-> Time(Len(queue))]
    ELSE IF OutOfBounds(Time(1)) THEN [head |-> 1, last |-> Time(1)]
    ELSE Scan[1, (lastTs + lapse) % Mod, Sub(Time(1), lastTs)]

(* mutant: a frame that was not rendered keeps its slot *)
SkippedLate(head) == {queue[k] : k \in 1 .. head - 1}

(* frames before the one to show, and the one that was not rendered *)
Skipped(head) == {queue[k] : k \in 1 .. head - 1} \cup ({cur} \ {None})

(* mutant: only the first of the frames passed is taken out *)
RestOfAll(head) == SubSeq(queue, IF head = 0 THEN 1 ELSE 2, Len(queue))

(* da_erase of them, and of the one to show *)
Rest(head) == SubSeq(queue, head + 1, Len(queue))

(* is_timestamp_jump *)
Jumps(f) == ts[f] < filter.last \/ ts[f] - filter.last > MaxJump
(* async_delay_filter_video gives up what it holds *)
Restarts(f) == filter.reset \/ Jumps(f)
Kept(f) == IF Restarts(f) THEN <<f>> ELSE Append(filter.frames, f)

Reached(f) == \/ filter.reached /\ ~Restarts(f)
              \/ Sub(ts[f], ts[Head(Kept(f))]) >= filter.delay
Given(f) == IF Restarts(f) THEN Range(filter.frames) ELSE {}

(* filter_frame with the delay filter: f goes in, an older frame comes out *)
FilterFrame(f, gone) ==
    LET out == Head(Kept(f))
        counted == [Decref(Given(f), refs) EXCEPT ![f] = @ + 1]
    IN
    /\ filter' = [filter EXCEPT !.frames = IF Reached(f) THEN Tail(Kept(f)) ELSE Kept(f),
                                !.reached = Reached(f), !.reset = FALSE, !.last = ts[f]]
    /\ cur' = IF Reached(f) THEN out ELSE None
    /\ refs' = IF Reached(f) THEN [counted EXCEPT ![out] = @ - 1] ELSE counted
    /\ alive' = alive \ Dropped(Given(f), refs)
    /\ used' = used \ (gone \cup Given(f))

(* async_tick *)
Tick(lapse) ==
    /\ held = None
    /\ lastTs' = Closest(lapse).last
    /\ \E head \in 0 .. Len(queue) :
       /\ head = Closest(lapse).head
       /\ queue' = Rest(head)
       /\ \/ /\ head > 0 /\ filter.on
             /\ FilterFrame(queue[head], Skipped(head))
          \/ /\ head = 0 \/ ~filter.on
             /\ cur' = IF head = 0 THEN None ELSE queue[head]
             /\ used' = used \ Skipped(head)
             /\ UNCHANGED <<heap, filter>>
    /\ UNCHANGED <<cache, unused, size, unbuffered, capture, content, leaving, render>>

(* mutant: the frame stays the current one while it is rendered *)
GetFrameShared ==
    /\ held = None /\ cur # None
    /\ held' = cur
    /\ refs' = [refs EXCEPT ![cur] = @ + 1]
    /\ shown' = no[cur]
    /\ UNCHANGED <<alive, slots, queue, cur, lastTs, unbuffered, capture, content, delay>>

(* obs_source_get_frame *)
GetFrame ==
    /\ held = None /\ cur # None
    /\ held' = cur
    /\ cur' = None
    /\ refs' = [refs EXCEPT ![cur] = @ + 1]
    /\ shown' = no[cur]
    /\ UNCHANGED <<alive, slots, queue, lastTs, unbuffered, capture, content, delay>>

(* obs_source_release_frame *)
ReleaseFrame ==
    /\ held # None
    /\ Release({held})
    /\ held' = None
    /\ UNCHANGED <<cache, unused, size, pending, unbuffered, capture, content, delay, shown>>

-----------------------------------------------------------------------------
(* The delay filter. *)

(* obs_source_filter_add of a new filter *)
FilterAdd(d) ==
    /\ ~filter.on /\ leaving = <<>>
    /\ filter' = [NoFilter EXCEPT !.on = TRUE, !.delay = d, !.reset = TRUE]
    /\ UNCHANGED <<heap, slots, pending, unbuffered, capture, content, leaving, render>>

(* async_delay_filter_update, on the graphics thread *)
FilterUpdate(d) ==
    /\ filter.on /\ held = None
    /\ IF d < filter.delay THEN Release(Range(filter.frames)) ELSE UNCHANGED <<heap, used>>
    /\ filter' = [filter EXCEPT !.delay = d, !.reset = TRUE, !.reached = FALSE,
                                !.frames = IF d < filter.delay THEN <<>> ELSE @]
    /\ UNCHANGED <<cache, unused, size, pending, unbuffered, capture, content, leaving, render>>

(* obs_source_filter_remove takes the filter out of the list ... *)
FilterRemove ==
    /\ filter.on
    /\ leaving' = filter.frames
    /\ filter' = NoFilter
    /\ UNCHANGED <<heap, slots, pending, unbuffered, capture, content, render>>

(* ... and async_delay_filter_remove releases its frames one by one *)
FilterRelease ==
    /\ leaving # <<>>
    /\ Release({Head(leaving)})
    /\ leaving' = Tail(leaving)
    /\ UNCHANGED <<cache, unused, size, pending, unbuffered, capture, content, filter, render>>

-----------------------------------------------------------------------------
Graphics == (\E lapse \in Lapses : Tick(lapse)) \/ ReleaseFrame

Next ==
    \/ \E z \in Sizes, step \in Steps : OutputVideo(z, step)
    \/ Push
    \/ OutputNothing
    \/ \E lapse \in Lapses : Tick(lapse)
    \/ GetFrame
    \/ ReleaseFrame
    \/ \E d \in Delays : FilterAdd(d)
    \/ \E d \in Delays : FilterUpdate(d)
    \/ FilterRemove
    \/ FilterRelease

Spec == Init /\ [][Next]_vars

(* The graphics thread ticks every source on every frame and releases what *)
(* it renders.                                                             *)
FairSpec == Spec /\ WF_vars(Graphics)

-----------------------------------------------------------------------------
One(f) == {f} \ {None}
(* who works with a frame outside the cache, each with a reference of its own *)
Owned == One(output) \cup One(held) \cup Range(filter.frames) \cup Range(leaving)
(* and who has the pointer without one *)
Waiting == Range(queue) \cup One(cur)

(* Type invariant; no frame is queued, or kept by the filter, twice. *)
TypeOK ==
    /\ alive \subseteq Frames /\ refs \in [Frames -> Nat] /\ ts \in [Frames -> Nat]
    /\ cache \subseteq alive /\ used \subseteq cache
    /\ unused \in [Frames -> 0 .. MaxUnused]
    /\ queue \in Seq(Frames) /\ Len(queue) <= MaxAsync /\ IsInjective(queue)
    /\ {cur, output, held} \subseteq Frames \cup {None}
    /\ filter \in [on : BOOLEAN, frames : Seq(Frames), delay : Nat, reached : BOOLEAN,
                   reset : BOOLEAN, last : Nat]
    /\ IsInjective(filter.frames)
    /\ leaving \in Seq(Frames) /\ IsInjective(leaving)

Ones(f, set) == IF f \in set THEN 1 ELSE 0

(* Every pointer somebody still follows is to a frame that is allocated,   *)
(* and its count is the number of its owners, although the cache may be    *)
(* freed by another thread while a frame is copied, filtered or rendered.  *)
RefsAreOwners ==
    /\ Owned \cup Waiting \subseteq alive
    /\ \A f \in alive : refs[f] = Ones(f, cache) + Ones(f, Owned)

(* The capture thread copies into a frame without the lock: nobody else    *)
(* has that frame in the queue, as the current one, in the filter or on    *)
(* the screen.                                                             *)
ExclusiveCopy ==
    output # None =>
        output \notin Waiting \cup One(held) \cup Range(filter.frames) \cup Range(leaving)

(* A slot is marked used exactly while somebody has its frame: it is never *)
(* lost for reuse, and never reused or freed under a user's hands.         *)
UsedWhileNeeded == used = cache \cap (Owned \cup Waiting)

(* Frames are rendered in the order in which the source delivered them and *)
(* at most once, through jumps of the clock, the filter, its removal and   *)
(* freed caches.                                                           *)
ShownInOrder == [][held = None /\ held' # None => no[held'] > shown]_vars

(* A frame does not wait in the queue for ever: the clock of the source,   *)
(* wherever a jump has put it, comes to it or past it.                     *)
QueueMoves ==
    \A n \in 1 .. MaxSent :
        (n \in {no[f] : f \in Range(queue)}) ~> (n \notin {no[f] : f \in Range(queue)})

=============================================================================
