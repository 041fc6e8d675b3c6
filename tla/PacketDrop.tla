------------------------------ MODULE PacketDrop -----------------------------
(***************************************************************************)
(* The packet queue of the RTMP output (plugins/obs-outputs/rtmp-stream.c) *)
(* under congestion: the encoders' callback adds packets, and either drops *)
(* video frames of low priority or, with dynamic bitrate, turns the        *)
(* encoder down; the send thread takes packets out at the network's pace.  *)
(* A semaphore counts the packets added.                                   *)
(*                                                                         *)
(* A packet is its place in the stream, which is also its dts; the queue   *)
(* is in the order of the stream, so it is the set of its packets and its  *)
(* front is the least.                                                     *)
(***************************************************************************)
EXTENDS Integers, FiniteSets
LOCAL INSTANCE FiniteSetsExt

CONSTANTS
    Count,        \* bound: packets of a session
    Video,        \* the packets that are video; the others are audio
    Prio,         \* drop_priority of a packet
    Refs,         \* the frames a frame is decoded from
    BThreshold,   \* drop_threshold_usec
    PThreshold,   \* pframe_drop_threshold_usec
    Trigger,      \* DBR_TRIGGER_USEC
    Few,          \* 5: with fewer packets buffered nothing is done
    Modes,        \* may dynamic bitrate be on, may it be off
    Rates,        \* bitrates the user asks of the encoder
    Estimates,    \* bitrates the network is seen to carry
    MinRate,      \* 50
    RateStep,     \* 100: an estimate is rounded down to a multiple of it
    MaxSessions   \* bound

HIGH    == 2    \* OBS_NAL_PRIORITY_HIGH
HIGHEST == 3    \* OBS_NAL_PRIORITY_HIGHEST, of keyframes

Packets == 1 .. Count

ASSUME NumbersAssumption ==
    /\ {Count, BThreshold, PThreshold, Trigger, MinRate, MaxSessions} \subseteq Nat
    /\ {RateStep, Few} \subseteq Nat \ {0} /\ Modes \subseteq BOOLEAN
    /\ \A r \in Rates : r \in Nat /\ r >= MinRate
    /\ Estimates \subseteq Nat \ {0}

(* What the priorities the encoder writes into its frames mean: no frame   *)
(* refers back, past or at a frame of a class, to a frame below the class. *)
ASSUME StreamAssumption ==
    /\ Video \subseteq Packets /\ Prio \in [Packets -> 0 .. HIGHEST]
    /\ Refs \in [Packets -> SUBSET Video]
    /\ \A n \in Video : \A r \in Refs[n] :
          /\ r < n
          /\ \A h \in {HIGH, HIGHEST} : Prio[r] < h =>
                \A m \in Video : r < m /\ m <= n => Prio[m] < h

VARIABLES
    packets,       \* packets
    minPriority,   \* min_priority
    lastDts,       \* last_dts_usec
    dropped,       \* dropped_frames
    sem,           \* send_sem
    posting,       \* a packet was added and the semaphore not yet posted
    pc,            \* where the send thread is
    hand,          \* the packet it holds
    stop,          \* the output is told to stop: now (stop_ts = 0) or later
    disconnected,  \* disconnected
    rate,          \* orig, cur, prev, est: dbr_*_bitrate;
                   \* timer: dbr_inc_timeout is set
    dynamic,       \* dbr_enabled
    next,          \* the next packet of the encoders
    sent,          \* history: packets the network took
    session        \* sessions so far

queue   == <<packets, minPriority, lastDts, dropped>>
control == <<stop, disconnected, dynamic, session>>
vars    == <<queue, sem, posting, pc, hand, control, rate, next, sent>>

(* What init_connect and init_send set; prev is left as it was *)
FreshRate(o, prev) == [orig |-> o, cur |-> o, prev |-> prev, est |-> 0, timer |-> 0]

Init ==
    /\ packets = {} /\ minPriority = 0 /\ lastDts = 0 /\ dropped = 0
    /\ sem = 0 /\ posting = FALSE
    /\ pc = "wait" /\ hand = {}
    /\ stop = "no" /\ disconnected = FALSE
    /\ \E o \in Rates : rate = FreshRate(o, 0)
    /\ dynamic \in Modes
    /\ next = 1 /\ sent = {} /\ session = 1

-----------------------------------------------------------------------------
(* The encoders' callback: rtmp_stream_data, under packets_mutex            *)

Keyframe(n) == Prio[n] = HIGHEST

(* check_to_drop_frames: the buffered video, keyframes aside, spans d *)
Delayed(S, d) ==
    LET waiting == {n \in S \cap Video : ~Keyframe(n)} IN
    /\ Cardinality(S) >= Few
    /\ waiting # {} /\ lastDts - Min(waiting) >= d

(* mutant: what is dropped is forgotten at once *)
DropFramesOnce(q, h) ==
    [packets |-> {n \in q.packets : n \in Video => Prio[n] >= h}, min |-> q.min]

(* drop_frames: audio and frames of priority h or more are kept *)
DropFrames(q, h) ==
    [packets |-> {n \in q.packets : n \in Video => Prio[n] >= h},
     min |-> IF q.min < h THEN h ELSE q.min]

(* mutant: p-frames are never dropped *)
TrimB(q) == IF Delayed(q.packets, BThreshold + 1) THEN DropFrames(q, HIGH) ELSE q

(* check_to_drop_frames for b-frames, then for p-frames *)
Trim(q) ==
    LET b == IF Delayed(q.packets, BThreshold + 1) THEN DropFrames(q, HIGH) ELSE q IN
    IF Delayed(b.packets, PThreshold + 1) THEN DropFrames(b, HIGHEST) ELSE b

Larger(a, b)  == IF a > b THEN a ELSE b
Smaller(a, b) == IF a < b THEN a ELSE b

(* mutant: the timer is not set again *)
RaisedOnce(r) ==
    [r EXCEPT !.prev = r.cur, !.timer = 0, !.cur = Smaller(r.orig, r.cur + r.orig \div 10)]

(* dbr_inc_bitrate, when dbr_inc_timeout has passed *)
Raised(r) ==
    LET up == r.cur + r.orig \div 10 IN
    [r EXCEPT !.prev = r.cur, !.cur = Smaller(r.orig, up),
              !.timer = IF up < r.orig THEN 1 ELSE 0]

(* mutant: the estimate is rounded down to nothing *)
LoweredUnfloored(r) ==
    LET new == IF r.est # 0 /\ r.est < r.cur THEN (r.est \div RateStep) * RateStep ELSE r.prev IN
    IF new = r.cur THEN r ELSE [r EXCEPT !.cur = new, !.prev = 0, !.timer = 1]

(* dbr_bitrate_lowered: to what the network carries, or back before the     *)
(* last increase                                                            *)
Lowered(r) ==
    LET new == IF r.est # 0 /\ r.est < r.cur
               THEN Larger(MinRate, (r.est \div RateStep) * RateStep) ELSE r.prev IN
    IF new \in {0, r.cur} THEN r ELSE [r EXCEPT !.cur = new, !.prev = 0, !.timer = 1]

(* The same checks with dynamic bitrate *)
Adapt(r, due) ==
    LET r1 == IF r.timer = 1 /\ due THEN Raised(r) ELSE r IN
    IF Delayed(packets, Trigger) THEN Lowered(r1) ELSE r1

(* mutant: a frame that is not let in is not counted *)
RefusedFree(ok) == 0

Refused(ok) == IF ok THEN 0 ELSE 1

(* A video frame arrives; the time may have come to raise the bitrate *)
AddVideo(due) ==
    LET q0 == [packets |-> packets, min |-> minPriority]
        q  == IF dynamic THEN q0 ELSE Trim(q0)
        ok == Prio[next] >= q.min
        lost == Cardinality(packets) - Cardinality(q.packets) IN
    /\ next \in Video
    /\ packets' = IF ok THEN q.packets \cup {next} ELSE q.packets
    /\ minPriority' = IF ok THEN 0 ELSE q.min
    /\ lastDts' = IF ok THEN next ELSE lastDts
    /\ dropped' = dropped + lost + Refused(ok)
    /\ posting' = ok
    /\ rate' = IF dynamic THEN Adapt(rate, due) ELSE rate

(* mutant: only a packet that finds the queue empty is announced *)
AddAudioQuietly ==
    /\ next \notin Video
    /\ packets' = packets \cup {next} /\ posting' = (packets = {})
    /\ UNCHANGED <<minPriority, lastDts, dropped, rate>>

AddAudio ==
    /\ next \notin Video
    /\ packets' = packets \cup {next} /\ posting' = TRUE
    /\ UNCHANGED <<minPriority, lastDts, dropped, rate>>

Deliver ==
    /\ next <= Count /\ ~posting /\ pc # "ended" /\ ~disconnected
    /\ AddAudio \/ \E due \in BOOLEAN : AddVideo(due)
    /\ next' = next + 1
    /\ UNCHANGED <<sem, pc, hand, control, sent>>

(* os_sem_post, after the mutex is released *)
Post ==
    /\ posting /\ posting' = FALSE
    /\ sem' = sem + 1
    /\ UNCHANGED <<queue, pc, hand, control, rate, next, sent>>

-----------------------------------------------------------------------------
(* The send thread                                                          *)

SendWake ==
    /\ pc = "wait" /\ sem > 0
    /\ sem' = sem - 1
    /\ pc' = IF stop = "now" THEN "close" ELSE "fetch"
    /\ UNCHANGED <<queue, posting, hand, control, rate, next, sent>>

(* get_next_packet: nothing may be left of what was announced *)
Fetch ==
    /\ pc = "fetch"
    /\ IF packets = {}
       THEN pc' = "wait" /\ UNCHANGED <<packets, hand>>
       ELSE \E first \in packets :
               /\ \A n \in packets : first <= n
               /\ pc' = "send"
               /\ hand' = {first} /\ packets' = packets \ {first}
    /\ UNCHANGED <<minPriority, lastDts, dropped, sem, posting, control, rate, next, sent>>

(* can_shutdown_stream: the packet is of the time of the stop, or later, or *)
(* the time allowed has passed                                              *)
ShutDown ==
    /\ pc = "send" /\ stop # "no"
    /\ pc' = "close" /\ hand' = {}
    /\ UNCHANGED <<queue, sem, posting, control, rate, next, sent>>

(* The network takes the packet: dbr_add_frame makes a new estimate *)
SendDone ==
    /\ pc = "send"
    /\ sent' = sent \cup hand /\ hand' = {}
    /\ pc' = "wait"
    /\ IF dynamic THEN \E e \in Estimates \cup {0} : rate' = [rate EXCEPT !.est = e]
                  ELSE UNCHANGED rate
    /\ UNCHANGED <<queue, sem, posting, control, next>>

SendFails ==
    /\ pc = "send"
    /\ disconnected' = TRUE /\ hand' = {}
    /\ pc' = "close"
    /\ UNCHANGED <<queue, sem, posting, stop, dynamic, session, rate, next, sent>>

(* "reset bitrate on stop" *)
Close ==
    /\ pc = "close" /\ pc' = "free"
    /\ rate' = IF dynamic THEN [rate EXCEPT !.cur = rate.orig] ELSE rate
    /\ UNCHANGED <<queue, sem, posting, hand, control, next, sent>>

(* free_packets; the callback may still add to the queue *)
FreePackets ==
    /\ pc = "free" /\ pc' = "ended"
    /\ packets' = {}
    /\ UNCHANGED <<minPriority, lastDts, dropped, sem, posting, hand, control, rate, next, sent>>

(* rtmp_stream_stop; a stop at once may follow a stop at a time *)
Stop(how) ==
    /\ pc # "ended"
    /\ stop = "no" \/ (stop = "later" /\ how = "now")
    /\ stop' = how
    /\ sem' = IF how = "now" THEN sem + 1 ELSE sem
    /\ UNCHANGED <<queue, posting, pc, hand, disconnected, dynamic, session, rate, next, sent>>

(* init_connect and init_send: the encoder is as it was left (a reconnect)  *)
(* or set up again by the user, and its stream starts at a keyframe         *)
Connect ==
    /\ pc = "ended" /\ ~posting /\ session < MaxSessions
    /\ session' = session + 1
    /\ packets' = {} /\ minPriority' = 0 /\ dropped' = 0
    /\ sem' = 0 /\ pc' = "wait"
    /\ stop' = "no" /\ disconnected' = FALSE
    /\ \E o \in Rates \cup {rate.cur} : rate' = FreshRate(o, rate.prev)
    /\ dynamic' \in Modes
    /\ next' = 1 /\ sent' = {}
    /\ UNCHANGED <<lastDts, posting, hand>>

-----------------------------------------------------------------------------
Next ==
    \/ Deliver \/ Post
    \/ SendWake \/ Fetch \/ ShutDown \/ SendDone \/ SendFails \/ Close \/ FreePackets
    \/ \E how \in {"now", "later"} : Stop(how)
    \/ Connect

Spec == Init /\ [][Next]_vars

-----------------------------------------------------------------------------
(* Properties                                                               *)

RateOK ==
    /\ rate \in [orig : Nat, cur : Nat, prev : Nat, est : Nat, timer : {0, 1}]
    /\ rate.orig >= MinRate /\ rate.cur >= MinRate
    /\ rate.prev # 0 => rate.prev >= MinRate

(* Every variable is of its type, the queue holds only what was encoded,    *)
(* and no bitrate falls below the least.                                    *)
TypeOK ==
    /\ packets \cup hand \cup sent \subseteq 1 .. next - 1
    /\ minPriority \in {0, HIGH, HIGHEST}
    /\ lastDts \in Nat /\ dropped \in Nat /\ sem \in Nat
    /\ posting \in BOOLEAN /\ disconnected \in BOOLEAN /\ dynamic \in BOOLEAN
    /\ pc \in {"wait", "fetch", "send", "close", "free", "ended"}
    /\ stop \in {"no", "now", "later"}
    /\ next \in 1 .. Count + 1 /\ session \in Nat
    /\ RateOK

(* Whatever is dropped and whenever, the viewer can decode every frame that *)
(* is sent: the frames it is decoded from were sent before it.  Frames are  *)
(* dropped in two places, from the middle of the queue and on arrival, and  *)
(* what holds it together is min_priority.                                  *)
SentAreDecodable == \A n \in sent \cap Video : Refs[n] \subseteq sent

(* However slow the network, the frames that may be dropped (keyframes      *)
(* aside) span no more than the larger threshold, the newest of them aside; *)
(* a handful is never dropped, whatever it spans.                           *)
BacklogBounded ==
    LET waiting == {n \in packets \cap Video : ~Keyframe(n)}
        older   == waiting \ {Max(waiting)} IN
    ~dynamic /\ Cardinality(waiting) > Few => Max(older) - Min(older) <= PThreshold

(* Until the session is closed dropped_frames is the number of frames that  *)
(* were neither sent nor are on their way.                                  *)
DroppedAccounting ==
    pc \in {"wait", "fetch", "send"} =>
        dropped = Cardinality({n \in Video : n < next} \ (packets \cup hand \cup sent))

(* Frames are dropped without taking their posts back: the semaphore may    *)
(* count too much, but no packet waits without one that wakes the thread.   *)
EnoughPosts ==
    pc \in {"wait", "fetch", "send"} =>
        Cardinality(packets) <= sem + (IF posting THEN 1 ELSE 0) + (IF pc = "fetch" THEN 1 ELSE 0)

(* "When the bitrate drops, it can take up to a few minutes to restore"     *)
(* (en-US.ini:1058): whenever it is not the bitrate asked for, an increase  *)
(* is due.                                                                  *)
RestoreIsScheduled == rate.cur # rate.orig => rate.timer = 1

=============================================================================
