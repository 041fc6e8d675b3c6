----------------------------- MODULE Interleaver -----------------------------
(* The packet interleaver of libobs/obs-output.c: encoders hand their       *)
(* packets to interleave_packets, which holds them back until audio and     *)
(* every video track have arrived, chooses the packet the stream starts     *)
(* with, moves every track to a common time 0 and sends the packets on in   *)
(* the order of their timestamps.                                           *)
(*                                                                          *)
(* A call of interleave_packets runs under interleaved_mutex and is one     *)
(* step.  Time is counted in a unit of which a video frame takes VideoTime  *)
(* and an audio frame AudioTime.  A packet's data is its serial number in   *)
(* its track.  Captions, packet callbacks, the keyframe alignment log and   *)
(* the delay are left out.                                                  *)
EXTENDS Integers, Sequences, FiniteSets, SequencesExt, FiniteSetsExt

CONSTANTS
    VideoTracks,   \* indices of the video encoders, 0 among them
    AudioTracks,   \* indices of the audio encoders
    VideoTime,     \* length of a video frame
    AudioTime,     \* length of an audio frame
    Lead,          \* pts - dts of a video packet
    Gop,           \* every Gop-th video packet of a track is a keyframe
    Origins,       \* per track, the timestamps of its packet 0: dts and system time
    MaxVideo,      \* bound: packets per video track
    MaxAudio,      \* bound: packets per audio track
    MaxSessions    \* bound: captures begun

Tracks == ({"video"} \X VideoTracks) \cup ({"audio"} \X AudioTracks)

ASSUME TrackAssumption ==
    /\ VideoTracks \subseteq Nat /\ IsFiniteSet(VideoTracks) /\ 0 \in VideoTracks
    /\ AudioTracks \subseteq Nat /\ IsFiniteSet(AudioTracks) /\ AudioTracks # {}
    /\ {VideoTime, AudioTime} \subseteq Nat \ {0} /\ Lead \in Nat /\ Gop \in Nat \ {0}
    /\ Origins \subseteq [Tracks -> [dts : Int, sys : Nat]]
    /\ {MaxVideo, MaxAudio, MaxSessions} \subseteq Nat

VARIABLES
    origin,    \* the clocks of the encoders
    next,      \* per track, the serial number of its next packet
    session,   \* how many captures have begun
    active,    \* output->active
    il,        \* the fields of the output that interleaved_mutex protects and,
               \* as a history, the packets sent since the capture began
    batch      \* interleaver_max_batch_size

vars == <<origin, next, session, active, il, batch>>

Time(type) == IF type = "video" THEN VideoTime ELSE AudioTime
SysTime(p) == origin[p.track].sys + p.n * Time(p.track[1])

(* INT64_MIN: below every timestamp                                         *)
Lowest == -1000

-----------------------------------------------------------------------------
(* Searching the queue; 0 stands for "not found".                           *)
FirstIdx(q, t) == SelectInSeq(q, LAMBDA p : p.track = t)
LastIdx(q, t)  == SelectLastInSeq(q, LAMBDA p : p.track = t)
IsVideo(p)     == p.track[1] = "video"

(* The packets of a track, in the order of the queue                        *)
OfTrack(q, t) ==
    LET upto[i \in 0 .. Len(q)] ==
            IF i = 0 THEN <<>>
            ELSE IF q[i].track = t THEN Append(upto[i - 1], q[i]) ELSE upto[i - 1]
    IN  upto[Len(q)]

AbsDiff(x, y) == IF x < y THEN y - x ELSE x - y

(* What an encoder hands over: ts is its dts in system time until the       *)
(* stream has started (send_off_encoder_packet)                             *)
Packet(t, n) ==
    LET dts == origin[t].dts + n * Time(t[1]) IN
    [track |-> t, n |-> n, key |-> t[1] = "audio" \/ n % Gop = 0, dts |-> dts,
     pts |-> IF t[1] = "video" THEN dts + Lead ELSE dts,
     ts |-> origin[t].sys + n * Time(t[1])]

-----------------------------------------------------------------------------
(* The steps of interleave_packets, as functions of the protected fields.   *)

(* mutant: the timing entries of discarded video packets stay *)
DiscardToIdx_KeepTimes(s, k) == [s EXCEPT !.queue = SubSeq(@, k + 1, Len(@))]

(* discard_to_idx: the first k packets, each video one with its timing entry *)
DiscardToIdx(s, k) ==
    [s EXCEPT !.queue = SubSeq(@, k + 1, Len(@)),
              !.times = [v \in VideoTracks |->
                  LET gone == Len(OfTrack(SubSeq(s.queue, 1, k), <<"video", v>>))
                  IN  SubSeq(@[v], gone + 1, Len(@[v]))]]

(* discard_unused_audio_packets: everything older than the video packet     *)
DiscardUnused(s, ts) ==
    LET later == SelectInSeq(s.queue, LAMBDA p : p.ts >= ts)
    IN  DiscardToIdx(s, IF later = 0 THEN Len(s.queue) ELSE later - 1)

(* mutant: the packet takes the place of the one it should precede *)
InsertPacket_Overwrite(q, p) ==
    LET i == SelectInSeq(q, LAMBDA c : p.ts < c.ts)
    IN  IF i = 0 THEN Append(q, p) ELSE [q EXCEPT ![i] = p]

(* insert_interleaved_packet *)
InsertPacket(q, p) ==
    LET before(c) ==
            \/ p.ts < c.ts
            \/ /\ p.ts = c.ts /\ IsVideo(p)
               /\ ~(IsVideo(c) /\ p.track[2] > c.track[2])
        i == SelectInSeq(q, before)
    IN  IF i = 0 THEN Append(q, p) ELSE InsertAt(q, i, p)

(* set_higher_ts *)
SetHigherTs(s, p) ==
    IF IsVideo(p)
    THEN [s EXCEPT !.highestVideo[p.track[2]] = IF @ < p.ts THEN p.ts ELSE @]
    ELSE [s EXCEPT !.highestAudio = IF @ < p.ts THEN p.ts ELSE @]

(* has_higher_opposing_ts *)
HasHigherOpposingTs(s, p) ==
    /\ \A v \in VideoTracks :
           <<"video", v>> # p.track => s.highestVideo[v] > p.ts
    /\ IsVideo(p) => s.highestAudio > p.ts

(* count_streamable_frames *)
Streamable(s) ==
    LET stuck == SelectInSeq(s.queue, LAMBDA p : ~HasHigherOpposingTs(s, p))
    IN  IF stuck = 0 THEN Len(s.queue) ELSE stuck - 1

(* apply_interleaved_packet_offset *)
ApplyOffset(s, p) ==
    [p EXCEPT !.dts = @ - s.offset[p.track], !.pts = @ - s.offset[p.track],
              !.ts = p.dts - s.offset[p.track]]

(* get_interleaved_start_idx, as a number of packets to discard             *)
StartIdx(q) ==
    LET video   == FirstIdx(q, <<"video", 0>>)
        audio   == {i \in DOMAIN q : ~IsVideo(q[i])}
        diff(i) == AbsDiff(q[i].ts, q[video].ts)
        closest == Min({i \in audio : \A j \in audio : diff(i) <= diff(j)})
        idx     == IF video < closest THEN video ELSE closest
        prime   == q[Min({i \in audio : i >= idx})].pts <= 0
        firsts  == {FirstIdx(q, <<"audio", a>>) : a \in AudioTracks} \ {0}
    IN  (IF prime THEN Min({idx} \cup firsts) ELSE idx) - 1

(* prune_premature_packets: the audio is compared with the video of track 0 *)
CanPrune(s) ==
    /\ FirstIdx(s.queue, <<"video", 0>>) # 0
    /\ \A a \in AudioTracks : FirstIdx(s.queue, <<"audio", a>>) # 0

PruneFailed(s) ==
    IF FirstIdx(s.queue, <<"video", 0>>) = 0
    THEN s ELSE [s EXCEPT !.receivedAudio = FALSE]

(* mutant: video that is far older than the audio is kept *)
PruneTo_Closest(q) == StartIdx(q)

(* prune_interleaved_packets: when the last audio track begins more than a  *)
(* frame after the video, all that has been paired so far is discarded      *)
PruneTo(q) ==
    LET video    == FirstIdx(q, <<"video", 0>>)
        firsts   == {FirstIdx(q, <<"audio", a>>) : a \in AudioTracks}
        audio    == FirstIdx(q, <<"audio", Max(AudioTracks)>>)
        duration == IF Cardinality(AudioTracks) > 1
                    THEN Max({VideoTime, AudioTime}) ELSE VideoTime
    IN  IF q[audio].ts - q[video].ts > duration
        THEN Max({video} \cup firsts) ELSE StartIdx(q)

(* get_audio_and_video_packets: the first track without a packet is to be   *)
(* received again                                                           *)
HasAllTracks(s) == \A t \in Tracks : FirstIdx(s.queue, t) # 0

(* mutant: the video flag is cleared whatever is missing *)
MarkMissing_Video(s) == [s EXCEPT !.receivedVideo = {}]

MarkMissing(s) ==
    LET missing == {v \in VideoTracks : FirstIdx(s.queue, <<"video", v>>) = 0} IN
    IF missing # {} THEN [s EXCEPT !.receivedVideo = @ \ {Min(missing)}]
                    ELSE [s EXCEPT !.receivedAudio = FALSE]

(* initialize_interleaved_packets: is there audio past the first video?     *)
AudioPastVideo(s) ==
    \A a \in AudioTracks :
        s.queue[LastIdx(s.queue, <<"audio", a>>)].ts
            >= s.queue[FirstIdx(s.queue, <<"video", 0>>)].ts

(* the new offsets, and the highest audio timestamp moved along with them   *)
NewOffsets(s) ==
    LET first(t) == s.queue[FirstIdx(s.queue, t)] IN
    [s EXCEPT
        !.offset = [t \in Tracks |->
            IF t[1] = "video" THEN first(t).pts
            ELSE IF first(t).dts > 0 THEN first(t).dts ELSE s.offset[t]],
        !.highestAudio = @ - first(<<"audio", Min(AudioTracks)>>).ts]

(* mutant: the packets keep the order they had by system time *)
Resort_Never(s) == FoldLeft(SetHigherTs, s, s.queue)

(* resort_interleaved_packets: from the old queue to an empty one *)
Resort(s) ==
    LET Moved(z, p) == [SetHigherTs(z, p) EXCEPT !.queue = InsertPacket(@, p)]
        after[i \in 0 .. Len(s.queue)] ==
            IF i = 0 THEN [s EXCEPT !.queue = <<>>] ELSE Moved(after[i - 1], s.queue[i])
    IN  after[Len(s.queue)]

(* the end of initialize_interleaved_packets, and apply_ept_offsets         *)
ApplyOffsets(s) ==
    [s EXCEPT !.queue = [i \in DOMAIN @ |-> ApplyOffset(s, @[i])],
              !.times = [v \in VideoTracks |->
                  [i \in DOMAIN @[v] |-> @[v][i] - s.offset[<<"video", v>>]]]]

(* send_interleaved; times loses the entry with the packet's pts            *)
SendFirst(s) ==
    LET p == Head(s.queue)
        t == [s EXCEPT !.queue = Tail(@), !.sent = Append(@, p)]
    IN  IF IsVideo(p)
        THEN [t EXCEPT !.times[p.track[2]] = RemoveFirst(@, p.pts)]
        ELSE t

(* the first packets: prune, initialize, resort, send                       *)
StartStream(s) ==
    LET pruned  == DiscardToIdx(s, PruneTo(s.queue))
        trimmed == DiscardToIdx(pruned, StartIdx(pruned.queue))
    IN  IF ~CanPrune(s) THEN PruneFailed(s)
        ELSE IF ~HasAllTracks(pruned) THEN MarkMissing(pruned)
        ELSE IF ~AudioPastVideo(pruned) THEN [pruned EXCEPT !.receivedAudio = FALSE]
        ELSE IF ~HasAllTracks(trimmed) THEN MarkMissing(trimmed)
        ELSE SendFirst(Resort(ApplyOffsets(NewOffsets(trimmed))))

(* the later packets: one is sent for each that arrives, two if more are    *)
(* waiting than the limit allows                                            *)
SendStreamable(s) ==
    CASE Streamable(s) = 0         -> s
      [] Streamable(s) - 1 > batch -> SendFirst(SendFirst(s))
      [] OTHER                     -> SendFirst(s)

-----------------------------------------------------------------------------
Started(s) == s.receivedAudio /\ s.receivedVideo = VideoTracks

(* interleave_packets *)
InterleavePacket(s, p) ==
    LET shifted == IF Started(s) THEN ApplyOffset(s, p) ELSE p
        timed   == IF IsVideo(p)
                   THEN [s EXCEPT !.times[p.track[2]] = Append(@, shifted.pts)] ELSE s
        checked == CASE Started(s) -> timed
                     [] ~Started(s) /\ IsVideo(p)
                          -> [timed EXCEPT !.receivedVideo = @ \cup {p.track[2]}]
                     [] OTHER -> [timed EXCEPT !.receivedAudio = TRUE]
        queued  == [checked EXCEPT !.queue = InsertPacket(@, shifted)]
    IN  IF IsVideo(p) /\ p.track[2] \notin s.receivedVideo /\ ~p.key
        THEN DiscardUnused(s, p.ts)
        ELSE IF Started(s) THEN SendStreamable(SetHigherTs(queued, shifted))
        ELSE IF ~Started(queued) THEN queued
        ELSE StartStream(queued)

(* reset_packet_data *)
ResetPacketData ==
    [receivedAudio |-> FALSE, receivedVideo |-> {},
     highestAudio |-> 0, highestVideo |-> [v \in VideoTracks |-> Lowest],
     offset |-> [t \in Tracks |-> 0], times |-> [v \in VideoTracks |-> <<>>],
     queue |-> <<>>, sent |-> <<>>]

(* calculate_batch_size: what fits into twice the largest interval          *)
BatchSize ==
    LET largest == Max({VideoTime, AudioTime}) IN
    Cardinality(VideoTracks) * ((largest * 2) \div VideoTime)
    + Cardinality(AudioTracks) * ((largest * 2) \div AudioTime)

Init ==
    /\ origin \in Origins
    /\ next = [t \in Tracks |-> 0]
    /\ session = 0 /\ active = FALSE
    /\ il = ResetPacketData /\ batch = 0

(* obs_output_begin_data_capture; the limit is added to the last one        *)
BeginCapture ==
    /\ ~active /\ session < MaxSessions
    /\ session' = session + 1 /\ active' = TRUE
    /\ il' = ResetPacketData
    /\ batch' = batch + BatchSize
    /\ UNCHANGED <<origin, next>>

EndCapture ==
    /\ active /\ session < MaxSessions
    /\ active' = FALSE
    /\ UNCHANGED <<origin, next, session, il, batch>>

(* An encoder's thread calls interleave_packets.  All audio encoders run on *)
(* the audio thread, in the order of their tracks, a frame each.            *)
AudioTurn(a) == \A b \in AudioTracks \ {a} :
    next[<<"audio", b>>] = next[<<"audio", a>>] + (IF b < a THEN 1 ELSE 0)

Deliver(t) ==
    /\ next[t] < IF t[1] = "video" THEN MaxVideo ELSE MaxAudio
    /\ t[1] = "audio" => AudioTurn(t[2])
    /\ next' = [next EXCEPT ![t] = @ + 1]
    /\ il' = IF active THEN InterleavePacket(il, Packet(t, next[t])) ELSE il
    /\ UNCHANGED <<origin, session, active, batch>>

Next == BeginCapture \/ EndCapture \/ \E t \in Tracks : Deliver(t)

Spec == Init /\ [][Next]_vars

-----------------------------------------------------------------------------
(* Properties                                                               *)

PacketType == [track : Tracks, n : Nat, key : BOOLEAN, dts : Int, pts : Int, ts : Int]

TypeOK ==
    /\ next \in [Tracks -> Nat] /\ session \in 0 .. MaxSessions
    /\ active \in BOOLEAN /\ batch \in Nat
    /\ il.receivedAudio \in BOOLEAN /\ il.receivedVideo \subseteq VideoTracks
    /\ il.highestAudio \in Int /\ il.highestVideo \in [VideoTracks -> Int]
    /\ il.offset \in [Tracks -> Int] /\ il.times \in [VideoTracks -> Seq(Int)]
    /\ il.queue \in Seq(PacketType) /\ il.sent \in Seq(PacketType)
    /\ \A i \in DOMAIN il.queue :
           IsVideo(il.queue[i]) => il.queue[i].track[2] \in il.receivedVideo

(* The packets of a track that were sent or wait to be.                     *)
Kept(t) == OfTrack(il.sent \o il.queue, t)

(* interleave_packets: the output gets its packets in timestamp order, even *)
(* though the first one is sent without looking at the other tracks and     *)
(* the offsets change what the timestamps mean.                             *)
MonotonicDelivery ==
    \A i \in DOMAIN il.sent : i > 1 => il.sent[i - 1].ts <= il.sent[i].ts

(* interleave_packets, discard_to_idx: packets are dropped only before the  *)
(* stream starts: from each track's first one on, all are sent or queued.   *)
NoGaps ==
    il.sent # <<>> /\ active =>
        \A t \in Tracks :
            /\ Kept(t) # <<>>
            /\ \A i \in DOMAIN Kept(t) : Kept(t)[i].n = next[t] - Len(Kept(t)) + i - 1

(* send_interleaved: every queued video packet finds its own timing entry,  *)
(* whatever was discarded, reordered or moved by the offsets before.        *)
TimesMatch ==
    \A v \in VideoTracks :
        il.times[v] = LET p == OfTrack(il.queue, <<"video", v>>)
                      IN  [i \in DOMAIN p |-> p[i].pts]

(* apply_interleaved_packet_offset: "audio and video need to start at       *)
(* timestamp 0": every track's first packet is at 0, or a priming one.      *)
StartsAtZero ==
    il.sent # <<>> => \A t \in Tracks :
        Kept(t) # <<>> => LET p == Kept(t)[1] IN p.pts = 0 \/ (~IsVideo(p) /\ p.pts < 0)

(* prune_interleaved_packets, get_interleaved_start_idx: moving each track  *)
(* to time 0 shifts audio against video by less than a frame.               *)
LipSync ==
    il.sent # <<>> => \A v \in VideoTracks, a \in AudioTracks :
        LET shift(t) == SysTime(Kept(t)[1]) - Kept(t)[1].pts IN
        AbsDiff(shift(<<"video", v>>), shift(<<"audio", a>>)) <= Max({VideoTime, AudioTime})

(* initialize_interleaved_packets: when packets leave, every track has been *)
(* moved to time 0, and all by nearly the same amount.                      *)
StartTogether == StartsAtZero /\ LipSync

=============================================================================
