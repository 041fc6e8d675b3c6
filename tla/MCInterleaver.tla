--------------------------- MODULE MCInterleaver ---------------------------
(* Instances of Interleaver for TLC: the tracks and the encoders' clocks.   *)
EXTENDS Interleaver

OneTrack  == {0}

(* Video encoders that begin with the capture or run already; audio that    *)
(* begins with a priming frame, or runs and is out of phase with the video. *)
VideoClocks == {[dts |-> -Lead, sys |-> 100], [dts |-> 20, sys |-> 101]}
AudioClocks == {[dts |-> -AudioTime, sys |-> 100],
                [dts |-> 7, sys |-> 98], [dts |-> 7, sys |-> 103]}

AnyClocks == {o \in [Tracks -> VideoClocks \cup AudioClocks] :
    \A t \in Tracks : o[t] \in IF t[1] = "video" THEN VideoClocks ELSE AudioClocks}

============================================================================
