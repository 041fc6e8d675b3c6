--------------------------- MODULE MCTextureEncode ---------------------------
(* Instances of TextureEncode for TLC: the encoders are model values.       *)
EXTENDS TextureEncode

CONSTANTS a, b

TwoEncoders == {a, b}

Plan(tick, lag, who, start, pauses, fail) ==
    [tick |-> tick, lag |-> lag, who |-> who, start |-> start, pause |-> pauses, fail |-> fail]

(* encoders come and go, one fails *)
Sharing == Plan(3, 2, {a, b}, 2, 0, 1)

(* one starts while the other one is being stopped, with ticks still queued *)
Handover == Plan(5, 1, {a, b}, 2, 0, 0)

(* one encoder is paused and goes on; lag: the graphics thread may be late   *)
Pausing(tick, lag) == Plan(tick, lag, {a}, 1, 2, 0)

QueuePlans == {Sharing, Handover, Pausing(6, 1)}
PausePlan  == {Pausing(7, 2)}

=============================================================================
