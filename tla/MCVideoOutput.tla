---------------------------- MODULE MCVideoOutput ----------------------------
(* Instances of VideoOutput for TLC: the inputs are model values.           *)
EXTENDS VideoOutput

CONSTANTS a, b

OneInput    == {a}
TwoInputs   == {a, b}
JustOne     == {1}
JustTwo     == {2}

=============================================================================
