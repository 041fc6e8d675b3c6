------------------------------ MODULE TickStream ------------------------------
(***************************************************************************)
(* What a raw video output promises its inputs: a stream of ticks.  Each   *)
(* tick handed over is delivered once, in the order of the timestamps,     *)
(* stamped no later than the newest tick, and the stream keeps moving      *)
(* until it is stopped.  No ring, no lock, no semaphore.                   *)
(***************************************************************************)
EXTENDS Integers

CONSTANTS MaxTick, MaxCount

VARIABLES clock, produced, delivered, shown, stop

vars == <<clock, produced, delivered, shown, stop>>

Init == clock = 0 /\ produced = 0 /\ delivered = 0 /\ shown = -1 /\ stop = FALSE

Produce(count) ==
    /\ clock + count <= MaxTick
    /\ clock' = clock + count
    /\ produced' = produced + count
    /\ UNCHANGED <<delivered, shown, stop>>

Idle ==
    /\ clock < MaxTick
    /\ clock' = clock + 1
    /\ UNCHANGED <<produced, delivered, shown, stop>>

Deliver ==
    /\ delivered < produced
    /\ delivered' = delivered + 1
    /\ shown' \in shown + 1 .. clock - 1
    /\ UNCHANGED <<clock, produced, stop>>

Stop ==
    /\ ~stop
    /\ stop' = TRUE
    /\ UNCHANGED <<clock, produced, delivered, shown>>

Next == (\E count \in 1 .. MaxCount : Produce(count)) \/ Idle \/ Deliver \/ Stop

Safety == Init /\ [][Next]_vars

Spec == Safety /\ WF_vars(Deliver /\ ~stop)

=============================================================================
