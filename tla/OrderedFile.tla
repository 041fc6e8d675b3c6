----------------------------- MODULE OrderedFile -----------------------------
(***************************************************************************)
(* What a buffered file promises its writer: bytes reach the file in the   *)
(* order they were written, each at the position the writer was at, and    *)
(* once it is closed none is missing.  No chunk, no seek, no thread.       *)
(***************************************************************************)
EXTENDS Integers, Sequences

CONSTANT Positions    \* of the file

VARIABLES
    file,      \* the byte at each position, 0 where nothing was written
    owed,      \* what is left of the write under way
    at,        \* where the next byte goes
    pending,   \* bytes accepted and not yet in the file, with their positions
    open,      \* the file is open
    broken     \* a write to the file has failed

vars == <<file, owed, at, pending, open, broken>>

(* The file after the bytes of s were put into it one by one: at a position *)
(* the last of those for it remains                                        *)
Last(s, p) == CHOOSE i \in DOMAIN s : s[i].pos = p /\ \A j \in DOMAIN s : s[j].pos = p => j <= i

Put(f, s) == [p \in DOMAIN f |-> IF \E i \in DOMAIN s : s[i].pos = p
                                 THEN s[Last(s, p)].byte ELSE f[p]]

Init == /\ file = [p \in Positions |-> 0]
        /\ owed = <<>> /\ at = 0 /\ pending = <<>>
        /\ open = TRUE /\ broken = FALSE

(* The writer asks for some bytes to be written, or moves, between writes *)
Begin ==
    /\ open /\ owed = <<>> /\ owed' # <<>>
    /\ UNCHANGED <<file, at, pending, open, broken>>

Move ==
    /\ open /\ owed = <<>> /\ at' \in Positions
    /\ UNCHANGED <<file, owed, pending, open, broken>>

Accept ==
    \E n \in 1 .. Len(owed) :
        /\ owed' = SubSeq(owed, n + 1, Len(owed))
        /\ at' = at + n
        /\ UNCHANGED <<file, open, broken>>
        /\ pending' = pending \o [i \in 1 .. n |-> [pos |-> at + i - 1, byte |-> owed[i]]]

Refuse ==
    /\ broken /\ owed' = <<>>
    /\ UNCHANGED <<file, at, pending, open, broken>>

Commit ==
    /\ ~broken
    /\ UNCHANGED <<owed, at, open, broken>>
    /\ \E n \in 1 .. Len(pending) :
          /\ pending' = SubSeq(pending, n + 1, Len(pending))
          /\ file' = Put(file, SubSeq(pending, 1, n))

(* A failure leaves some of the next bytes in the file, and nothing follows *)
Fail ==
    /\ ~broken /\ broken' = TRUE
    /\ \E n \in 0 .. Len(pending) : file' = Put(file, SubSeq(pending, 1, n))
    /\ UNCHANGED <<owed, at, pending, open>>

Close ==
    /\ open /\ open' = FALSE /\ owed = <<>>
    /\ pending = <<>> \/ broken
    /\ UNCHANGED <<file, owed, at, pending, broken>>

Next == Begin \/ Move \/ Accept \/ Refuse \/ Commit \/ Fail \/ Close

Spec == Init /\ [][Next]_vars

=============================================================================
