----------------------------- MODULE MCPacketDrop ----------------------------
(* Instances of PacketDrop for TLC *)
EXTENDS PacketDrop, Sequences

(* Two groups of pictures in coding order, B a b-frame that others refer to, *)
(* and audio among them: I P B b a P b I P a B b P                          *)
Pattern == <<3, 2, 1, 0, 9, 2, 0, 3, 2, 9, 1, 0, 2>>

PatternCount == Len(Pattern)
PatternVideo == {n \in 1 .. PatternCount : Pattern[n] # 9}
PatternPrio  == [n \in 1 .. PatternCount |-> IF Pattern[n] = 9 THEN 0 ELSE Pattern[n]]

(* P refers to every P and the I before it in its group, B to those too,    *)
(* b moreover to the B since the last P                                     *)
PatternRefs ==
    [n \in 1 .. PatternCount |->
        {r \in PatternVideo :
            /\ n \in PatternVideo /\ r < n /\ Pattern[n] # 3
            /\ \A m \in PatternVideo : r < m /\ m <= n => Pattern[m] # 3
            /\ \/ Pattern[r] >= 2
               \/ /\ Pattern[r] = 1 /\ Pattern[n] = 0
                  /\ \A m \in PatternVideo : r < m /\ m < n => Pattern[m] < 2}]
=============================================================================
