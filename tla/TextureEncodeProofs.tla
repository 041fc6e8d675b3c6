-------------------------- MODULE TextureEncodeProofs --------------------------
(***************************************************************************)
(* For every number of encoders and textures and every plan of calls: an   *)
(* encoder that stop_gpu_encode has taken from the list is not used any    *)
(* more when stop_gpu_encode returns; and the textures, the ticks queued   *)
(* and the posts of the semaphore balance, so that the GPU encode thread   *)
(* never takes a frame that is not there.                                  *)
(***************************************************************************)
EXTENDS TextureEncode, RecursionLemmas

(* In the list of the graphics core, or taken from it by the one who has   *)
(* to free the queues.                                                     *)
In(e)   == ctl[e] \in {"attached", "on", "deactivated"}
Last(e) == ctl[e] \in {"detachedLast", "stopThread", "join", "free"}

Shape ==
    /\ threads = [t \in Threads |-> [pc |-> threads[t].pc, wait |-> threads[t].wait,
                                     hand |-> threads[t].hand, busy |-> threads[t].busy]]
    /\ \A t \in Threads : threads[t].busy \subseteq Encoders
    /\ DOMAIN ctl = Encoders /\ attached \subseteq Encoders
    /\ handle \in Threads \cup {NoThread} /\ exists \in BOOLEAN /\ inactive \in BOOLEAN

(* The list, the allocation and the steps of the callers agree. *)
Lists ==
    /\ attached = {e \in Encoders : In(e)}
    /\ attached # {} => exists
    /\ \A e \in Encoders : Last(e) => attached = {} /\ exists
    /\ \A e, o \in Encoders : Last(e) /\ Last(o) => e = o
    /\ \A e \in Encoders : ctl[e] = "free" => handle = NoThread

(* There is one thread at most, the one of the handle. *)
OneThread ==
    \A t \in Threads :
        /\ Alive(t) => t = handle /\ exists
        /\ ~At(t, "failed") /\ ~At(t, "stuck")

(* While the thread uses encoders the event is reset, so nobody who waits  *)
(* for the event has come past it.                                         *)
Use ==
    \A t \in Threads :
        /\ At(t, "take") \/ At(t, "encode") => ~inactive
        /\ threads[t].busy # {} => At(t, "encode")
        /\ \A e \in threads[t].busy : ctl[e] \notin {"off", "stopThread", "join", "free"}

IInv == Shape /\ (Calm => Lists /\ OneThread /\ Use)

-----------------------------------------------------------------------------
LEMMA InitIInv == Init => IInv
  <1> SUFFICES ASSUME Init PROVE IInv
    OBVIOUS
  <1>1. /\ attached = {} /\ handle = NoThread /\ exists = FALSE /\ inactive = TRUE
        /\ ctl = [e \in Encoders |-> "off"]
        /\ threads = [t \in Threads |-> [pc |-> "off", wait |-> 1, hand |-> NoFrame, busy |-> {}]]
    BY DEF Init
  <1>2. Shape
    BY <1>1 DEF Shape
  <1>3. Lists
    BY <1>1 DEF Lists, In, Last
  <1>4. OneThread /\ Use
    BY <1>1 DEF OneThread, Use, At, Alive
  <1> QED
    BY <1>2, <1>3, <1>4 DEF IInv

(* A step that changes neither the life of the queues nor a thread. *)
LEMMA Untouched ==
    ASSUME IInv, UNCHANGED <<life, threads, inactive>>, Calm' => Calm
    PROVE  IInv'
  BY DEF IInv, life, Shape, Lists, OneThread, Use, In, Last, At, Alive

LEMMA GraphicsStep ==
    ASSUME IInv, Graphics
    PROVE  IInv'
  <1>1. UNCHANGED <<life, threads, inactive>> /\ upset \subseteq upset'
    BY DEF Graphics, UpdateActive, OutputGpuEncoders, VideoSleep, life
  <1> QED
    BY <1>1, Untouched DEF Calm

-----------------------------------------------------------------------------
(* The GPU encode thread.                                                  *)

(* A thread moves, with what it holds, and the calls under way stay. *)
LEMMA MoveShape ==
    ASSUME Shape, NEW t \in Threads, NEW r,
           threads' = [threads EXCEPT ![t] = r],
           r = [pc |-> r.pc, wait |-> r.wait, hand |-> r.hand, busy |-> r.busy],
           r.busy \subseteq Encoders, inactive' \in BOOLEAN, attached' \subseteq Encoders,
           ctl' = ctl, handle' = handle, exists' = exists
    PROVE  Shape' /\ \A u \in Threads : threads'[u] = IF u = t THEN r ELSE threads[u]
  <1>1. threads' = [u \in Threads |-> IF u = t THEN r ELSE threads[u]]
    BY DEF Shape
  <1>2. \A u \in Threads : threads'[u] = IF u = t THEN r ELSE threads[u]
    BY <1>1
  <1>3. DOMAIN ctl = Encoders /\ handle \in Threads \cup {NoThread} /\ exists \in BOOLEAN
        /\ \A u \in Threads : threads[u].busy \subseteq Encoders
    BY DEF Shape
  <1>4. \A u \in Threads : u # t =>
           threads[u] = [pc |-> threads[u].pc, wait |-> threads[u].wait,
                         hand |-> threads[u].hand, busy |-> threads[u].busy]
    BY DEF Shape
  <1>5. \A u \in Threads : threads'[u] = [pc |-> threads'[u].pc, wait |-> threads'[u].wait,
                                         hand |-> threads'[u].hand, busy |-> threads'[u].busy]
    <2> SUFFICES ASSUME NEW u \in Threads
                 PROVE  threads'[u] = [pc |-> threads'[u].pc, wait |-> threads'[u].wait,
                                       hand |-> threads'[u].hand, busy |-> threads'[u].busy]
      OBVIOUS
    <2>1. CASE u = t
      <3>1. threads'[u] = r
        BY <1>2, <2>1
      <3> QED
        BY <3>1
    <2>2. CASE u # t
      <3>1. threads'[u] = threads[u]
        BY <1>2, <2>2
      <3> QED
        BY <1>4, <2>2, <3>1
    <2> QED
      BY <2>1, <2>2
  <1>6. threads' = [u \in Threads |-> threads'[u]]
    BY <1>1
  <1>7. threads' = [u \in Threads |-> [pc |-> threads'[u].pc, wait |-> threads'[u].wait,
                                       hand |-> threads'[u].hand, busy |-> threads'[u].busy]]
    BY <1>5, <1>6
  <1>8. \A u \in Threads : threads'[u].busy \subseteq Encoders
    BY <1>2, <1>3
  <1> QED
    BY <1>2, <1>3, <1>7, <1>8 DEF Shape

LEMMA MoveStep ==
    ASSUME IInv, Calm, NEW t \in Threads, NEW r,
           threads' = [threads EXCEPT ![t] = r],
           r = [pc |-> r.pc, wait |-> r.wait, hand |-> r.hand, busy |-> r.busy],
           Alive(t), r.pc \notin {"failed", "stuck"},
           \A e \in r.busy : e \in threads[t].busy \/ e \in attached,
           r.busy # {} => r.pc = "encode",
           r.pc \in {"take", "encode"} => ~inactive',
           inactive' \in BOOLEAN, UNCHANGED life
    PROVE  IInv'
  <1>1. ctl' = ctl /\ attached' = attached /\ handle' = handle /\ exists' = exists
    BY DEF life
  <1>2. Shape /\ Lists /\ OneThread /\ Use
    BY DEF IInv
  <1>3. r.busy \subseteq Encoders /\ attached' \subseteq Encoders
    BY <1>1, <1>2 DEF Shape
  <1>4. Shape' /\ \A u \in Threads : threads'[u] = IF u = t THEN r ELSE threads[u]
    BY <1>1, <1>2, <1>3, MoveShape
  <1>5. Lists'
    BY <1>1, <1>2 DEF Lists, In, Last
  <1>6. OneThread'
    BY <1>1, <1>2, <1>4 DEF OneThread, At, Alive
  <1>7. Use'
    <2> SUFFICES ASSUME NEW u \in Threads
                 PROVE  /\ threads'[u].pc \in {"take", "encode"} => ~inactive'
                        /\ threads'[u].busy # {} => threads'[u].pc = "encode"
                        /\ \A e \in threads'[u].busy : ctl[e] \notin {"off", "stopThread", "join", "free"}
      BY <1>1 DEF Use, At
    <2>1. CASE u = t
      BY <1>2, <1>4, <2>1 DEF Use, Lists, In
    <2>2. CASE u # t
      <3>1. threads'[u] = threads[u]
        BY <1>4, <2>2
      <3>2. threads[u].pc \notin {"take", "encode"}
        BY <1>2, <2>2 DEF OneThread, Alive, At
      <3> QED
        BY <1>2, <3>1, <3>2 DEF Use, At
    <2> QED
      BY <2>1, <2>2
  <1> QED
    BY <1>4, <1>5, <1>6, <1>7 DEF IInv

(* What every step of a thread does to it. *)
Moves(t, s) ==
    /\ threads' = [threads EXCEPT ![t] = s]
    /\ s = [pc |-> s.pc, wait |-> s.wait, hand |-> s.hand, busy |-> s.busy]
    /\ ctl' = ctl /\ handle' = handle /\ exists' = exists /\ inactive' \in BOOLEAN
    /\ s.busy \subseteq Encoders /\ attached' \subseteq attached /\ upset \subseteq upset'
    /\ Calm' => /\ s.pc \notin {"failed", "stuck"} /\ UNCHANGED life /\ Alive(t)
                /\ \A e \in s.busy : e \in threads[t].busy \/ e \in attached
                /\ s.busy # {} => s.pc = "encode"
                /\ s.pc \in {"take", "encode"} => ~inactive'

LEMMA MovesStep ==
    ASSUME IInv, NEW t \in Threads, NEW s, Moves(t, s)
    PROVE  IInv'
  <1>1. Shape'
    BY MoveShape DEF Moves, IInv, Shape
  <1>2. ASSUME Calm' PROVE IInv'
    <2>1. Calm
      BY <1>2 DEF Calm, Moves
    <2> QED
      BY <1>2, <2>1, MoveStep DEF Moves
  <1> QED
    BY <1>1, <1>2 DEF IInv

LEMMA ThreadFacts ==
    ASSUME IInv, NEW t \in Threads
    PROVE  /\ threads[t] = [pc |-> threads[t].pc, wait |-> threads[t].wait,
                            hand |-> threads[t].hand, busy |-> threads[t].busy]
           /\ threads[t].busy \subseteq Encoders /\ attached \subseteq Encoders /\ inactive \in BOOLEAN
           /\ Calm => /\ threads[t].busy # {} => threads[t].pc = "encode"
                      /\ threads[t].pc \in {"take", "encode"} => ~inactive
                      /\ threads[t].pc \notin {"failed", "stuck"}
  BY DEF IInv, Shape, Use, OneThread, Lists, At

(* The record of a thread, with some of its fields changed *)
LEMMA Changed ==
    ASSUME NEW r, r = [pc |-> r.pc, wait |-> r.wait, hand |-> r.hand, busy |-> r.busy],
           NEW a, NEW c, NEW d
    PROVE  /\ [r EXCEPT !.pc = a] = [pc |-> a, wait |-> r.wait, hand |-> r.hand, busy |-> r.busy]
           /\ [r EXCEPT !.pc = a, !.wait = c] = [pc |-> a, wait |-> c, hand |-> r.hand, busy |-> r.busy]
           /\ [r EXCEPT !.pc = a, !.hand = c] = [pc |-> a, wait |-> r.wait, hand |-> c, busy |-> r.busy]
           /\ [r EXCEPT !.pc = a, !.busy = c] = [pc |-> a, wait |-> r.wait, hand |-> r.hand, busy |-> c]
           /\ [r EXCEPT !.pc = a, !.hand = c, !.busy = d] = [pc |-> a, wait |-> r.wait, hand |-> c, busy |-> d]
           /\ [r EXCEPT !.busy = c] = [pc |-> r.pc, wait |-> r.wait, hand |-> r.hand, busy |-> c]
  <1>1. PICK w, x, y, z : r = [pc |-> w, wait |-> x, hand |-> y, busy |-> z]
    BY Zenon
  <1>2. r.pc = w /\ r.wait = x /\ r.hand = y /\ r.busy = z
    BY <1>1
  <1> DEFINE s == [r EXCEPT !.pc = a]
             u == [s EXCEPT !.hand = c]
  <1>3. s = [pc |-> a, wait |-> x, hand |-> y, busy |-> z]
    BY <1>1
  <1>4. [r EXCEPT !.pc = a, !.wait = c] = [pc |-> a, wait |-> c, hand |-> y, busy |-> z]
    <2>1. [r EXCEPT !.pc = a, !.wait = c] = [s EXCEPT !.wait = c]
      OBVIOUS
    <2> HIDE DEF s
    <2>2. [s EXCEPT !.wait = c] = [pc |-> a, wait |-> c, hand |-> y, busy |-> z]
      BY <1>3
    <2> QED
      BY <2>1, <2>2
  <1>5. [r EXCEPT !.pc = a, !.busy = c] = [pc |-> a, wait |-> x, hand |-> y, busy |-> c]
    <2>1. [r EXCEPT !.pc = a, !.busy = c] = [s EXCEPT !.busy = c]
      OBVIOUS
    <2> HIDE DEF s
    <2>2. [s EXCEPT !.busy = c] = [pc |-> a, wait |-> x, hand |-> y, busy |-> c]
      BY <1>3
    <2> QED
      BY <2>1, <2>2
  <1>6. u = [pc |-> a, wait |-> x, hand |-> c, busy |-> z]
    <2> HIDE DEF s
    <2> QED
      BY <1>3
  <1>7. [r EXCEPT !.pc = a, !.hand = c] = u
    OBVIOUS
  <1>8. [r EXCEPT !.pc = a, !.hand = c, !.busy = d] = [pc |-> a, wait |-> x, hand |-> c, busy |-> d]
    <2>1. [r EXCEPT !.pc = a, !.hand = c, !.busy = d] = [u EXCEPT !.busy = d]
      OBVIOUS
    <2> HIDE DEF u
    <2>2. [u EXCEPT !.busy = d] = [pc |-> a, wait |-> x, hand |-> c, busy |-> d]
      BY <1>6
    <2> QED
      BY <2>1, <2>2
  <1>9. [r EXCEPT !.busy = c] = [pc |-> w, wait |-> x, hand |-> y, busy |-> c]
    BY <1>1
  <1> QED
    BY <1>2, <1>3, <1>4, <1>5, <1>6, <1>7, <1>8, <1>9, Zenon

LEMMA WakeStep ==
    ASSUME IInv, NEW t \in Threads, Wake(t) \/ SignalInactive(t)
    PROVE  IInv'
  <1> DEFINE r == threads[t]
  <1>1. PICK p \in {"woken", "wait"} :
            /\ threads' = [threads EXCEPT ![t].pc = p] /\ inactive' \in BOOLEAN
            /\ r.pc \in {"wait", "signal"} /\ UNCHANGED <<life, upset>>
    BY ThreadFacts DEF Wake, SignalInactive, At
  <1> DEFINE s == [r EXCEPT !.pc = p]
  <1>2. s = [pc |-> p, wait |-> r.wait, hand |-> r.hand, busy |-> r.busy]
    <2>1. r = [pc |-> r.pc, wait |-> r.wait, hand |-> r.hand, busy |-> r.busy]
      BY ThreadFacts
    <2> HIDE DEF r
    <2> QED
      BY <2>1, Changed
  <1>3. threads' = [threads EXCEPT ![t] = s]
    BY <1>1
  <1>4. Calm' => Calm
    BY <1>1 DEF Calm
  <1>5. Moves(t, s)
    BY <1>1, <1>2, <1>3, <1>4, ThreadFacts DEF Moves, life, Alive, At
  <1> QED
    BY <1>5, MovesStep

LEMMA BeginStep ==
    ASSUME IInv, NEW t \in Threads, Begin(t)
    PROVE  IInv'
  <1> DEFINE r == threads[t]
             go == ~stop /\ r.wait = 0
             s == IF stop THEN [r EXCEPT !.pc = "off", !.wait = 1]
                  ELSE IF go THEN [r EXCEPT !.pc = "take"]
                  ELSE [r EXCEPT !.pc = "wait", !.wait = r.wait - 1]
  <1>1. /\ threads' = [threads EXCEPT ![t] = s] /\ inactive' = (inactive /\ ~go)
        /\ r.pc = "woken" /\ UNCHANGED <<life, upset>>
    <2>1. /\ r.pc = "woken" /\ UNCHANGED <<life, upset>> /\ inactive' = (inactive /\ ~go)
      BY DEF Begin, At
    <2>2. threads' = [threads EXCEPT ![t] = s]
      BY DEF Begin
    <2> QED
      BY <2>1, <2>2
  <1>2. /\ s = [pc |-> s.pc, wait |-> s.wait, hand |-> s.hand, busy |-> s.busy]
        /\ s.busy = r.busy /\ s.pc \in {"off", "take", "wait"} /\ (s.pc = "take" => go)
    <2>1. r = [pc |-> r.pc, wait |-> r.wait, hand |-> r.hand, busy |-> r.busy]
      BY ThreadFacts
    <2>2. CASE stop
      <3>1. s = [pc |-> "off", wait |-> 1, hand |-> r.hand, busy |-> r.busy]
        BY <2>1, <2>2, Changed
      <3> HIDE DEF s
      <3> QED
        BY <3>1
    <2>3. CASE ~stop /\ go
      <3>1. s = [pc |-> "take", wait |-> r.wait, hand |-> r.hand, busy |-> r.busy]
        BY <2>1, <2>3, Changed
      <3> HIDE DEF s
      <3> QED
        BY <2>3, <3>1
    <2>4. CASE ~stop /\ ~go
      <3>1. s = [pc |-> "wait", wait |-> r.wait - 1, hand |-> r.hand, busy |-> r.busy]
        BY <2>1, <2>4, Changed
      <3> HIDE DEF s
      <3> QED
        BY <3>1
    <2> QED
      BY <2>2, <2>3, <2>4
  <1>3. Calm' => Calm
    BY <1>1 DEF Calm
  <1>4. inactive' \in BOOLEAN /\ (s.pc = "take" => ~inactive')
    BY <1>1, <1>2
  <1> HIDE DEF s
  <1>5. Moves(t, s)
    BY <1>1, <1>2, <1>3, <1>4, ThreadFacts DEF Moves, life, Alive, At
  <1> QED
    BY <1>5, MovesStep

LEMMA TakeStep ==
    ASSUME IInv, NEW t \in Threads, TakeFrame(t)
    PROVE  IInv'
  <1> DEFINE r == threads[t]
             s == [r EXCEPT !.pc = "encode", !.hand = Head(pending), !.busy = attached]
  <1>1. /\ threads' = [threads EXCEPT ![t] = s] /\ inactive' = inactive
        /\ r.pc = "take" /\ UNCHANGED <<life, upset>>
    BY DEF TakeFrame, At
  <1>2. s = [pc |-> "encode", wait |-> r.wait, hand |-> Head(pending), busy |-> attached]
    <2>1. r = [pc |-> r.pc, wait |-> r.wait, hand |-> r.hand, busy |-> r.busy]
      BY ThreadFacts
    <2> DEFINE R == [pc : {r.pc, "encode"}, wait : {r.wait}, hand : {r.hand, Head(pending)},
                     busy : {r.busy, attached}]
    <2>2. r \in R
      BY <2>1
    <2>3. s \in R /\ s.pc = "encode" /\ s.wait = r.wait /\ s.hand = Head(pending) /\ s.busy = attached
      BY <2>2
    <2> HIDE DEF r, s
    <2> QED
      BY <2>3
  <1>3. Calm' => Calm
    BY <1>1 DEF Calm
  <1>4. attached \subseteq Encoders
    BY ThreadFacts
  <1> HIDE DEF s
  <1>5. Moves(t, s)
    BY <1>1, <1>2, <1>3, <1>4, ThreadFacts DEF Moves, life, Alive, At
  <1> QED
    BY <1>5, MovesStep

LEMMA EncodeStep ==
    ASSUME IInv, NEW t \in Threads, EncodeNext(t)
    PROVE  IInv'
  <1> DEFINE r == threads[t]
  <1>1. PICK e \in r.busy :
            /\ r.pc = "encode" /\ inactive' = inactive /\ UNCHANGED life
            /\ \/ threads' = [threads EXCEPT ![t].busy = @ \ {e}] /\ upset' = upset
               \/ /\ threads' = [threads EXCEPT ![t] = [@ EXCEPT !.pc = "failed", !.busy = {e}]]
                  /\ upset' = upset \cup {"error"}
    BY DEF EncodeNext, At
  <1>2. CASE threads' = [threads EXCEPT ![t].busy = @ \ {e}] /\ upset' = upset
    <2> DEFINE s == [r EXCEPT !.busy = @ \ {e}]
    <2>1. threads' = [threads EXCEPT ![t] = s]
      BY <1>2
    <2>2. s = [pc |-> r.pc, wait |-> r.wait, hand |-> r.hand, busy |-> r.busy \ {e}]
      <3>1. r = [pc |-> r.pc, wait |-> r.wait, hand |-> r.hand, busy |-> r.busy]
        BY ThreadFacts
      <3> HIDE DEF r
      <3> QED
        BY <3>1, Changed
    <2>3. Calm' => Calm
      BY <1>2 DEF Calm
    <2> HIDE DEF s
    <2>4. s.pc = "encode" /\ s.busy \subseteq r.busy
          /\ s = [pc |-> s.pc, wait |-> s.wait, hand |-> s.hand, busy |-> s.busy]
      BY <1>1, <2>2
    <2>5. r.busy \subseteq Encoders /\ inactive' \in BOOLEAN /\ (Calm' => ~inactive')
      BY <1>1, <2>3, ThreadFacts
    <2>6. Moves(t, s)
      BY <1>1, <1>2, <2>1, <2>3, <2>4, <2>5 DEF Moves, life, Alive, At
    <2> QED
      BY <2>6, MovesStep
  <1>3. CASE /\ threads' = [threads EXCEPT ![t] = [@ EXCEPT !.pc = "failed", !.busy = {e}]]
             /\ upset' = upset \cup {"error"}
    <2> DEFINE s == [r EXCEPT !.pc = "failed", !.busy = {e}]
    <2>1. threads' = [threads EXCEPT ![t] = s]
      BY <1>3
    <2>2. s = [pc |-> "failed", wait |-> r.wait, hand |-> r.hand, busy |-> {e}]
      <3>1. r = [pc |-> r.pc, wait |-> r.wait, hand |-> r.hand, busy |-> r.busy]
        BY ThreadFacts
      <3> HIDE DEF r
      <3> QED
        BY <3>1, Changed, ZenonT(40)
    <2>3. ~Calm'
      BY <1>3 DEF Calm
    <2> HIDE DEF s
    <2>4. s = [pc |-> s.pc, wait |-> s.wait, hand |-> s.hand, busy |-> s.busy] /\ s.busy = {e}
      BY <2>2
    <2>5. e \in Encoders /\ inactive' \in BOOLEAN /\ upset \subseteq upset'
      BY <1>1, <1>3, ThreadFacts
    <2>6. Moves(t, s)
      BY <1>1, <2>1, <2>3, <2>4, <2>5 DEF Moves, life
    <2> QED
      BY <2>6, MovesStep
  <1> QED
    BY <1>1, <1>2, <1>3

(* A thread at this place has met an error, and the history is not calm. *)
LEMMA FullStopStep ==
    ASSUME IInv, NEW t \in Threads, FullStop(t)
    PROVE  IInv'
  <1> DEFINE r == threads[t]
             s == [r EXCEPT !.pc = "stuck"]
  <1>1. /\ threads' = [threads EXCEPT ![t] = s] /\ inactive' = inactive /\ r.pc = "failed"
        /\ upset' = upset /\ ctl' = ctl /\ handle' = handle /\ exists' = exists /\ attached' \subseteq attached
    BY DEF FullStop, At
  <1>2. s = [pc |-> "stuck", wait |-> r.wait, hand |-> r.hand, busy |-> r.busy]
    <2>1. r = [pc |-> r.pc, wait |-> r.wait, hand |-> r.hand, busy |-> r.busy]
      BY ThreadFacts
    <2> HIDE DEF r
    <2> QED
      BY <2>1, Changed
  <1>3. ~Calm'
    BY <1>1, ThreadFacts DEF Calm
  <1> HIDE DEF s
  <1>4. Moves(t, s)
    BY <1>1, <1>2, <1>3, ThreadFacts DEF Moves
  <1> QED
    BY <1>4, MovesStep

LEMMA FinishStep ==
    ASSUME IInv, NEW t \in Threads, FinishFrame(t)
    PROVE  IInv'
  <1> DEFINE r == threads[t]
             s == [r EXCEPT !.pc = "signal", !.hand = NoFrame]
  <1>1. /\ threads' = [threads EXCEPT ![t] = s] /\ inactive' = inactive
        /\ r.pc = "encode" /\ r.busy = {} /\ UNCHANGED <<life, upset>>
    BY DEF FinishFrame, At
  <1>2. s = [pc |-> "signal", wait |-> r.wait, hand |-> NoFrame, busy |-> r.busy]
    <2>1. r = [pc |-> r.pc, wait |-> r.wait, hand |-> r.hand, busy |-> r.busy]
      BY ThreadFacts
    <2> DEFINE R == [pc : {r.pc, "signal"}, wait : {r.wait}, hand : {r.hand, NoFrame}, busy : {r.busy}]
    <2>2. r \in R
      BY <2>1
    <2>3. s \in R /\ s.pc = "signal" /\ s.wait = r.wait /\ s.hand = NoFrame /\ s.busy = r.busy
      BY <2>2
    <2> HIDE DEF r, s
    <2> QED
      BY <2>3
  <1>3. Calm' => Calm
    BY <1>1 DEF Calm
  <1> HIDE DEF s
  <1>4. Moves(t, s)
    BY <1>1, <1>2, <1>3, ThreadFacts DEF Moves, life, Alive, At
  <1> QED
    BY <1>4, MovesStep

LEMMA ThreadStep ==
    ASSUME IInv, NEW t \in Threads, GpuThread(t)
    PROVE  IInv'
  BY WakeStep, BeginStep, TakeStep, EncodeStep, FullStopStep, FinishStep DEF GpuThread

-----------------------------------------------------------------------------
(* start_gpu_encode and stop_gpu_encode.                                   *)

LEMMA CtlFacts ==
    ASSUME Shape, NEW e \in Encoders, NEW c, ctl' = [ctl EXCEPT ![e] = c]
    PROVE  /\ DOMAIN ctl' = Encoders
           /\ \A o \in Encoders : ctl'[o] = IF o = e THEN c ELSE ctl[o]
  BY DEF Shape

(* A step within the list, or of a caller who waits: nobody is freed. *)
LEMMA StayStep ==
    ASSUME IInv, NEW e \in Encoders, NEW c \in {"on", "deactivated"}, In(e),
           ctl' = [ctl EXCEPT ![e] = c],
           UNCHANGED <<attached, exists, handle, threads, inactive, upset>>
    PROVE  IInv'
  <1>1. DOMAIN ctl' = Encoders /\ \A o \in Encoders : ctl'[o] = IF o = e THEN c ELSE ctl[o]
    BY CtlFacts DEF IInv
  <1>2. Shape'
    BY <1>1 DEF IInv, Shape
  <1> SUFFICES ASSUME Calm PROVE Lists' /\ OneThread' /\ Use'
    BY <1>2 DEF IInv, Calm
  <1>3. Lists /\ OneThread /\ Use /\ Shape
    BY DEF IInv
  <1>4. Lists'
    BY <1>1, <1>3 DEF Lists, In, Last
  <1>5. OneThread'
    BY <1>3 DEF OneThread, At, Alive
  <1>6. Use'
    BY <1>1, <1>3 DEF Use, At, Shape
  <1> QED
    BY <1>4, <1>5, <1>6

LEMMA DetachStep ==
    ASSUME IInv, NEW e \in Encoders, Detach(e)
    PROVE  IInv'
  <1> DEFINE c == IF attached \subseteq {e} THEN "detachedLast" ELSE "detached"
  <1>1. /\ ctl[e] = "deactivated" /\ attached' = attached \ {e} /\ ctl' = [ctl EXCEPT ![e] = c]
        /\ UNCHANGED <<exists, handle, threads, inactive, upset>>
    BY DEF Detach
  <1>2. DOMAIN ctl' = Encoders /\ \A o \in Encoders : ctl'[o] = IF o = e THEN c ELSE ctl[o]
    BY <1>1, CtlFacts DEF IInv
  <1>3. Shape'
    BY <1>1, <1>2 DEF IInv, Shape
  <1> SUFFICES ASSUME Calm PROVE Lists' /\ OneThread' /\ Use'
    BY <1>1, <1>3 DEF IInv, Calm
  <1>4. Lists /\ OneThread /\ Use /\ Shape
    BY DEF IInv
  <1>5. /\ e \in attached /\ exists /\ \A o \in Encoders : ~Last(o)
        /\ c \in {"detachedLast", "detached"} /\ (c = "detachedLast" => attached \ {e} = {})
    BY <1>1, <1>4 DEF Lists, In
  <1> HIDE DEF c
  <1>6. Lists'
    <2>1. attached' = {o \in Encoders : In(o)'}
      BY <1>1, <1>2, <1>4, <1>5 DEF Lists, In
    <2>2. \A o \in Encoders : Last(o)' => o = e /\ attached' = {} /\ exists'
      BY <1>1, <1>2, <1>5 DEF Last
    <2>3. \A o \in Encoders : ctl'[o] # "free"
      BY <1>2, <1>5 DEF Last
    <2> QED
      BY <1>1, <1>5, <2>1, <2>2, <2>3 DEF Lists
  <1>7. OneThread'
    BY <1>1, <1>4 DEF OneThread, At, Alive
  <1>8. Use'
    BY <1>1, <1>2, <1>4, <1>5 DEF Use, At, Shape
  <1> QED
    BY <1>6, <1>7, <1>8

(* A thread that uses encoders has the event reset. *)
LEMMA AwaitStep ==
    ASSUME IInv, NEW e \in Encoders, AwaitInactive(e)
    PROVE  IInv'
  <1> DEFINE c == IF ctl[e] = "detached" THEN "off" ELSE "stopThread"
  <1>1. /\ ctl[e] \in {"detached", "detachedLast"} /\ inactive /\ ctl' = [ctl EXCEPT ![e] = c]
        /\ UNCHANGED <<attached, exists, handle, threads, inactive, upset>>
    BY DEF AwaitInactive
  <1>2. DOMAIN ctl' = Encoders /\ \A o \in Encoders : ctl'[o] = IF o = e THEN c ELSE ctl[o]
    BY <1>1, CtlFacts DEF IInv
  <1>3. Shape'
    BY <1>1, <1>2 DEF IInv, Shape
  <1> SUFFICES ASSUME Calm PROVE Lists' /\ OneThread' /\ Use'
    BY <1>1, <1>3 DEF IInv, Calm
  <1>4. Lists /\ OneThread /\ Use /\ Shape
    BY DEF IInv
  <1>5. \A o \in Encoders : (In(o)' <=> In(o)) /\ (Last(o)' <=> Last(o))
    BY <1>1, <1>2 DEF In, Last
  <1>6. \A o \in Encoders : ctl'[o] = "free" => ctl[o] = "free"
    BY <1>2
  <1>7. Lists'
    BY <1>1, <1>4, <1>5, <1>6 DEF Lists
  <1>8. OneThread'
    BY <1>1, <1>4 DEF OneThread, At, Alive
  <1>9. \A t \in Threads : threads[t].busy = {} /\ ~At(t, "take") /\ ~At(t, "encode")
    BY <1>1, <1>4 DEF Use
  <1>10. Use'
    BY <1>1, <1>9 DEF Use, At
  <1> QED
    BY <1>7, <1>8, <1>10

LEMMA StopThreadStep ==
    ASSUME IInv, NEW e \in Encoders, StopThread(e)
    PROVE  IInv'
  <1> DEFINE c == IF handle = NoThread THEN "free" ELSE "join"
  <1>1. /\ ctl[e] = "stopThread" /\ ctl' = [ctl EXCEPT ![e] = c]
        /\ UNCHANGED <<attached, exists, handle, threads, inactive, upset>>
    BY DEF StopThread
  <1>2. DOMAIN ctl' = Encoders /\ \A o \in Encoders : ctl'[o] = IF o = e THEN c ELSE ctl[o]
    BY <1>1, CtlFacts DEF IInv
  <1>3. Shape'
    BY <1>1, <1>2 DEF IInv, Shape
  <1> SUFFICES ASSUME Calm PROVE Lists' /\ OneThread' /\ Use'
    BY <1>1, <1>3 DEF IInv, Calm
  <1>4. Lists /\ OneThread /\ Use /\ Shape
    BY DEF IInv
  <1>5. \A o \in Encoders : (In(o)' <=> In(o)) /\ (Last(o)' <=> Last(o))
    BY <1>1, <1>2 DEF In, Last
  <1>6. \A o \in Encoders : ctl'[o] = "free" => ctl[o] = "free" \/ handle = NoThread
    BY <1>2
  <1>7. Lists'
    BY <1>1, <1>4, <1>5, <1>6 DEF Lists
  <1>8. OneThread'
    BY <1>1, <1>4 DEF OneThread, At, Alive
  <1>9. Use'
    BY <1>1, <1>2, <1>4 DEF Use, At, Shape
  <1> QED
    BY <1>7, <1>8, <1>9

LEMMA JoinStep ==
    ASSUME IInv, NEW e \in Encoders, Join(e)
    PROVE  IInv'
  <1>1. /\ ctl[e] = "join" /\ ctl' = [ctl EXCEPT ![e] = "free"] /\ handle' = NoThread
        /\ handle # NoThread => At(handle, "off")
        /\ UNCHANGED <<attached, exists, threads, inactive, upset>>
    BY DEF Join
  <1>2. DOMAIN ctl' = Encoders /\ \A o \in Encoders : ctl'[o] = IF o = e THEN "free" ELSE ctl[o]
    BY <1>1, CtlFacts DEF IInv
  <1>3. Shape'
    BY <1>1, <1>2 DEF IInv, Shape
  <1> SUFFICES ASSUME Calm PROVE Lists' /\ OneThread' /\ Use'
    BY <1>1, <1>3 DEF IInv, Calm
  <1>4. Lists /\ OneThread /\ Use /\ Shape
    BY DEF IInv
  <1>5. \A o \in Encoders : (In(o)' <=> In(o)) /\ (Last(o)' <=> Last(o))
    BY <1>1, <1>2 DEF In, Last
  <1>6. Lists'
    BY <1>1, <1>4, <1>5 DEF Lists
  <1>7. \A t \in Threads : ~Alive(t)
    BY <1>1, <1>4 DEF OneThread, Alive, NoThread, Threads
  <1>8. OneThread'
    BY <1>1, <1>4, <1>7 DEF OneThread, At, Alive
  <1>9. Use'
    BY <1>1, <1>2, <1>4 DEF Use, At, Shape
  <1> QED
    BY <1>6, <1>8, <1>9

LEMMA FreeStep ==
    ASSUME IInv, NEW e \in Encoders, Free(e)
    PROVE  IInv'
  <1>1. /\ ctl[e] = "free" /\ ctl' = [ctl EXCEPT ![e] = "off"] /\ exists' = FALSE
        /\ UNCHANGED <<attached, handle, threads, inactive>> /\ upset \subseteq upset'
    BY DEF Free
  <1>2. DOMAIN ctl' = Encoders /\ \A o \in Encoders : ctl'[o] = IF o = e THEN "off" ELSE ctl[o]
    BY <1>1, CtlFacts DEF IInv
  <1>3. Shape'
    BY <1>1, <1>2 DEF IInv, Shape
  <1> SUFFICES ASSUME Calm PROVE Lists' /\ OneThread' /\ Use'
    BY <1>1, <1>3 DEF IInv, Calm
  <1>4. Lists /\ OneThread /\ Use /\ Shape
    BY DEF IInv
  <1>5. /\ Last(e) /\ attached = {} /\ handle = NoThread
        /\ \A o \in Encoders : Last(o) => o = e
    BY <1>1, <1>4 DEF Lists, Last
  <1>6. \A o \in Encoders : (In(o)' <=> In(o)) /\ ~Last(o)' /\ ctl'[o] # "free"
    BY <1>1, <1>2, <1>5 DEF In, Last
  <1>7. Lists'
    BY <1>1, <1>4, <1>5, <1>6 DEF Lists
  <1>8. \A t \in Threads : ~Alive(t)
    BY <1>4, <1>5 DEF OneThread, NoThread, Threads
  <1>9. OneThread'
    BY <1>1, <1>4, <1>8 DEF OneThread, At, Alive
  <1>10. Use'
    BY <1>1, <1>2, <1>4 DEF Use, At, Shape
  <1> QED
    BY <1>7, <1>9, <1>10

(* Where thread u is when thread t has been started: a thread that waited   *)
(* for the old semaphore is lost.                                          *)
Started(u, t) == IF u = t THEN "wait" ELSE IF At(u, "wait") THEN "lost" ELSE threads[u].pc

LEMMA StartFacts ==
    ASSUME IInv, NEW t \in Threads, NEW u \in Threads,
           threads' = [v \in Threads |->
                         IF v = t THEN [threads[v] EXCEPT !.pc = "wait"]
                         ELSE IF At(v, "wait") THEN [threads[v] EXCEPT !.pc = "lost"]
                         ELSE threads[v]]
    PROVE  /\ threads'[u] = [pc |-> threads'[u].pc, wait |-> threads'[u].wait,
                             hand |-> threads'[u].hand, busy |-> threads'[u].busy]
           /\ threads'[u].busy = threads[u].busy /\ threads'[u].wait = threads[u].wait
           /\ threads'[u].hand = threads[u].hand /\ threads'[u].pc = Started(u, t)
  <1> DEFINE r == threads[u]
             s == threads'[u]
  <1>1. s = IF u = t THEN [r EXCEPT !.pc = "wait"]
            ELSE IF At(u, "wait") THEN [r EXCEPT !.pc = "lost"] ELSE r
    OBVIOUS
  <1>2. r = [pc |-> r.pc, wait |-> r.wait, hand |-> r.hand, busy |-> r.busy]
    BY ThreadFacts
  <1> HIDE DEF s, r
  <1>3. /\ [r EXCEPT !.pc = "wait"] = [pc |-> "wait", wait |-> r.wait, hand |-> r.hand, busy |-> r.busy]
        /\ [r EXCEPT !.pc = "lost"] = [pc |-> "lost", wait |-> r.wait, hand |-> r.hand, busy |-> r.busy]
    BY <1>2, Changed
  <1>4. /\ s = [pc |-> s.pc, wait |-> s.wait, hand |-> s.hand, busy |-> s.busy]
        /\ s.busy = r.busy /\ s.wait = r.wait /\ s.hand = r.hand
        /\ s.pc = IF u = t THEN "wait" ELSE IF At(u, "wait") THEN "lost" ELSE r.pc
    BY <1>1, <1>2, <1>3
  <1> QED
    BY <1>4 DEF s, r, Started

(* The first encoder of a list: the queues are allocated, a thread starts. *)
LEMMA FirstStep ==
    ASSUME IInv, NEW e \in Encoders, ctl[e] = "off", attached = {}, InitGpuEncoding, Calm,
           attached' = attached \cup {e}, ctl' = [ctl EXCEPT ![e] = "attached"]
    PROVE  IInv'
  <1>1. PICK t \in Threads :
            /\ At(t, "off") /\ handle' = t
            /\ threads' = [u \in Threads |->
                             IF u = t THEN [threads[u] EXCEPT !.pc = "wait"]
                             ELSE IF At(u, "wait") THEN [threads[u] EXCEPT !.pc = "lost"]
                             ELSE threads[u]]
    BY DEF InitGpuEncoding
  <1>2. /\ exists' = TRUE /\ inactive' = TRUE
        /\ upset' = IF exists THEN upset \cup {"overlap"} ELSE upset \ {"lull"}
    BY DEF InitGpuEncoding
  <1>3. DOMAIN ctl' = Encoders /\ \A o \in Encoders : ctl'[o] = IF o = e THEN "attached" ELSE ctl[o]
    BY CtlFacts DEF IInv
  <1>4. \A u \in Threads : /\ threads'[u] = [pc |-> threads'[u].pc, wait |-> threads'[u].wait,
                                            hand |-> threads'[u].hand, busy |-> threads'[u].busy]
                            /\ threads'[u].busy = threads[u].busy
                            /\ threads'[u].pc = Started(u, t)
    BY <1>1, StartFacts
  <1>5. Shape'
    <2>1. threads' = [u \in Threads |-> threads'[u]]
      BY <1>1
    <2>2. threads' = [u \in Threads |-> [pc |-> threads'[u].pc, wait |-> threads'[u].wait,
                                         hand |-> threads'[u].hand, busy |-> threads'[u].busy]]
      BY <1>4, <2>1
    <2>3. /\ \A u \in Threads : threads'[u].busy \subseteq Encoders
          /\ attached' \subseteq Encoders /\ handle' \in Threads \cup {NoThread}
          /\ exists' \in BOOLEAN /\ inactive' \in BOOLEAN
      BY <1>1, <1>2, <1>4 DEF IInv, Shape
    <2> QED
      BY <1>3, <2>2, <2>3 DEF Shape
  <1> SUFFICES ASSUME Calm' PROVE Lists' /\ OneThread' /\ Use'
    BY <1>5 DEF IInv
  <1>6. Lists /\ OneThread /\ Use /\ Shape
    BY DEF IInv
  <1>7. ~exists
    BY <1>2, "overlap" \notin {"lag", "lull"} DEF Calm
  <1>8. \A o \in Encoders : ~Last(o) /\ ~In(o)
    BY <1>6, <1>7 DEF Lists
  <1>9. Lists'
    BY <1>2, <1>3, <1>8 DEF Lists, In, Last
  <1>10. \A u \in Threads : ~Alive(u) /\ threads[u].busy = {}
    BY <1>6, <1>7 DEF OneThread, Use, Alive, At
  <1>11. OneThread'
    BY <1>1, <1>2, <1>4, <1>10 DEF OneThread, At, Alive
  <1>12. Use'
    BY <1>4, <1>10 DEF Use, At, Alive, Started
  <1> QED
    BY <1>9, <1>11, <1>12

LEMMA AttachStep ==
    ASSUME IInv, NEW e \in Encoders, Attach(e)
    PROVE  IInv'
  <1>1. /\ ctl[e] = "off" /\ Calm /\ attached' = attached \cup {e}
        /\ ctl' = [ctl EXCEPT ![e] = "attached"]
    BY DEF Attach
  <1>2. CASE attached = {}
    BY <1>1, <1>2, FirstStep DEF Attach
  <1>3. CASE attached # {}
    <2>1. UNCHANGED <<exists, handle, threads, inactive, upset>>
      BY <1>3 DEF Attach
    <2>2. DOMAIN ctl' = Encoders /\ \A o \in Encoders : ctl'[o] = IF o = e THEN "attached" ELSE ctl[o]
      BY <1>1, CtlFacts DEF IInv
    <2>3. Lists /\ OneThread /\ Use /\ Shape
      BY <1>1 DEF IInv
    <2>4. Shape'
      BY <1>1, <2>1, <2>2, <2>3 DEF Shape
    <2>5. exists /\ \A o \in Encoders : ~Last(o)
      BY <1>3, <2>3 DEF Lists
    <2>6. Lists'
      BY <1>1, <2>1, <2>2, <2>3, <2>5 DEF Lists, In, Last
    <2>7. OneThread'
      BY <2>1, <2>3 DEF OneThread, At, Alive
    <2>8. Use'
      BY <2>1, <2>2, <2>3 DEF Use, At, Shape
    <2> QED
      BY <2>4, <2>6, <2>7, <2>8 DEF IInv
  <1> QED
    BY <1>2, <1>3

-----------------------------------------------------------------------------
LEMMA NextIInv == IInv /\ [Next]_vars => IInv'
  <1> SUFFICES ASSUME IInv, [Next]_vars PROVE IInv'
    OBVIOUS
  <1>1. CASE Graphics
    BY <1>1, GraphicsStep
  <1>2. CASE \E t \in Threads : GpuThread(t)
    BY <1>2, ThreadStep
  <1>3. ASSUME NEW e \in Encoders, Activate(e) \/ Deactivate(e)
        PROVE  IInv'
    <2>1. /\ \E c \in {"on", "deactivated"} : ctl' = [ctl EXCEPT ![e] = c]
          /\ In(e) /\ UNCHANGED <<attached, exists, handle, threads, inactive, upset>>
      BY <1>3 DEF Activate, Deactivate, In
    <2> QED
      BY <2>1, StayStep
  <1>4. ASSUME NEW e \in Encoders, Attach(e) \/ Caller(e)
        PROVE  IInv'
    BY <1>3, <1>4, AttachStep, DetachStep, AwaitStep, StopThreadStep, JoinStep, FreeStep DEF Caller
  <1>5. CASE (\E e \in Encoders : Pause(e)) \/ UNCHANGED vars
    <2>1. UNCHANGED <<life, threads, inactive, upset>>
      BY <1>5 DEF Pause, vars
    <2> QED
      BY <2>1, Untouched DEF Calm
  <1> QED
    BY <1>1, <1>2, <1>3, <1>4, <1>5 DEF Next

(* The list of encoders, the thread and the callers agree, in every state. *)
THEOREM Invariants == Spec => []IInv
  BY InitIInv, NextIInv, PTL DEF Spec

(* When stop_gpu_encode has returned for an encoder, gpu_encode_thread has *)
(* no copy of it left in its list of encoders.                             *)
THEOREM StoppedIsUnused == Spec => []NotUsedAfterStop
  <1>1. IInv => NotUsedAfterStop
    BY DEF IInv, Use, NotUsedAfterStop
  <1> QED
    BY <1>1, Invariants, PTL


-----------------------------------------------------------------------------
(* Sequences of frames, and the ticks they stand for.                      *)

Frame == [ts : Nat, count : Nat \ {0}]

LEMMA FrameFacts ==
    ASSUME NEW q \in Seq(Frame)
    PROVE  /\ DOMAIN q = 1 .. Len(q) /\ Len(q) \in Nat /\ IsFiniteSet(DOMAIN q)
           /\ \A i \in DOMAIN q : q[i] \in Frame /\ q[i].count \in Nat \ {0} /\ q[i].ts \in Nat
           /\ \A i \in DOMAIN q : Counts(q)[i] = q[i].count
           /\ \A i \in DOMAIN q : Counts(q)[i] \in Nat /\ Counts(q)[i] \in Int
           /\ q # <<>> => Len(q) \in DOMAIN q /\ 1 \in DOMAIN q
  <1>1. DOMAIN q = 1 .. Len(q) /\ Len(q) \in Nat /\ \A i \in DOMAIN q : q[i] \in Frame
    OBVIOUS
  <1>2. IsFiniteSet(DOMAIN q)
    BY <1>1, FS_Interval
  <1>3. \A f \in Frame : f.count \in Nat \ {0} /\ f.ts \in Nat
    BY DEF Frame
  <1>4. \A i \in DOMAIN q : Counts(q)[i] = q[i].count
    BY DEF Counts
  <1>5. q # <<>> => Len(q) \in DOMAIN q /\ 1 \in DOMAIN q
    OBVIOUS
  <1> QED
    BY <1>1, <1>2, <1>3, <1>4, <1>5

LEMMA TotalNat ==
    ASSUME NEW q \in Seq(Frame)
    PROVE  Total(q) \in Nat
  BY FrameFacts, SumNat DEF Total

LEMMA TotalEmpty == Total(<<>>) = 0
  <1>1. DOMAIN <<>> = {}
    OBVIOUS
  <1> QED
    BY <1>1, SumEmpty DEF Total

(* A tick that is left is on a frame. *)
LEMMA TotalPositive ==
    ASSUME NEW q \in Seq(Frame), Total(q) > 0
    PROVE  q # <<>>
  BY TotalEmpty

LEMMA TotalAppend ==
    ASSUME NEW q \in Seq(Frame), NEW f \in Frame
    PROVE  Append(q, f) \in Seq(Frame) /\ Total(Append(q, f)) = Total(q) + f.count
  <1> DEFINE a == Append(q, f)
             n == Len(q)
  <1>1. a \in Seq(Frame) /\ Len(a) = n + 1 /\ a[n + 1] = f /\ n \in Nat /\ \A i \in 1 .. n : a[i] = q[i]
    OBVIOUS
  <1> HIDE DEF a
  <1>2. DOMAIN a = 1 .. n + 1 /\ DOMAIN q = 1 .. n
    BY <1>1, FrameFacts
  <1>3. \A i \in 1 .. n + 1 : Counts(a)[i] \in Int
    BY <1>1, <1>2, FrameFacts
  <1>4. SumFunctionOnSet(Counts(a), 1 .. n + 1) = Counts(a)[n + 1] + SumFunctionOnSet(Counts(a), 1 .. n)
    BY <1>1, <1>3, SumSnoc
  <1>5. SumFunctionOnSet(Counts(a), 1 .. n) = SumFunctionOnSet(Counts(q), 1 .. n)
    <2>1. \A i \in 1 .. n : Counts(a)[i] = Counts(q)[i] /\ Counts(q)[i] \in Int
      BY <1>1, <1>2, FrameFacts
    <2>2. IsFiniteSet(1 .. n)
      BY <1>1, FS_Interval
    <2> QED
      BY <2>1, <2>2, SumSame
  <1>6. Counts(a)[n + 1] = f.count /\ f.count \in Nat
    BY <1>1, <1>2, FrameFacts DEF Frame
  <1>7. Total(a) = f.count + Total(q)
    BY <1>2, <1>4, <1>5, <1>6, Zenon DEF Total
  <1> QED
    BY <1>1, <1>6, <1>7, TotalNat DEF a

(* A frame in front of the others *)
LEMMA TotalCons ==
    ASSUME NEW q \in Seq(Frame), NEW r \in Seq(Frame), q # <<>>, Len(q) = Len(r) + 1,
           \A i \in 1 .. Len(r) : q[i + 1] = r[i]
    PROVE  Total(q) = q[1].count + Total(r)
  <1> DEFINE m == Len(r)
  <1>1. DOMAIN q = 1 .. m + 1 /\ DOMAIN r = 1 .. m /\ m \in Nat
    BY FrameFacts
  <1>2. \A i \in 1 .. m : Counts(r)[i] \in Int /\ Counts(q)[i + 1] = Counts(r)[i]
    <2> SUFFICES ASSUME NEW i \in 1 .. m
                 PROVE  Counts(r)[i] \in Int /\ Counts(q)[i + 1] = Counts(r)[i]
      OBVIOUS
    <2>1. i \in DOMAIN r /\ i + 1 \in DOMAIN q /\ q[i + 1] = r[i]
      BY <1>1
    <2>2. Counts(r)[i] = r[i].count /\ Counts(r)[i] \in Int
      BY <2>1, FrameFacts
    <2>3. Counts(q)[i + 1] = q[i + 1].count
      BY <2>1, FrameFacts
    <2> QED
      BY <2>1, <2>2, <2>3, Zenon
  <1>3. Counts(q)[1] = q[1].count /\ q[1].count \in Int
    BY FrameFacts
  <1>4. SumFunctionOnSet(Counts(q), 1 .. m + 1) = Counts(q)[1] + SumFunctionOnSet(Counts(r), 1 .. m)
    BY <1>1, <1>2, <1>3, SumCons
  <1> QED
    BY <1>1, <1>3, <1>4, Zenon DEF Total

LEMMA TotalTail ==
    ASSUME NEW q \in Seq(Frame), q # <<>>
    PROVE  /\ Tail(q) \in Seq(Frame) /\ Head(q) \in Frame /\ Len(Tail(q)) = Len(q) - 1
           /\ Total(q) = Head(q).count + Total(Tail(q))
  <1> DEFINE r == Tail(q)
  <1>1. r \in Seq(Frame) /\ Len(q) = Len(r) + 1 /\ \A i \in 1 .. Len(r) : q[i + 1] = r[i]
    OBVIOUS
  <1>2. Head(q) = q[1] /\ Head(q) \in Frame /\ Len(r) = Len(q) - 1
    OBVIOUS
  <1> HIDE DEF r
  <1>3. Total(q) = q[1].count + Total(r)
    BY <1>1, TotalCons
  <1> QED
    BY <1>1, <1>2, <1>3 DEF r

LEMMA TotalFront ==
    ASSUME NEW q \in Seq(Frame), NEW f \in Frame
    PROVE  /\ <<f>> \o q \in Seq(Frame) /\ Len(<<f>> \o q) = Len(q) + 1
           /\ Total(<<f>> \o q) = f.count + Total(q)
  <1> DEFINE a == <<f>> \o q
  <1>1. <<f>> \in Seq(Frame) /\ Len(<<f>>) = 1
    OBVIOUS
  <1>2. a \in Seq(Frame)
    BY <1>1
  <1>3. Len(a) = 1 + Len(q) /\ Len(q) \in Nat
    BY <1>1
  <1>4. a[1] = f
    BY <1>1
  <1>5. \A i \in 1 .. Len(q) : a[i + 1] = q[i]
    <2> SUFFICES ASSUME NEW i \in 1 .. Len(q) PROVE a[i + 1] = q[i]
      OBVIOUS
    <2>1. i + 1 \in 1 .. 1 + Len(q) /\ i + 1 > 1 /\ (i + 1) - 1 = i
      BY <1>3
    <2> QED
      BY <1>1, <2>1
  <1> HIDE DEF a
  <1>6. Len(a) = Len(q) + 1 /\ a # <<>>
    BY <1>2, <1>3
  <1>7. Total(a) = a[1].count + Total(q)
    BY <1>2, <1>5, <1>6, TotalCons
  <1> QED
    BY <1>2, <1>4, <1>6, <1>7 DEF a

(* The newest frame stands for one tick more. *)
LEMMA TotalRaised ==
    ASSUME NEW q \in Seq(Frame), q # <<>>
    PROVE  LET r == [q EXCEPT ![Len(q)].count = @ + 1] IN
           r \in Seq(Frame) /\ Len(r) = Len(q) /\ Total(r) = Total(q) + 1
  <1> DEFINE n == Len(q)
             f == [q[n] EXCEPT !.count = @ + 1]
             r == [q EXCEPT ![n] = f]
  <1>1. n \in DOMAIN q /\ q[n] \in Frame /\ q[n].count \in Nat
    BY FrameFacts
  <1>2. f \in Frame /\ f.count = q[n].count + 1
    BY <1>1 DEF Frame
  <1>3. r = [q EXCEPT ![Len(q)].count = @ + 1]
    OBVIOUS
  <1> HIDE DEF f
  <1>4. r \in Seq(Frame) /\ Len(r) = n /\ DOMAIN r = DOMAIN q
        /\ r[n] = f /\ \A i \in DOMAIN q : i # n => r[i] = q[i]
    BY <1>1, <1>2
  <1> HIDE DEF r
  <1>5. \A i \in DOMAIN q : /\ Counts(r)[i] \in Int /\ Counts(q)[i] \in Int
                            /\ i # n => Counts(r)[i] = Counts(q)[i]
    BY <1>4, FrameFacts
  <1>6. Counts(r)[n] = q[n].count + 1 /\ Counts(q)[n] = q[n].count
    BY <1>1, <1>2, <1>4, FrameFacts
  <1> HIDE DEF n
  <1>7. SumFunctionOnSet(Counts(r), DOMAIN q)
          = SumFunctionOnSet(Counts(q), DOMAIN q) + (Counts(r)[n] - Counts(q)[n])
    <2>1. IsFiniteSet(DOMAIN q)
      BY FrameFacts
    <2>2. \A i \in DOMAIN q : Counts(r)[i] \in Int /\ Counts(q)[i] \in Int
      BY <1>5
    <2>3. \A i \in DOMAIN q : i # n => Counts(r)[i] = Counts(q)[i]
      BY <1>5
    <2> QED
      BY <1>1, <2>1, <2>2, <2>3, SumChange
  <1>8. Counts(r)[n] - Counts(q)[n] = 1
    BY <1>1, <1>6
  <1>9. Total(r) = Total(q) + 1
    BY <1>4, <1>7, <1>8, Zenon DEF Total
  <1> QED
    BY <1>3, <1>4, <1>9 DEF n

-----------------------------------------------------------------------------
(* encode_gpu: every tick of a frame is counted once, and no texture is    *)
(* lost on the way.                                                        *)

QueueState == [avail : Nat, pending : Seq(Frame), posts : Nat]

(* The queue under way, after some ticks. *)
Grown == {q \in QueueState :
            /\ q.avail + Len(q.pending) = avail + Len(pending)
            /\ Total(q.pending) = Total(pending) + q.posts
            /\ avail = 0 /\ pending = <<>> => q.pending = <<>> /\ q.posts = 0}

QueueTypes == avail \in Nat /\ pending \in Seq(Frame)

LEMMA QueueFrameStep ==
    ASSUME QueueTypes, NEW q \in Grown, NEW ts \in Nat, NEW count \in Int
    PROVE  QueueFrame(q, ts, count) \in Grown
  <1> DEFINE p == q.pending
  <1>1. /\ q = [avail |-> q.avail, pending |-> p, posts |-> q.posts]
        /\ q.avail \in Nat /\ p \in Seq(Frame) /\ q.posts \in Nat
        /\ q.avail + Len(p) = avail + Len(pending) /\ Total(p) = Total(pending) + q.posts
        /\ avail = 0 /\ pending = <<>> => p = <<>> /\ q.posts = 0
    BY DEF Grown, QueueState
  <1>2. /\ Len(p) \in Nat /\ Len(pending) \in Nat /\ avail \in Nat
        /\ Total(p) \in Nat /\ Total(pending) \in Nat
    BY <1>1, TotalNat DEF QueueTypes
  <1> DEFINE none  == q.avail = 0 \/ (p # <<>> /\ count > 1)
             more  == [p EXCEPT ![Len(p)].count = @ + 1]
             fresh == [ts |-> ts, count |-> 1]
  <1>3. CASE none /\ p = <<>>
    BY <1>3 DEF QueueFrame
  <1>4. CASE none /\ p # <<>>
    <2>1. QueueFrame(q, ts, count) = [avail |-> q.avail, pending |-> more, posts |-> q.posts + 1]
      <3>1. QueueFrame(q, ts, count) = Raise(q)
        BY <1>4 DEF QueueFrame
      <3>2. Raise(q) = [avail |-> q.avail, pending |-> more, posts |-> q.posts + 1]
        <4> DEFINE z == [q EXCEPT !.pending[Len(q.pending)].count = @ + 1]
        <4>1. Raise(q) = [z EXCEPT !.posts = @ + 1]
          BY DEF Raise
        <4>2. z = [avail |-> q.avail, pending |-> more, posts |-> q.posts]
          BY <1>1, SMTT(30)
        <4> HIDE DEF z
        <4> QED
          BY <4>1, <4>2
      <3> QED
        BY <3>1, <3>2
    <2>2. more \in Seq(Frame) /\ Len(more) = Len(p) /\ Total(more) = Total(p) + 1
      BY <1>1, <1>4, TotalRaised
    <2> HIDE DEF more
    <2>3. ~ (avail = 0 /\ pending = <<>>)
      BY <1>1, <1>4
    <2>4. [avail |-> q.avail, pending |-> more, posts |-> q.posts + 1] \in QueueState
      BY <1>1, <2>2 DEF QueueState
    <2>5. Total(more) = Total(pending) + (q.posts + 1)
      BY <1>1, <1>2, <2>2
    <2>6. q.avail + Len(more) = avail + Len(pending)
      BY <1>1, <2>2
    <2> QED
      BY <2>1, <2>3, <2>4, <2>5, <2>6 DEF Grown
  <1>5. CASE ~none
    <2>1. QueueFrame(q, ts, count)
            = [avail |-> q.avail - 1, posts |-> q.posts + 1, pending |-> Append(p, fresh)]
      BY <1>5 DEF QueueFrame
    <2>2. fresh \in Frame /\ fresh.count = 1
      BY DEF Frame
    <2> DEFINE a == Append(p, fresh)
    <2>3. a \in Seq(Frame) /\ Total(a) = Total(p) + 1
      BY <1>1, <2>2, TotalAppend
    <2>4. Len(a) = Len(p) + 1
      BY <1>1, <2>2
    <2> HIDE DEF a, fresh
    <2>5. q.avail - 1 \in Nat
      BY <1>1, <1>5
    <2>6. [avail |-> q.avail - 1, posts |-> q.posts + 1, pending |-> a] \in QueueState
      BY <1>1, <2>3, <2>5 DEF QueueState
    <2>7. Total(a) = Total(pending) + (q.posts + 1)
      BY <1>1, <1>2, <2>3
    <2>8. (q.avail - 1) + Len(a) = avail + Len(pending)
      BY <1>1, <1>2, <2>4
    <2>9. ~ (avail = 0 /\ pending = <<>>)
      <3>1. avail = 0 /\ pending = <<>> => q.avail + Len(p) = 0
        BY <1>1
      <3> QED
        BY <1>1, <1>2, <2>5, <3>1
    <2>10. [avail |-> q.avail - 1, posts |-> q.posts + 1, pending |-> a] \in Grown
      BY <2>6, <2>7, <2>8, <2>9 DEF Grown
    <2> QED
      BY <2>1, <2>10 DEF a
  <1> QED
    BY <1>3, <1>4, <1>5

LEMMA EncodeGpuFacts ==
    ASSUME QueueTypes, NEW v \in Frame
    PROVE  EncodeGpu(v) \in Grown
  <1> DEFINE now == [avail |-> avail, pending |-> pending, posts |-> 0]
             next(f, n) == IF n = 0 THEN now ELSE QueueFrame(f[n - 1], v.ts, v.count - n + 1)
             E(f) == f = [n \in 0 .. v.count |-> next(f, n)]
             it == CHOOSE f : E(f)
  <1>1. now \in Grown
    <2>1. now \in QueueState
      BY DEF QueueTypes, QueueState
    <2>2. Total(pending) = Total(pending) + 0
      BY TotalNat DEF QueueTypes
    <2> QED
      BY <2>1, <2>2 DEF Grown
  <1>2. v.count \in Nat /\ v.ts \in Nat /\ \A n \in Nat : v.count - n + 1 \in Int
    BY DEF Frame
  <1>3. EncodeGpu(v) = it[v.count]
    BY Zenon DEF EncodeGpu
  <1> HIDE DEF now
  <1> DEFINE P(m) == \E f \in [0 .. m -> Grown] : \A n \in 0 .. m : f[n] = next(f, n)
             S == {m \in Nat : P(m)}
  <1>4. P(0)
    <2> DEFINE f == [n \in 0 .. 0 |-> now]
    <2>1. f \in [0 .. 0 -> Grown] /\ \A n \in 0 .. 0 : f[n] = next(f, n)
      BY <1>1
    <2> QED
      BY <2>1
  <1>5. ASSUME NEW m \in Nat, P(m) PROVE P(m + 1)
    <2>1. PICK f \in [0 .. m -> Grown] : \A n \in 0 .. m : f[n] = next(f, n)
      BY <1>5
    <2> DEFINE last == QueueFrame(f[m], v.ts, v.count - (m + 1) + 1)
               g == [n \in 0 .. m + 1 |-> IF n = m + 1 THEN last ELSE f[n]]
    <2>2. last \in Grown
      <3>1. f[m] \in Grown /\ v.count - (m + 1) + 1 \in Int
        BY <1>2
      <3> QED
        BY <1>2, <3>1, QueueFrameStep
    <2>3. \A n \in 0 .. m + 1 : n = m + 1 \/ n \in 0 .. m
      OBVIOUS
    <2>4. g \in [0 .. m + 1 -> Grown]
      BY <2>2, <2>3
    <2>5. ASSUME NEW n \in 0 .. m + 1 PROVE g[n] = next(g, n)
      <3>1. CASE n = m + 1
        <4>1. n # 0 /\ n - 1 = m /\ m \in 0 .. m + 1 /\ m # m + 1
          BY <3>1
        <4>2. g[n] = last /\ g[n - 1] = f[m]
          BY <3>1, <4>1
        <4> QED
          BY <3>1, <4>1, <4>2, Zenon
      <3>2. CASE n # m + 1
        <4>1. n \in 0 .. m /\ g[n] = f[n]
          BY <2>3, <3>2
        <4>2. n # 0 => n - 1 \in 0 .. m + 1 /\ n - 1 # m + 1
          BY <4>1
        <4>3. n # 0 => g[n - 1] = f[n - 1]
          BY <4>2
        <4>4. f[n] = next(f, n)
          BY <2>1, <4>1
        <4>5. CASE n = 0
          BY <4>1, <4>4, <4>5
        <4>6. CASE n # 0
          BY <4>1, <4>3, <4>4, <4>6, Zenon
        <4> QED
          BY <4>5, <4>6
      <3> QED
        BY <3>1, <3>2
    <2> HIDE DEF g
    <2> QED
      BY <2>4, <2>5
  <1> HIDE DEF P
  <1>6. P(v.count)
    <2>1. 0 \in S /\ \A m \in Nat : m \in S => m + 1 \in S
      BY <1>4, <1>5
    <2>2. \A m \in S : P(m)
      OBVIOUS
    <2> HIDE DEF S
    <2> QED
      BY <1>2, <2>1, <2>2, NatSet
  <1>7. E(it)
    <2>1. PICK f \in [0 .. v.count -> Grown] : \A n \in 0 .. v.count : f[n] = next(f, n)
      BY <1>6 DEF P
    <2>2. E(f)
      BY <2>1
    <2> HIDE DEF E
    <2> QED
      BY <2>2, Zenon
  <1>8. \A n \in 0 .. v.count : it[n] = next(it, n)
    <2> HIDE DEF it
    <2> QED
      BY <1>7
  <1> HIDE DEF it
  <1> DEFINE T == {n \in Nat : n <= v.count => it[n] \in Grown}
  <1>9. 0 \in T
    <2>1. 0 \in 0 .. v.count
      BY <1>2
    <2> QED
      BY <1>1, <1>8, <2>1
  <1>10. ASSUME NEW n \in Nat, n \in T PROVE n + 1 \in T
    <2> SUFFICES ASSUME n + 1 <= v.count PROVE it[n + 1] \in Grown
      OBVIOUS
    <2>1. n + 1 \in 0 .. v.count /\ n + 1 # 0 /\ (n + 1) - 1 = n /\ it[n] \in Grown
      BY <1>2, <1>10
    <2>2. it[n + 1] = QueueFrame(it[n], v.ts, v.count - (n + 1) + 1)
      BY <1>8, <2>1
    <2>3. v.count - (n + 1) + 1 \in Int
      BY <1>2
    <2> QED
      BY <1>2, <2>1, <2>2, <2>3, QueueFrameStep
  <1>11. v.count \in T
    <2> HIDE DEF T
    <2> QED
      BY <1>2, <1>9, <1>10, NatSet
  <1> QED
    BY <1>2, <1>3, <1>11

-----------------------------------------------------------------------------
(* The shape of the data, which TypeOK leaves partly open: what a thread   *)
(* holds, that it has left the first post behind it before it takes a      *)
(* frame, and that it has one in its hand while it encodes.                *)

Hand      == [ts : Nat, count : Nat]
Places    == {"off", "wait", "woken", "take", "encode", "failed", "stuck", "signal", "lost"}
Thread(r) == /\ r.wait \in {0, 1} /\ r.pc \in Places /\ r.hand \in Hand
             /\ r.pc = "off" => r.wait = 1
             /\ r.pc = "take" => r.wait = 0
             /\ r.pc = "encode" => r.hand \in Frame
Left      == [tick : Nat, lag : Nat, who : SUBSET Encoders, start : Nat, pause : Nat, fail : Nat]
Owed      == [queued : Nat, done : Nat]
Clockwork == clock \in Nat /\ gpc \in {"update", "output", "sleep"} /\ vframes \in Seq(Frame)

Types ==
    /\ QueueTypes /\ sem \in Nat /\ active \in Int
    /\ Clockwork /\ left \in Left /\ owed \in Owed
    /\ \A t \in Threads : Thread(threads[t])

(* What is in the hands of the threads *)
Hands == InHand("g1") + InHand("g2")
Helds == Held("g1") + Held("g2")

(* The posts of the semaphore that thread t has still to take, and those   *)
(* it has taken ahead of its work, are the ticks that are left, one kept   *)
(* back, and the one of the stop.                                          *)
Ahead(t) == (1 - threads[t].wait) + (IF threads[t].pc \in {"woken", "take", "encode"} THEN 1 ELSE 0)
Posts(t) == sem + Ahead(t) = Total(pending) + Held(t) + (IF stop THEN 1 ELSE 0)

Textured == IF exists THEN avail + Len(pending) + Hands = Textures
                      ELSE avail = 0 /\ pending = <<>> /\ sem = 0
Ticked   == exists => owed.queued = owed.done + Total(pending) + Helds
Stopping == exists /\ stop => \E e \in Encoders : ctl[e] \in {"join", "free"}
Ledger   == Textured /\ Ticked /\ Stopping /\ \A t \in Threads : Alive(t) => Posts(t)

TInv == IInv /\ Types /\ (Calm => Ledger)

(* One thread moves, the other one stays. *)
MovedTo(t, s) == \A u \in Threads : threads'[u] = IF u = t THEN s ELSE threads[u]

LEMMA MovedToFacts ==
    ASSUME IInv, NEW t \in Threads, NEW s, threads' = [threads EXCEPT ![t] = s]
    PROVE  MovedTo(t, s)
  <1>1. threads' = [u \in Threads |-> IF u = t THEN s ELSE threads[u]]
    BY DEF IInv, Shape
  <1> QED
    BY <1>1 DEF MovedTo

LEMMA HoldFacts ==
    ASSUME Types, NEW t \in Threads
    PROVE  Held(t) \in Nat /\ InHand(t) \in Nat /\ Ahead(t) \in Nat /\ Hands \in Nat /\ Helds \in Nat
  <1>1. \A u \in Threads : threads[u].wait \in {0, 1} /\ threads[u].hand.count \in Nat
    BY DEF Types, Thread, Hand
  <1>2. \A u \in Threads : Held(u) \in Nat /\ InHand(u) \in Nat
    BY <1>1 DEF Held, InHand
  <1>3. Ahead(t) \in Nat
    BY <1>1 DEF Ahead
  <1>4. Hands \in Nat /\ Helds \in Nat
    BY <1>2 DEF Hands, Helds, Threads
  <1> QED
    BY <1>2, <1>3, <1>4

(* Only the one thread has something in its hand. *)
LEMMA AloneNow ==
    ASSUME Types, NEW t \in Threads, \A u \in Threads : u # t => ~Alive(u)
    PROVE  Hands = InHand(t) /\ Helds = Held(t)
  <1>1. \A u \in Threads : u # t => InHand(u) = 0 /\ Held(u) = 0
    BY DEF InHand, Held, Alive, At
  <1>2. InHand(t) \in Nat /\ Held(t) \in Nat
    BY HoldFacts
  <1> QED
    BY <1>1, <1>2 DEF Hands, Helds, Threads

LEMMA AloneNext ==
    ASSUME Types', NEW t \in Threads, \A u \in Threads : u # t => ~Alive(u)'
    PROVE  Hands' = InHand(t)' /\ Helds' = Held(t)'
  <1>1. \A u \in Threads : u # t => InHand(u)' = 0 /\ Held(u)' = 0
    BY DEF InHand, Held, Alive, At
  <1>2. InHand(t)' \in Nat /\ Held(t)' \in Nat
    BY DEF Types, Thread, Hand, InHand, Held
  <1> QED
    BY <1>1, <1>2 DEF Hands, Helds, Threads

LEMMA InitTInv == Init => TInv
  <1> SUFFICES ASSUME Init PROVE TInv
    OBVIOUS
  <1>1. /\ avail = 0 /\ pending = <<>> /\ sem = 0 /\ active = 0 /\ clock = 1 /\ gpc = "update"
        /\ vframes = <<>> /\ exists = FALSE /\ owed = [queued |-> 0, done |-> 0] /\ left \in Plans
        /\ threads = [t \in Threads |-> [pc |-> "off", wait |-> 1, hand |-> NoFrame, busy |-> {}]]
    BY DEF Init
  <1>2. left \in Left
    BY <1>1, TextureAssumption DEF Left
  <1>3. \A t \in Threads : Thread(threads[t])
    BY <1>1 DEF Thread, Hand, NoFrame, Places
  <1>4. owed \in Owed
    BY <1>1 DEF Owed
  <1>5. Types
    <2>1. <<>> \in Seq(Frame)
      OBVIOUS
    <2>2. QueueTypes /\ Clockwork
      BY <1>1, <2>1 DEF QueueTypes, Clockwork
    <2>3. sem \in Nat /\ active \in Int
      BY <1>1
    <2> QED
      BY <1>2, <1>3, <1>4, <2>2, <2>3 DEF Types
  <1>6. Ledger
    BY <1>1 DEF Ledger, Textured, Ticked, Stopping, Alive, At
  <1> QED
    BY <1>5, <1>6, InitIInv DEF TInv

-----------------------------------------------------------------------------
(* The graphics thread.                                                    *)

(* The threads stay where they are. *)
LEMMA SameThreads ==
    ASSUME threads' = threads
    PROVE  /\ Hands' = Hands /\ Helds' = Helds
           /\ \A t \in Threads : /\ Ahead(t)' = Ahead(t) /\ Held(t)' = Held(t)
                                 /\ Alive(t)' <=> Alive(t)
  BY DEF Hands, Helds, InHand, Held, Ahead, Alive, At

LEMMA OutputStep ==
    ASSUME Types, Calm => Ledger, OutputGpuEncoders, threads' = threads, life' = life
    PROVE  Types' /\ (Calm' => Ledger')
  <1>1. exists' = exists /\ stop' = stop /\ ctl' = ctl /\ active' = active
    BY DEF life
  <1>2. CASE wasActive /\ vframes # <<>>
    <2> DEFINE v == Head(vframes)
               q == EncodeGpu(v)
    <2>1. v \in Frame /\ Tail(vframes) \in Seq(Frame)
      BY <1>2, TotalTail DEF Types, Clockwork
    <2>2. q \in Grown
      BY <2>1, EncodeGpuFacts DEF Types
    <2>3. /\ vframes' = Tail(vframes) /\ avail' = q.avail /\ pending' = q.pending /\ sem' = sem + q.posts
          /\ owed' = [owed EXCEPT !.queued = @ + q.posts]
          /\ gpc' = "sleep" /\ UNCHANGED <<clock, wasActive, threads, left>>
      BY <1>2 DEF OutputGpuEncoders
    <2> HIDE DEF q, v
    <2>4. /\ q.avail \in Nat /\ q.pending \in Seq(Frame) /\ q.posts \in Nat
          /\ q.avail + Len(q.pending) = avail + Len(pending)
          /\ Total(q.pending) = Total(pending) + q.posts
          /\ avail = 0 /\ pending = <<>> => q.pending = <<>> /\ q.posts = 0
      BY <2>2 DEF Grown, QueueState
    <2>5. owed'.queued = owed.queued + q.posts /\ owed'.done = owed.done /\ owed' \in Owed
      BY <2>3, <2>4 DEF Types, Owed
    <2>6. sem \in Nat /\ sem' \in Nat /\ clock \in Nat /\ left \in Left /\ active \in Int
      BY <2>3, <2>4 DEF Types, Clockwork
    <2>7. QueueTypes' /\ Clockwork'
      BY <2>1, <2>3, <2>4, <2>6 DEF QueueTypes, Clockwork
    <2>8. \A t \in Threads : Thread(threads'[t])
      BY <2>3 DEF Types
    <2>9. Types'
      BY <1>1, <2>3, <2>5, <2>6, <2>7, <2>8 DEF Types
    <2>10. ASSUME Calm' PROVE Ledger'
      <3>1. Ledger
        BY <2>3, <2>10 DEF Calm, OutputGpuEncoders
      <3>2. Hands' = Hands /\ Helds' = Helds /\ Hands \in Nat /\ Helds \in Nat
        BY SameThreads, HoldFacts DEF Threads
      <3>3. Textured'
        <4>1. CASE exists
          <5>1. avail + Len(pending) + Hands = Textures
            BY <3>1, <4>1 DEF Ledger, Textured
          <5>2. avail' + Len(pending') + Hands' = Textures
            BY <2>3, <2>4, <3>2, <5>1
          <5> QED
            BY <1>1, <4>1, <5>2 DEF Textured
        <4>2. CASE ~exists
          <5>1. avail = 0 /\ pending = <<>> /\ sem = 0
            BY <3>1, <4>2 DEF Ledger, Textured
          <5>2. q.pending = <<>> /\ q.posts = 0
            BY <2>4, <5>1
          <5>3. q.avail + 0 = 0 + 0
            BY <2>4, <5>1, <5>2
          <5> QED
            BY <1>1, <2>3, <2>4, <4>2, <5>1, <5>2, <5>3 DEF Textured
        <4> QED
          BY <4>1, <4>2
      <3>4. Total(pending) \in Nat /\ owed.queued \in Nat /\ owed.done \in Nat
        BY TotalNat DEF Types, QueueTypes, Owed
      <3>5. Ticked'
        <4> SUFFICES ASSUME exists
                     PROVE  owed'.queued = owed'.done + Total(pending') + Helds'
          BY <1>1 DEF Ticked
        <4>1. owed.queued = owed.done + Total(pending) + Helds
          BY <3>1 DEF Ledger, Ticked
        <4>2. Total(pending') = Total(pending) + q.posts
          BY <2>3, <2>4
        <4> QED
          BY <2>4, <2>5, <3>2, <3>4, <4>1, <4>2
      <3>6. Stopping'
        BY <1>1, <3>1 DEF Ledger, Stopping
      <3>7. ASSUME NEW t \in Threads, Alive(t)' PROVE Posts(t)'
        <4>1. sem + Ahead(t) = Total(pending) + Held(t) + (IF stop THEN 1 ELSE 0)
          BY <3>1, <3>7, SameThreads DEF Ledger, Posts
        <4>2. Ahead(t)' = Ahead(t) /\ Held(t)' = Held(t) /\ Ahead(t) \in Nat /\ Held(t) \in Nat
          BY SameThreads, HoldFacts
        <4>3. Total(pending') = Total(pending) + q.posts
          BY <2>3, <2>4
        <4>4. sem' + Ahead(t)' = Total(pending') + Held(t)' + (IF stop' THEN 1 ELSE 0)
          <5>1. PICK k \in {0, 1} : k = (IF stop THEN 1 ELSE 0) /\ k = (IF stop' THEN 1 ELSE 0)
            BY <1>1
          <5>2. sem' + Ahead(t)' = Total(pending') + Held(t)' + k
            <6>1. sem + Ahead(t) = Total(pending) + Held(t) + k
              BY <4>1, <5>1
            <6>2. (sem + q.posts) + Ahead(t) = (Total(pending) + q.posts) + Held(t) + k
              <7>1. sem \in Int /\ Ahead(t) \in Int /\ Total(pending) \in Int /\ Held(t) \in Int /\ k \in Int
                    /\ q.posts \in Int
                BY <2>4, <2>6, <3>4, <4>2, <5>1
              <7>2. \A a, b, c, d, x, p \in Int : a + b = c + d + x => (a + p) + b = (c + p) + d + x
                OBVIOUS
              <7> QED
                BY <6>1, <7>1, <7>2
            <6> QED
              BY <2>3, <4>2, <4>3, <6>2, Zenon
          <5> QED
            BY <5>1, <5>2
        <4> QED
          BY <4>4 DEF Posts
      <3> QED
        BY <3>3, <3>5, <3>6, <3>7 DEF Ledger
    <2> QED
      BY <2>9, <2>10
  <1>3. CASE ~ (wasActive /\ vframes # <<>>)
    <2>1. UNCHANGED <<vframes, avail, pending, sem, owed, upset, clock, left>> /\ gpc' = "sleep"
      BY <1>3 DEF OutputGpuEncoders, queue
    <2>2. Types'
      BY <1>1, <2>1 DEF Types, QueueTypes, Clockwork
    <2>3. Calm' => Ledger'
      BY <1>1, <2>1, SameThreads DEF Calm, Ledger, Textured, Ticked, Stopping, Posts
    <2> QED
      BY <2>2, <2>3
  <1> QED
    BY <1>2, <1>3

(* A step that leaves the queue, the threads and the callers alone. *)
LEMMA Aside ==
    ASSUME Types, Calm => Ledger, Calm' => Calm,
           UNCHANGED <<queue, life, threads, owed>>, Clockwork', left' \in Left
    PROVE  Types' /\ (Calm' => Ledger')
  <1>1. UNCHANGED <<avail, pending, sem, exists, stop, active, ctl>>
    BY DEF queue, life
  <1>2. Types'
    BY <1>1 DEF Types, QueueTypes
  <1>3. Calm' => Ledger'
    BY <1>1, SameThreads DEF Ledger, Textured, Ticked, Stopping, Posts
  <1> QED
    BY <1>2, <1>3

LEMMA GraphicsTInv ==
    ASSUME TInv, Graphics
    PROVE  TInv'
  <1>0. Types /\ (Calm => Ledger) /\ IInv'
    BY GraphicsStep DEF TInv
  <1>1. CASE UpdateActive
    <2>1. UNCHANGED <<queue, life, threads, owed, left>> /\ (Calm' => Calm)
      BY <1>1 DEF UpdateActive, Calm
    <2>2. Clockwork'
      <3>1. <<>> \in Seq(Frame)
        OBVIOUS
      <3> QED
        BY <1>0, <1>1, <3>1 DEF UpdateActive, Types, Clockwork
    <2>3. left' \in Left
      BY <1>0, <2>1 DEF Types
    <2> QED
      BY <1>0, <2>1, <2>2, <2>3, Aside DEF TInv
  <1>2. CASE OutputGpuEncoders
    <2>1. threads' = threads /\ life' = life
      BY <1>2 DEF OutputGpuEncoders
    <2> QED
      BY <1>0, <1>2, <2>1, OutputStep DEF TInv
  <1>3. ASSUME NEW n \in 1 .. left.lag, VideoSleep(n) PROVE TInv'
    <2>1. UNCHANGED <<queue, life, threads, owed, upset>>
      BY <1>3 DEF VideoSleep
    <2>2. left.lag \in Nat /\ left.tick \in Nat /\ clock \in Nat
      BY <1>0 DEF Types, Left, Clockwork
    <2>3. n \in Nat \ {0} /\ n <= left.tick
      BY <1>3, <2>2 DEF VideoSleep
    <2>4. Clockwork'
      <3>1. [ts |-> clock, count |-> n] \in Frame
        BY <2>2, <2>3 DEF Frame
      <3>2. Append(vframes, [ts |-> clock, count |-> n]) \in Seq(Frame) /\ vframes \in Seq(Frame)
        BY <1>0, <3>1 DEF Types, Clockwork
      <3>3. clock + n \in Nat
        BY <2>2, <2>3
      <3> QED
        BY <1>3, <3>2, <3>3 DEF VideoSleep, Clockwork
    <2>5. left' \in Left
      <3>1. left.tick - n \in Nat
        BY <2>2, <2>3
      <3> QED
        BY <1>0, <1>3, <3>1 DEF VideoSleep, Types, Left
    <2> QED
      BY <1>0, <2>1, <2>4, <2>5, Aside DEF TInv, Calm
  <1> QED
    BY <1>1, <1>2, <1>3 DEF Graphics

-----------------------------------------------------------------------------
(* The GPU encode thread.                                                  *)

LEMMA TypesThread ==
    ASSUME Types, NEW t \in Threads, NEW s, MovedTo(t, s), Thread(s), QueueTypes', sem' \in Nat,
           owed' \in Owed, active' \in Int, left' \in Left, UNCHANGED graphics
    PROVE  Types'
  <1>1. Clockwork'
    BY DEF Types, Clockwork, graphics
  <1>2. \A u \in Threads : Thread(threads'[u])
    BY DEF Types, MovedTo
  <1> QED
    BY <1>1, <1>2 DEF Types

LEMMA LedgerThread ==
    ASSUME IInv, Types, Types', Calm, Ledger, NEW t \in Threads, Alive(t), NEW s, MovedTo(t, s),
           UNCHANGED life, owed'.queued = owed.queued,
           avail' + Len(pending') + InHand(t)' = avail + Len(pending) + InHand(t),
           owed'.done + Total(pending') + Held(t)' = owed.done + Total(pending) + Held(t),
           Posts(t) /\ Alive(t)' => Posts(t)'
    PROVE  Ledger'
  <1>1. exists /\ exists' = exists /\ stop' = stop /\ ctl' = ctl
        /\ \A u \in Threads : u # t => ~Alive(u)
    BY DEF IInv, OneThread, life
  <1>2. \A u \in Threads : u # t => ~Alive(u)'
    BY <1>1 DEF MovedTo, Alive, At
  <1>3. Hands = InHand(t) /\ Helds = Held(t) /\ Hands' = InHand(t)' /\ Helds' = Held(t)'
    BY <1>1, <1>2, AloneNow, AloneNext
  <1>4. Textured'
    BY <1>1, <1>3 DEF Ledger, Textured
  <1>5. Ticked'
    BY <1>1, <1>3 DEF Ledger, Ticked
  <1>6. Stopping'
    BY <1>1 DEF Ledger, Stopping
  <1>7. \A u \in Threads : Alive(u)' => Posts(u)'
    BY <1>2 DEF Ledger
  <1> QED
    BY <1>4, <1>5, <1>6, <1>7 DEF Ledger

(* The numbers a thread's step deals with *)
LEMMA Numbers ==
    ASSUME Types, NEW t \in Threads
    PROVE  /\ sem \in Int /\ avail \in Int /\ Len(pending) \in Int /\ Total(pending) \in Int
           /\ Held(t) \in Int /\ InHand(t) \in Int /\ Ahead(t) \in Int
           /\ owed.done \in Int /\ owed.queued \in Int
           /\ pending \in Seq(Frame) /\ Thread(threads[t]) /\ QueueTypes
           /\ owed \in Owed /\ active \in Int /\ left \in Left /\ sem \in Nat /\ avail \in Nat
  BY HoldFacts, TotalNat DEF Types, QueueTypes, Owed

(* A step of a thread that changes neither its hand nor the textures. *)
LEMMA HandStays ==
    ASSUME TInv, NEW t \in Threads, NEW p \in Places, NEW w \in {0, 1}, NEW b,
           MovedTo(t, [pc |-> p, wait |-> w, hand |-> threads[t].hand, busy |-> b]),
           p = "off" => w = 1, p = "take" => w = 0, p = "encode" <=> threads[t].pc = "encode",
           UNCHANGED <<graphics, avail, pending, life, owed>>, left' \in Left, sem' \in Nat,
           Calm' => Calm /\ Alive(t) /\ (Posts(t) /\ Alive(t)' => Posts(t)')
    PROVE  Types' /\ (Calm' => Ledger')
  <1> DEFINE s == [pc |-> p, wait |-> w, hand |-> threads[t].hand, busy |-> b]
  <1>0. Types /\ IInv /\ (Calm => Ledger) /\ avail' = avail /\ pending' = pending /\ owed' = owed
    BY DEF TInv
  <1>1. threads'[t] = s
    BY DEF MovedTo
  <1>2. Thread(s)
    BY <1>0 DEF Types, Thread
  <1>3. QueueTypes' /\ owed' \in Owed /\ active' \in Int
    BY <1>0 DEF Types, QueueTypes, life
  <1>4. Types'
    BY <1>0, <1>2, <1>3, TypesThread
  <1>5. InHand(t)' = InHand(t) /\ Held(t)' = Held(t)
    BY <1>1 DEF InHand, Held, At
  <1>6. ASSUME Calm' PROVE Ledger'
    BY <1>0, <1>4, <1>5, <1>6, LedgerThread
  <1> QED
    BY <1>4, <1>6

LEMMA PcMove ==
    ASSUME IInv, NEW t \in Threads, NEW p, threads' = [threads EXCEPT ![t].pc = p]
    PROVE  LET r == threads[t] IN
           MovedTo(t, [pc |-> p, wait |-> r.wait, hand |-> r.hand, busy |-> r.busy])
  <1> DEFINE r == threads[t]
             s == [r EXCEPT !.pc = p]
  <1>1. s = [pc |-> p, wait |-> r.wait, hand |-> r.hand, busy |-> r.busy]
    <2>1. r = [pc |-> r.pc, wait |-> r.wait, hand |-> r.hand, busy |-> r.busy]
      BY ThreadFacts
    <2> HIDE DEF r
    <2> QED
      BY <2>1, Changed
  <1>2. threads' = [threads EXCEPT ![t] = s]
    OBVIOUS
  <1>3. MovedTo(t, s)
    BY <1>2, MovedToFacts
  <1> QED
    BY <1>1, <1>3

(* What Posts says after a step of the thread *)
LEMMA AheadNext ==
    ASSUME NEW t \in Threads, NEW p, NEW w, NEW h, NEW b,
           MovedTo(t, [pc |-> p, wait |-> w, hand |-> h, busy |-> b])
    PROVE  /\ Ahead(t)' = (1 - w) + (IF p \in {"woken", "take", "encode"} THEN 1 ELSE 0)
           /\ Held(t)' = (IF p = "encode" THEN h.count ELSE 0)
           /\ InHand(t)' = (IF p = "encode" THEN 1 ELSE 0)
           /\ Alive(t)' <=> p \notin {"off", "lost"}
  BY DEF MovedTo, Ahead, Held, InHand, Alive, At

LEMMA WakeTInv ==
    ASSUME TInv, NEW t \in Threads, Wake(t)
    PROVE  TInv'
  <1> DEFINE r == threads[t]
  <1>1. Types /\ IInv /\ IInv' /\ r.pc = "wait" /\ r.wait \in {0, 1} /\ left \in Left
    BY WakeStep DEF TInv, Wake, At, Types, Thread
  <1>2. MovedTo(t, [pc |-> "woken", wait |-> r.wait, hand |-> r.hand, busy |-> r.busy])
    BY <1>1, PcMove DEF Wake
  <1>3. /\ UNCHANGED <<graphics, avail, pending, life, owed, left, upset>>
        /\ sem' = sem - 1 /\ sem > 0 /\ sem \in Nat
    BY <1>1 DEF Wake, Types
  <1>4. Alive(t) /\ (Calm' => Calm) /\ stop' = stop
    BY <1>1, <1>3 DEF Alive, At, Calm, life
  <1>5. Posts(t) => Posts(t)'
    <2>1. Ahead(t)' = (1 - r.wait) + 1 /\ Ahead(t) = (1 - r.wait) + 0 /\ Held(t)' = 0 /\ Held(t) = 0
      BY <1>1, <1>2, AheadNext DEF Ahead, Held, At
    <2>2. sem' + Ahead(t)' = sem + Ahead(t)
      BY <1>1, <1>3, <2>1
    <2> QED
      BY <1>3, <1>4, <2>1, <2>2 DEF Posts
  <1>6. Types' /\ (Calm' => Ledger')
    BY <1>1, <1>2, <1>3, <1>4, <1>5, HandStays DEF Places
  <1> QED
    BY <1>1, <1>6 DEF TInv

LEMMA SignalTInv ==
    ASSUME TInv, NEW t \in Threads, SignalInactive(t)
    PROVE  TInv'
  <1> DEFINE r == threads[t]
  <1>1. Types /\ IInv /\ IInv' /\ r.pc = "signal" /\ r.wait \in {0, 1} /\ left \in Left /\ sem \in Nat
    BY WakeStep DEF TInv, SignalInactive, At, Types, Thread
  <1>2. MovedTo(t, [pc |-> "wait", wait |-> r.wait, hand |-> r.hand, busy |-> r.busy])
    BY <1>1, PcMove DEF SignalInactive
  <1>3. UNCHANGED <<graphics, avail, pending, sem, life, owed, left, upset>>
    BY DEF SignalInactive, queue
  <1>4. Alive(t) /\ (Calm' => Calm) /\ stop' = stop
    BY <1>1, <1>3 DEF Alive, At, Calm, life
  <1>5. Posts(t) => Posts(t)'
    <2>1. Ahead(t)' = (1 - r.wait) + 0 /\ Ahead(t) = (1 - r.wait) + 0 /\ Held(t)' = 0 /\ Held(t) = 0
      BY <1>1, <1>2, AheadNext DEF Ahead, Held, At
    <2> QED
      BY <1>3, <1>4, <2>1 DEF Posts
  <1>6. Types' /\ (Calm' => Ledger')
    BY <1>1, <1>2, <1>3, <1>4, <1>5, HandStays DEF Places
  <1> QED
    BY <1>1, <1>6 DEF TInv

LEMMA BeginTInv ==
    ASSUME TInv, NEW t \in Threads, Begin(t)
    PROVE  TInv'
  <1> DEFINE r == threads[t]
             go == ~stop /\ r.wait = 0
             p == IF stop THEN "off" ELSE IF go THEN "take" ELSE "wait"
             w == IF stop THEN 1 ELSE IF go THEN r.wait ELSE r.wait - 1
             s == IF stop THEN [r EXCEPT !.pc = "off", !.wait = 1]
                  ELSE IF go THEN [r EXCEPT !.pc = "take"]
                  ELSE [r EXCEPT !.pc = "wait", !.wait = r.wait - 1]
  <1>1. Types /\ IInv /\ IInv' /\ r.pc = "woken" /\ r.wait \in {0, 1} /\ left \in Left /\ sem \in Nat
    BY BeginStep DEF TInv, Begin, At, Types, Thread
  <1>2. threads' = [threads EXCEPT ![t] = s]
    BY DEF Begin
  <1>3. s = [pc |-> p, wait |-> w, hand |-> r.hand, busy |-> r.busy]
    <2>1. r = [pc |-> r.pc, wait |-> r.wait, hand |-> r.hand, busy |-> r.busy]
      BY <1>1, ThreadFacts
    <2>2. CASE stop
      BY <2>1, <2>2, Changed
    <2>3. CASE ~stop /\ go
      BY <2>1, <2>3, Changed
    <2>4. CASE ~stop /\ ~go
      BY <2>1, <2>4, Changed
    <2> QED
      BY <2>2, <2>3, <2>4
  <1>4. MovedTo(t, [pc |-> p, wait |-> w, hand |-> r.hand, busy |-> r.busy])
    BY <1>1, <1>2, <1>3, MovedToFacts
  <1>5. UNCHANGED <<graphics, avail, pending, sem, life, owed, left, upset>>
    BY DEF Begin, queue
  <1>6. Alive(t) /\ (Calm' => Calm) /\ stop' = stop
    BY <1>1, <1>5 DEF Alive, At, Calm, life
  <1>7. /\ p \in Places /\ w \in {0, 1} /\ p # "encode" /\ (p = "off" => w = 1) /\ (p = "take" => w = 0)
        /\ p # "off" => (1 - w) + (IF p = "take" THEN 1 ELSE 0) = (1 - r.wait) + 1
    BY <1>1 DEF Places
  <1>8. p \in {"off", "take", "wait"}
    OBVIOUS
  <1> HIDE DEF p, w, s
  <1>9. Posts(t) /\ Alive(t)' => Posts(t)'
    <2> SUFFICES ASSUME Posts(t), Alive(t)' PROVE Posts(t)'
      OBVIOUS
    <2>1. p # "off" /\ Ahead(t)' = (1 - w) + (IF p = "take" THEN 1 ELSE 0) /\ Held(t)' = 0
      BY <1>4, <1>7, <1>8, AheadNext
    <2>2. Ahead(t) = (1 - r.wait) + 1 /\ Held(t) = 0
      BY <1>1 DEF Ahead, Held, At
    <2>3. Ahead(t)' = Ahead(t)
      BY <1>7, <2>1, <2>2
    <2> QED
      BY <1>5, <1>6, <2>1, <2>2, <2>3 DEF Posts
  <1>10. Types' /\ (Calm' => Ledger')
    BY <1>1, <1>4, <1>5, <1>6, <1>7, <1>9, HandStays
  <1> QED
    BY <1>1, <1>10 DEF TInv

LEMMA EncodeTInv ==
    ASSUME TInv, NEW t \in Threads, EncodeNext(t)
    PROVE  TInv'
  <1> DEFINE r == threads[t]
  <1>1. /\ Types /\ IInv /\ IInv' /\ r.pc = "encode" /\ r.wait \in {0, 1} /\ r.hand \in Frame
        /\ left \in Left /\ sem \in Nat
    BY EncodeStep DEF TInv, EncodeNext, At, Types, Thread
  <1>2. UNCHANGED <<graphics, avail, pending, sem, life, owed>>
    BY DEF EncodeNext, queue
  <1>3. PICK e \in r.busy :
            \/ /\ threads' = [threads EXCEPT ![t].busy = @ \ {e}]
               /\ UNCHANGED <<upset, left>>
            \/ /\ left.fail > 0 /\ left' = [left EXCEPT !.fail = @ - 1]
               /\ upset' = upset \cup {"error"}
               /\ threads' = [threads EXCEPT ![t] = [@ EXCEPT !.pc = "failed", !.busy = {e}]]
    BY DEF EncodeNext
  <1>4. r = [pc |-> r.pc, wait |-> r.wait, hand |-> r.hand, busy |-> r.busy]
    BY <1>1, ThreadFacts
  <1>5. stop' = stop
    BY <1>2 DEF life
  <1>6. CASE threads' = [threads EXCEPT ![t].busy = @ \ {e}] /\ UNCHANGED <<upset, left>>
    <2> DEFINE s == [r EXCEPT !.busy = @ \ {e}]
    <2>1. threads' = [threads EXCEPT ![t] = s]
      BY <1>6
    <2>2. s = [pc |-> "encode", wait |-> r.wait, hand |-> r.hand, busy |-> r.busy \ {e}]
      <3> DEFINE z == r.busy \ {e}
      <3>1. [r EXCEPT !.busy = z] = [pc |-> r.pc, wait |-> r.wait, hand |-> r.hand, busy |-> z]
        BY <1>4, Changed
      <3> QED
        BY <1>1, <3>1
    <2>3. MovedTo(t, s)
      BY <1>1, <2>1, MovedToFacts
    <2>4. MovedTo(t, [pc |-> "encode", wait |-> r.wait, hand |-> r.hand, busy |-> r.busy \ {e}])
      BY <2>2, <2>3
    <2>5. Alive(t) /\ (Calm' => Calm)
      BY <1>1, <1>6 DEF Alive, At, Calm
    <2>6. Posts(t) => Posts(t)'
      <3>1. Ahead(t)' = Ahead(t) /\ Held(t)' = Held(t)
        BY <1>1, <2>4, AheadNext DEF Ahead, Held, At
      <3> QED
        BY <1>2, <1>5, <3>1 DEF Posts
    <2>7. Types' /\ (Calm' => Ledger')
      BY <1>1, <1>2, <1>6, <2>4, <2>5, <2>6, HandStays DEF Places
    <2> QED
      BY <1>1, <2>7 DEF TInv
  <1>7. CASE /\ left.fail > 0 /\ left' = [left EXCEPT !.fail = @ - 1]
             /\ upset' = upset \cup {"error"}
             /\ threads' = [threads EXCEPT ![t] = [@ EXCEPT !.pc = "failed", !.busy = {e}]]
    <2> DEFINE s == [r EXCEPT !.pc = "failed", !.busy = {e}]
    <2>1. threads' = [threads EXCEPT ![t] = s]
      BY <1>7
    <2>2. s = [pc |-> "failed", wait |-> r.wait, hand |-> r.hand, busy |-> {e}]
      BY <1>4, Changed, ZenonT(40)
    <2>3. MovedTo(t, s)
      BY <1>1, <2>1, MovedToFacts
    <2> HIDE DEF s
    <2>4. Thread(s)
      BY <1>1, <2>2 DEF Types, Thread, Places
    <2>5. left' \in Left
      <3>1. left.fail \in Nat /\ left.fail - 1 \in Nat
        BY <1>1, <1>7 DEF Left
      <3> QED
        BY <1>1, <1>7, <3>1 DEF Left
    <2>6. QueueTypes' /\ owed' \in Owed /\ active' \in Int /\ sem' \in Nat
      BY <1>1, <1>2 DEF Types, QueueTypes, life
    <2>7. Types'
      BY <1>1, <1>2, <2>3, <2>4, <2>5, <2>6, TypesThread
    <2>8. ~Calm'
      BY <1>7 DEF Calm
    <2> QED
      BY <1>1, <2>7, <2>8 DEF TInv
  <1> QED
    BY <1>3, <1>6, <1>7

LEMMA FullStopTInv ==
    ASSUME TInv, NEW t \in Threads, FullStop(t)
    PROVE  TInv'
  <1> DEFINE r == threads[t]
             s == [pc |-> "stuck", wait |-> r.wait, hand |-> r.hand, busy |-> r.busy]
  <1>1. Types /\ IInv /\ IInv' /\ r.pc = "failed" /\ left \in Left /\ sem \in Nat /\ active \in Int
    BY FullStopStep DEF TInv, FullStop, At, Types
  <1>2. MovedTo(t, s)
    BY <1>1, PcMove DEF FullStop
  <1>3. UNCHANGED <<graphics, avail, pending, sem, owed, left, upset>> /\ active' = active - 1
    BY DEF FullStop, queue
  <1>4. ~Calm'
    BY <1>1, <1>3, ThreadFacts DEF Calm
  <1>5. Thread(s)
    BY <1>1 DEF Types, Thread, Places
  <1>6. QueueTypes' /\ owed' \in Owed /\ active' \in Int
    BY <1>1, <1>3 DEF Types, QueueTypes
  <1> HIDE DEF s
  <1>7. Types'
    BY <1>1, <1>2, <1>3, <1>5, <1>6, TypesThread
  <1> QED
    BY <1>1, <1>4, <1>7 DEF TInv

LEMMA TakeTInv ==
    ASSUME TInv, NEW t \in Threads, TakeFrame(t)
    PROVE  TInv'
  <1> DEFINE r == threads[t]
             f == Head(pending)
             s == [pc |-> "encode", wait |-> r.wait, hand |-> f, busy |-> attached]
  <1>1. /\ Types /\ IInv /\ IInv' /\ r.pc = "take" /\ r.wait \in {0, 1} /\ left \in Left /\ sem \in Nat
        /\ pending \in Seq(Frame) /\ pending # <<>> /\ avail \in Nat /\ (Calm => Ledger)
    BY TakeStep DEF TInv, TakeFrame, At, Types, Thread, QueueTypes
  <1>2. /\ Tail(pending) \in Seq(Frame) /\ f \in Frame /\ Len(Tail(pending)) = Len(pending) - 1
        /\ Total(pending) = f.count + Total(Tail(pending))
    BY <1>1, TotalTail
  <1>3. MovedTo(t, s)
    <2> DEFINE z == [r EXCEPT !.pc = "encode", !.hand = f, !.busy = attached]
               R == [pc : {r.pc, "encode"}, wait : {r.wait}, hand : {r.hand, f}, busy : {r.busy, attached}]
    <2>1. r = [pc |-> r.pc, wait |-> r.wait, hand |-> r.hand, busy |-> r.busy]
      BY <1>1, ThreadFacts
    <2>2. z = s
      <3>1. r \in R
        BY <2>1
      <3>2. z \in R /\ z.pc = "encode" /\ z.wait = r.wait /\ z.hand = f /\ z.busy = attached
        BY <3>1
      <3> HIDE DEF r, z, f
      <3> QED
        BY <3>2
    <2>3. threads' = [threads EXCEPT ![t] = z]
      BY DEF TakeFrame
    <2> QED
      BY <1>1, <2>2, <2>3, MovedToFacts
  <1>4. UNCHANGED <<graphics, avail, sem, life, owed, left, upset>> /\ pending' = Tail(pending)
    BY DEF TakeFrame
  <1> HIDE DEF f
  <1>5. Thread(s)
    <2>1. f \in Hand
      BY <1>2 DEF Frame, Hand
    <2> QED
      BY <1>1, <1>2, <2>1 DEF Thread, Places
  <1>6. QueueTypes' /\ owed' \in Owed /\ active' \in Int
    BY <1>1, <1>2, <1>4 DEF Types, QueueTypes, life
  <1>7. Types'
    BY <1>1, <1>3, <1>4, <1>5, <1>6, TypesThread
  <1>8. ASSUME Calm' PROVE Ledger'
    <2>1. Calm /\ Ledger /\ Alive(t) /\ stop' = stop
      BY <1>1, <1>4, <1>8 DEF Calm, Alive, At, life
    <2>2. Ahead(t)' = Ahead(t) /\ Held(t)' = f.count /\ InHand(t)' = 1 /\ Held(t) = 0 /\ InHand(t) = 0
      <3>1. Ahead(t)' = (1 - r.wait) + 1 /\ Held(t)' = f.count /\ InHand(t)' = 1
        BY <1>3, AheadNext
      <3> QED
        BY <1>1, <3>1 DEF Ahead, Held, InHand, At
    <2>3. f.count \in Nat /\ Total(Tail(pending)) \in Nat /\ Total(pending) \in Nat /\ Len(pending) \in Nat
          /\ owed.done \in Nat /\ owed.queued \in Nat
      <3>1. f.count \in Nat
        BY <1>2 DEF Frame
      <3>2. owed.done \in Nat /\ owed.queued \in Nat
        BY <1>1 DEF Types, Owed
      <3>3. Len(pending) \in Nat /\ Total(pending) \in Nat /\ Total(Tail(pending)) \in Nat
        <4>1. Len(pending) \in Nat
          BY <1>1
        <4>2. Total(pending) \in Nat
          BY <1>1, TotalNat
        <4>3. Total(Tail(pending)) \in Nat
          BY <1>2, TotalNat
        <4> QED
          BY <4>1, <4>2, <4>3
      <3> QED
        BY <3>1, <3>2, <3>3
    <2>4. avail' + Len(pending') + InHand(t)' = avail + Len(pending) + InHand(t)
      BY <1>1, <1>2, <1>4, <2>2, <2>3
    <2>5. Total(pending') + Held(t)' = Total(pending) + Held(t)
      BY <1>2, <1>4, <2>2, <2>3
    <2>6. owed'.done + Total(pending') + Held(t)' = owed.done + Total(pending) + Held(t)
      BY <1>2, <1>4, <2>2, <2>3
    <2>7. Posts(t) => Posts(t)'
      BY <1>4, <2>1, <2>2, <2>5, Zenon DEF Posts
    <2>8. owed'.queued = owed.queued
      BY <1>4
    <2> QED
      BY <1>1, <1>3, <1>4, <1>7, <2>1, <2>4, <2>6, <2>7, <2>8, LedgerThread
  <1> QED
    BY <1>1, <1>7, <1>8 DEF TInv

(* What goes back to the front of the queue is what is left of the frame. *)
LEMMA RepeatFacts ==
    ASSUME NEW f \in Frame, NEW q \in Seq(Frame)
    PROVE  LET a == Repeat(f) \o q IN
           /\ a \in Seq(Frame) /\ Total(a) = (f.count - 1) + Total(q)
           /\ Len(a) + Freed(f) = Len(q) + 1 /\ Freed(f) \in Nat
  <1>1. f.ts \in Nat /\ f.count \in Nat \ {0} /\ Total(q) \in Nat /\ Len(q) \in Nat
    BY TotalNat DEF Frame
  <1>2. CASE f.count > 1
    <2> DEFINE g == [ts |-> f.ts + 1, count |-> f.count - 1]
    <2>1. g \in Frame /\ g.count = f.count - 1
      BY <1>1, <1>2 DEF Frame
    <2>2. Repeat(f) = <<g>> /\ Freed(f) = 0
      BY <1>2 DEF Repeat, Freed
    <2> HIDE DEF g
    <2>3. <<g>> \o q \in Seq(Frame) /\ Len(<<g>> \o q) = Len(q) + 1 /\ Total(<<g>> \o q) = g.count + Total(q)
      BY <2>1, TotalFront
    <2> QED
      BY <1>1, <2>1, <2>2, <2>3
  <1>3. CASE ~ (f.count > 1)
    <2>1. Repeat(f) = <<>> /\ Freed(f) = 1 /\ f.count = 1
      BY <1>1, <1>3 DEF Repeat, Freed
    <2>2. <<>> \o q = q
      OBVIOUS
    <2> QED
      BY <1>1, <2>1, <2>2
  <1> QED
    BY <1>2, <1>3

LEMMA FinishTInv ==
    ASSUME TInv, NEW t \in Threads, FinishFrame(t)
    PROVE  TInv'
  <1> DEFINE r == threads[t]
             f == r.hand
             s == [pc |-> "signal", wait |-> r.wait, hand |-> NoFrame, busy |-> r.busy]
             a == Repeat(f) \o pending
  <1>1. /\ Types /\ IInv /\ IInv' /\ r.pc = "encode" /\ r.wait \in {0, 1} /\ left \in Left /\ sem \in Nat
        /\ pending \in Seq(Frame) /\ f \in Frame /\ avail \in Nat /\ (Calm => Ledger) /\ owed \in Owed
    BY FinishStep DEF TInv, FinishFrame, At, Types, Thread, QueueTypes
  <1>2. /\ a \in Seq(Frame) /\ Total(a) = (f.count - 1) + Total(pending)
        /\ Len(a) + Freed(f) = Len(pending) + 1 /\ Freed(f) \in Nat
    BY <1>1, RepeatFacts
  <1>3. MovedTo(t, s)
    <2> DEFINE z == [r EXCEPT !.pc = "signal", !.hand = NoFrame]
               R == [pc : {r.pc, "signal"}, wait : {r.wait}, hand : {r.hand, NoFrame}, busy : {r.busy}]
    <2>1. r = [pc |-> r.pc, wait |-> r.wait, hand |-> r.hand, busy |-> r.busy]
      BY <1>1, ThreadFacts
    <2>2. z = s
      <3>1. r \in R
        BY <2>1
      <3>2. z \in R /\ z.pc = "signal" /\ z.wait = r.wait /\ z.hand = NoFrame /\ z.busy = r.busy
        BY <3>1
      <3> HIDE DEF r, z
      <3> QED
        BY <3>2
    <2>3. threads' = [threads EXCEPT ![t] = z]
      BY DEF FinishFrame
    <2> QED
      BY <1>1, <2>2, <2>3, MovedToFacts
  <1>4. /\ UNCHANGED <<graphics, sem, life, left, upset>> /\ pending' = a /\ avail' = avail + Freed(f)
        /\ owed' = [owed EXCEPT !.done = @ + 1]
    BY DEF FinishFrame
  <1> HIDE DEF a
  <1>5. Thread(s)
    BY <1>1 DEF Thread, Places, Hand, NoFrame
  <1>6. QueueTypes' /\ owed' \in Owed /\ active' \in Int
    <2>1. QueueTypes' /\ active' \in Int
      BY <1>1, <1>2, <1>4 DEF Types, QueueTypes, life
    <2>2. owed \in Owed /\ owed' = [owed EXCEPT !.done = @ + 1]
      BY <1>1, <1>4 DEF Types
    <2>3. owed' \in Owed
      BY <2>2 DEF Owed
    <2> QED
      BY <2>1, <2>3
  <1>7. Types'
    BY <1>1, <1>3, <1>4, <1>5, <1>6, TypesThread
  <1>8. ASSUME Calm' PROVE Ledger'
    <2>1. Calm /\ Ledger /\ Alive(t) /\ stop' = stop
      BY <1>1, <1>4, <1>8 DEF Calm, Alive, At, life
    <2>2. /\ Ahead(t) = (1 - r.wait) + 1 /\ Held(t) = f.count /\ InHand(t) = 1
          /\ Ahead(t)' = (1 - r.wait) + 0 /\ Held(t)' = 0 /\ InHand(t)' = 0
      <3>1. Ahead(t)' = (1 - r.wait) + 0 /\ Held(t)' = 0 /\ InHand(t)' = 0
        BY <1>3, AheadNext
      <3> QED
        BY <1>1, <3>1 DEF Ahead, Held, InHand, At
    <2>3. f.count \in Nat /\ Total(pending) \in Nat /\ Len(pending) \in Nat /\ Len(a) \in Nat
          /\ owed.done \in Nat /\ owed.queued \in Nat
      BY <1>1, <1>2, TotalNat DEF Frame, Owed
    <2>4. avail' + Len(pending') + InHand(t)' = avail + Len(pending) + InHand(t)
      BY <1>1, <1>2, <1>4, <2>2, <2>3, SMTT(30)
    <2>5. owed'.done = owed.done + 1 /\ owed'.queued = owed.queued
      BY <1>1, <1>4 DEF Owed
    <2>6. owed'.done + Total(pending') + Held(t)' = owed.done + Total(pending) + Held(t)
      <3>1. Total(pending') = (f.count - 1) + Total(pending)
        BY <1>2, <1>4
      <3>2. \A d, p, c \in Int : (d + 1) + ((c - 1) + p) + 0 = d + p + c
        OBVIOUS
      <3>3. (owed.done + 1) + ((f.count - 1) + Total(pending)) + 0 = owed.done + Total(pending) + f.count
        <4>1. owed.done \in Int /\ Total(pending) \in Int /\ f.count \in Int
          BY <2>3
        <4> HIDE DEF f
        <4> QED
          BY <3>2, <4>1
      <3> QED
        BY <2>2, <2>5, <3>1, <3>3, Zenon
    <2>7. Posts(t) => Posts(t)'
      <3> DEFINE k == IF stop THEN 1 ELSE 0
      <3>1. k \in {0, 1} /\ stop' = stop
        BY <2>1
      <3> SUFFICES ASSUME sem + Ahead(t) = Total(pending) + Held(t) + k
                   PROVE  sem' + Ahead(t)' = Total(pending') + Held(t)' + k
        BY <3>1 DEF Posts
      <3> HIDE DEF k
      <3>2. sem' = sem /\ Total(pending') = (f.count - 1) + Total(pending)
        BY <1>2, <1>4
      <3>3. sem \in Int /\ f.count \in Int /\ Total(pending) \in Int /\ r.wait \in Int /\ k \in Int
        BY <1>1, <2>3, <3>1
      <3>4. \A x, w, c, p, z \in Int :
                x + ((1 - w) + 1) = p + c + z => x + ((1 - w) + 0) = ((c - 1) + p) + 0 + z
        OBVIOUS
      <3>5. sem + ((1 - r.wait) + 1) = Total(pending) + f.count + k
        BY <2>2
      <3>6. sem + ((1 - r.wait) + 0) = ((f.count - 1) + Total(pending)) + 0 + k
        BY <3>3, <3>4, <3>5
      <3> QED
        BY <2>2, <3>2, <3>6, Zenon
    <2> QED
      BY <1>1, <1>3, <1>4, <1>7, <2>1, <2>4, <2>5, <2>6, <2>7, LedgerThread
  <1> QED
    BY <1>1, <1>7, <1>8 DEF TInv

LEMMA ThreadTInv ==
    ASSUME TInv, NEW t \in Threads, GpuThread(t)
    PROVE  TInv'
  BY WakeTInv, BeginTInv, TakeTInv, EncodeTInv, FullStopTInv, FinishTInv, SignalTInv DEF GpuThread

-----------------------------------------------------------------------------
(* start_gpu_encode and stop_gpu_encode.                                   *)

(* A caller moves on, and the queue and the thread are as before. *)
LEMMA CallerStays ==
    ASSUME TInv, NEW e \in Encoders, NEW c, ctl' = [ctl EXCEPT ![e] = c],
           ctl[e] \notin {"join", "free"} \/ c \in {"join", "free"},
           UNCHANGED <<graphics, queue, threads, exists, stop, owed>>,
           active' \in Int, left' \in Left, Calm' => Calm
    PROVE  Types' /\ (Calm' => Ledger')
  <1>1. UNCHANGED <<avail, pending, sem>> /\ Types /\ (Calm => Ledger)
    BY DEF queue, TInv
  <1>2. Clockwork'
    BY <1>1 DEF Types, Clockwork, graphics
  <1>3. Types'
    BY <1>1, <1>2 DEF Types, QueueTypes
  <1>4. \A o \in Encoders : ctl'[o] = IF o = e THEN c ELSE ctl[o]
    BY CtlFacts DEF TInv, IInv
  <1>5. ASSUME Calm' PROVE Ledger'
    <2>1. Ledger
      BY <1>1, <1>5
    <2>2. Textured' /\ Ticked'
      BY <1>1, <2>1, SameThreads DEF Ledger, Textured, Ticked
    <2>3. Stopping'
      BY <1>4, <2>1 DEF Ledger, Stopping
    <2>4. \A t \in Threads : Alive(t)' => Posts(t)'
      BY <1>1, <2>1, SameThreads DEF Ledger, Posts
    <2> QED
      BY <2>2, <2>3, <2>4 DEF Ledger
  <1> QED
    BY <1>3, <1>5

LEMMA StopThreadTInv ==
    ASSUME TInv, NEW e \in Encoders, StopThread(e)
    PROVE  TInv'
  <1>1. /\ Types /\ IInv /\ IInv' /\ (Calm => Ledger) /\ ctl[e] = "stopThread" /\ left \in Left
        /\ active \in Int /\ sem \in Nat
    BY StopThreadStep DEF TInv, StopThread, Types
  <1>2. UNCHANGED <<graphics, avail, pending, threads, exists, owed, active, left, upset>>
    BY DEF StopThread
  <1>3. CASE handle = NoThread
    <2>1. ctl' = [ctl EXCEPT ![e] = "free"] /\ UNCHANGED <<queue, stop>>
      BY <1>2, <1>3 DEF StopThread, queue
    <2> QED
      BY <1>1, <1>2, <2>1, CallerStays DEF TInv, Calm
  <1>4. CASE handle # NoThread
    <2>1. ctl' = [ctl EXCEPT ![e] = "join"] /\ stop' = TRUE /\ sem' = sem + 1
      BY <1>4 DEF StopThread
    <2>2. \A o \in Encoders : ctl'[o] = IF o = e THEN "join" ELSE ctl[o]
      BY <1>1, <2>1, CtlFacts DEF IInv
    <2>3. Clockwork' /\ QueueTypes'
      BY <1>1, <1>2 DEF Types, Clockwork, graphics, QueueTypes
    <2>4. Types'
      BY <1>1, <1>2, <2>1, <2>3 DEF Types
    <2>5. ASSUME Calm' PROVE Ledger'
      <3>1. Calm /\ Ledger /\ Lists
        BY <1>1, <1>2, <2>5 DEF Calm, IInv
      <3>2. exists /\ \A o \in Encoders : ctl[o] \notin {"join", "free"}
        BY <1>1, <3>1 DEF Lists, Last
      <3>3. ~stop
        BY <3>1, <3>2 DEF Ledger, Stopping
      <3>4. Textured' /\ Ticked'
        BY <1>2, <3>1, <3>2, SameThreads DEF Ledger, Textured, Ticked
      <3>5. Stopping'
        BY <2>2 DEF Stopping
      <3>6. ASSUME NEW t \in Threads, Alive(t)' PROVE Posts(t)'
        <4>1. sem + Ahead(t) = Total(pending) + Held(t) + 0
          BY <3>1, <3>3, <3>6, SameThreads, <1>2 DEF Ledger, Posts
        <4>2. Ahead(t)' = Ahead(t) /\ Held(t)' = Held(t)
          BY <1>2, SameThreads
        <4>3. sem \in Int /\ Ahead(t) \in Int /\ Total(pending) \in Int /\ Held(t) \in Int
          BY <1>1, Numbers
        <4>4. (sem + 1) + Ahead(t) = Total(pending) + Held(t) + 1
          BY <4>1, <4>3
        <4> QED
          BY <1>2, <2>1, <4>2, <4>4 DEF Posts
      <3> QED
        BY <3>4, <3>5, <3>6 DEF Ledger
    <2> QED
      BY <1>1, <2>4, <2>5 DEF TInv
  <1> QED
    BY <1>3, <1>4

LEMMA FreeTInv ==
    ASSUME TInv, NEW e \in Encoders, Free(e)
    PROVE  TInv'
  <1>1. /\ Types /\ IInv /\ IInv' /\ ctl[e] = "free" /\ left \in Left /\ active \in Int
    BY FreeStep DEF TInv, Free, Types
  <1>2. /\ UNCHANGED <<graphics, threads, owed, active, left, handle>> /\ exists' = FALSE
        /\ avail' = 0 /\ pending' = <<>> /\ sem' = 0 /\ upset \subseteq upset'
    BY DEF Free
  <1>3. Clockwork' /\ QueueTypes'
    <2>1. <<>> \in Seq(Frame)
      OBVIOUS
    <2> QED
      BY <1>1, <1>2, <2>1 DEF Types, Clockwork, graphics, QueueTypes
  <1>4. Types'
    BY <1>1, <1>2, <1>3 DEF Types
  <1>5. ASSUME Calm' PROVE Ledger'
    <2>1. \A t \in Threads : ~Alive(t)'
      BY <1>1, <1>2, <1>5 DEF IInv, OneThread
    <2> QED
      BY <1>2, <2>1 DEF Ledger, Textured, Ticked, Stopping
  <1> QED
    BY <1>1, <1>4, <1>5 DEF TInv

LEMMA FirstTInv ==
    ASSUME TInv, IInv', NEW e \in Encoders, attached = {}, InitGpuEncoding, Calm,
           UNCHANGED <<graphics, active>>, left' \in Left
    PROVE  TInv'
  <1>0. Types /\ IInv /\ Ledger
    BY DEF TInv
  <1>1. PICK t \in Threads :
            /\ At(t, "off")
            /\ threads' = [u \in Threads |->
                             IF u = t THEN [threads[u] EXCEPT !.pc = "wait"]
                             ELSE IF At(u, "wait") THEN [threads[u] EXCEPT !.pc = "lost"]
                             ELSE threads[u]]
    BY DEF InitGpuEncoding
  <1>2. /\ exists' = TRUE /\ stop' = FALSE /\ avail' = avail + Textures /\ sem' = 0 /\ pending' = pending
        /\ owed' = IF exists THEN owed ELSE [queued |-> 0, done |-> 0]
        /\ upset' = IF exists THEN upset \cup {"overlap"} ELSE upset \ {"lull"}
    BY DEF InitGpuEncoding
  <1>3. \A u \in Threads : /\ threads'[u].wait = threads[u].wait /\ threads'[u].hand = threads[u].hand
                           /\ threads'[u].pc = Started(u, t)
    BY <1>0, <1>1, StartFacts
  <1>4. \A u \in Threads : Thread(threads'[u])
    BY <1>0, <1>1, <1>3 DEF Types, Thread, Started, At, Places
  <1>5. QueueTypes' /\ Clockwork' /\ owed' \in Owed /\ active' \in Int
    BY <1>0, <1>2, TextureAssumption DEF Types, QueueTypes, Clockwork, graphics, Owed
  <1>6. Types'
    BY <1>2, <1>4, <1>5 DEF Types
  <1>7. ASSUME Calm' PROVE Ledger'
    <2>1. ~exists
      BY <1>2, <1>7, "overlap" \notin {"lag", "lull"} DEF Calm
    <2>2. avail = 0 /\ pending = <<>>
      BY <1>0, <2>1 DEF Ledger, Textured
    <2>3. \A u \in Threads : threads[u].pc \in {"off", "lost"}
      BY <1>0, <2>1 DEF IInv, OneThread, Alive, At
    <2>4. \A u \in Threads : threads'[u].pc \in {"off", "lost", "wait"} /\ (threads'[u].pc = "wait" => u = t)
      BY <1>3, <2>3 DEF Started, At
    <2>5. Hands' = 0 /\ Helds' = 0 /\ \A u \in Threads : Held(u)' = 0
      BY <2>4 DEF Hands, Helds, InHand, Held, At, Threads
    <2>6. Textured'
      <3>1. Len(pending') = 0 /\ Textures \in Nat
        BY <1>2, <2>2, TextureAssumption
      <3> QED
        BY <1>2, <2>2, <2>5, <3>1 DEF Textured
    <2>7. Ticked'
      <3>1. Total(pending') = 0
        BY <1>2, <2>2, TotalEmpty
      <3> QED
        BY <1>2, <2>1, <2>5, <3>1 DEF Ticked
    <2>8. Stopping'
      BY <1>2 DEF Stopping
    <2>9. ASSUME NEW u \in Threads, Alive(u)' PROVE Posts(u)'
      <3>1. u = t /\ threads'[u].pc = "wait" /\ threads'[u].wait = 1
        BY <1>0, <1>1, <1>3, <2>4, <2>9 DEF Alive, At, Types, Thread
      <3>2. Ahead(u)' = 0 /\ Total(pending') = 0
        BY <1>2, <2>2, <3>1, TotalEmpty DEF Ahead
      <3> QED
        BY <1>2, <2>5, <3>2 DEF Posts
    <2> QED
      BY <2>6, <2>7, <2>8, <2>9 DEF Ledger
  <1> QED
    BY <1>6, <1>7 DEF TInv

LEMMA AttachTInv ==
    ASSUME TInv, NEW e \in Encoders, Attach(e)
    PROVE  TInv'
  <1>1. /\ Types /\ IInv' /\ Calm /\ ctl[e] = "off" /\ ctl' = [ctl EXCEPT ![e] = "attached"]
        /\ UNCHANGED <<graphics, active>> /\ left.start > 0 /\ left' = [left EXCEPT !.start = @ - 1]
    BY AttachStep DEF TInv, Attach
  <1>2. left' \in Left
    <2>1. left.start \in Nat /\ left.start - 1 \in Nat
      BY <1>1 DEF Types, Left
    <2> QED
      BY <1>1, <2>1 DEF Types, Left
  <1>3. CASE attached = {}
    BY <1>1, <1>2, <1>3, FirstTInv DEF Attach
  <1>4. CASE attached # {}
    <2>1. UNCHANGED <<stop, exists, queue, threads, owed, upset>>
      BY <1>4 DEF Attach
    <2>2. active' \in Int
      BY <1>1 DEF Types
    <2> QED
      BY <1>1, <1>2, <2>1, <2>2, CallerStays DEF TInv
  <1> QED
    BY <1>3, <1>4

LEMMA CallerTInv ==
    ASSUME TInv, NEW e \in Encoders, Activate(e) \/ Deactivate(e) \/ Detach(e) \/ AwaitInactive(e) \/ Join(e)
    PROVE  TInv'
  <1>1. Types /\ IInv /\ left \in Left /\ active \in Int
    BY DEF TInv, Types
  <1>2. IInv'
    <2>1. CASE Activate(e) \/ Deactivate(e)
      <3>1. /\ \E c \in {"on", "deactivated"} : ctl' = [ctl EXCEPT ![e] = c]
            /\ In(e) /\ UNCHANGED <<attached, exists, handle, threads, inactive, upset>>
        BY <2>1 DEF Activate, Deactivate, In
      <3> QED
        BY <1>1, <3>1, StayStep
    <2> QED
      BY <1>1, <2>1, DetachStep, AwaitStep, JoinStep
  <1>3. UNCHANGED <<graphics, queue, threads, exists, stop, owed, left, upset>>
    BY DEF Activate, Deactivate, Detach, AwaitInactive, Join
  <1>4. active' \in Int
    BY <1>1 DEF Activate, Deactivate, Detach, AwaitInactive, Join
  <1>5. PICK c : /\ ctl' = [ctl EXCEPT ![e] = c]
                 /\ ctl[e] \notin {"join", "free"} \/ c \in {"join", "free"}
    BY DEF Activate, Deactivate, Detach, AwaitInactive, Join
  <1> QED
    BY <1>1, <1>2, <1>3, <1>4, <1>5, CallerStays DEF TInv, Calm

LEMMA AsideTInv ==
    ASSUME TInv, (\E e \in Encoders : Pause(e)) \/ UNCHANGED vars
    PROVE  TInv'
  <1>1. UNCHANGED <<graphics, queue, life, threads, inactive, owed, upset>>
    BY DEF Pause, vars
  <1>2. Types /\ (Calm => Ledger) /\ IInv
    BY DEF TInv
  <1>3. IInv'
    BY <1>1, <1>2, Untouched DEF Calm
  <1>4. Clockwork'
    BY <1>1, <1>2 DEF Types, Clockwork, graphics
  <1>5. left' \in Left
    <2>1. left \in Left
      BY <1>2 DEF Types
    <2>2. ASSUME NEW e \in Encoders, Pause(e) PROVE left' \in Left
      <3>1. left.pause - 1 \in Nat
        BY <2>1, <2>2 DEF Pause, Left
      <3> QED
        BY <2>1, <2>2, <3>1 DEF Pause, Left
    <2> QED
      BY <2>1, <2>2 DEF vars
  <1> QED
    BY <1>1, <1>2, <1>3, <1>4, <1>5, Aside DEF TInv, Calm

LEMMA NextTInv == TInv /\ [Next]_vars => TInv'
  <1> SUFFICES ASSUME TInv, [Next]_vars PROVE TInv'
    OBVIOUS
  <1>1. CASE Graphics
    BY <1>1, GraphicsTInv
  <1>2. CASE \E t \in Threads : GpuThread(t)
    BY <1>2, ThreadTInv
  <1>3. ASSUME NEW e \in Encoders, Attach(e) \/ Deactivate(e) \/ Caller(e)
        PROVE  TInv'
    BY <1>3, AttachTInv, CallerTInv, StopThreadTInv, FreeTInv DEF Caller
  <1>4. CASE (\E e \in Encoders : Pause(e)) \/ UNCHANGED vars
    BY <1>4, AsideTInv
  <1> QED
    BY <1>1, <1>2, <1>3, <1>4 DEF Next

(* Textures, ticks and posts of the semaphore balance, in every state.      *)
THEOREM LedgerKept == Spec => []TInv
  BY InitTInv, NextTInv, PTL DEF Spec

(* The queues of struct obs_core_video_mix, the semaphore and the threads   *)
(* keep their shape, whatever is started, stopped, late or failing.         *)
THEOREM TypesKept == Spec => []TypeOK
  <1>1. TInv => TypeOK
    <2> SUFFICES ASSUME TInv PROVE TypeOK
      OBVIOUS
    <2>1. Types /\ IInv
      BY DEF TInv
    <2>2. /\ clock \in Nat /\ gpc \in {"update", "output", "sleep"}
          /\ vframes \in Seq(Frame) /\ pending \in Seq(Frame)
          /\ avail \in Nat /\ sem \in Nat /\ active \in Int
      BY <2>1 DEF Types, Clockwork, QueueTypes
    <2>3. attached \subseteq Encoders /\ handle \in Threads \cup {NoThread}
      BY <2>1 DEF IInv, Shape
    <2>4. \A t \in Threads : /\ threads[t].wait \in {0, 1} /\ threads[t].busy \subseteq Encoders
                             /\ threads[t].pc \in Places
      BY <2>1 DEF Types, Thread, IInv, Shape
    <2> QED
      BY <2>2, <2>3, <2>4 DEF TypeOK, Frame, Places
  <1> QED
    BY <1>1, LedgerKept, PTL

(* No texture of gpu_encoder_avail_queue is lost or used twice, the thread  *)
(* never pops a frame that is not there, and no tick that queue_frame       *)
(* counted goes missing: for every number of textures, of encoders and of   *)
(* calls, and however late the graphics thread is.                          *)
THEOREM QueuesKept == Spec => []QueuesAgree
  <1>1. TInv => QueuesAgree
    <2> SUFFICES ASSUME TInv PROVE QueuesAgree
      OBVIOUS
    <2>1. Types /\ (Calm => Ledger)
      BY DEF TInv
    <2>2. pending \in Seq(Frame) /\ avail \in Nat /\ Len(pending) \in Nat /\ sem \in Nat
          /\ Total(pending) \in Nat /\ owed.done \in Nat
      BY <2>1, TotalNat DEF Types, QueueTypes, Owed
    <2>3. \A t \in Threads : InHand(t) \in Nat /\ Held(t) \in Nat
      BY <2>1, HoldFacts
    <2>4. TexturesConserved
      <3> SUFFICES ASSUME Calm, exists
                   PROVE  avail + Len(pending) + InHand("g1") + InHand("g2") = Textures
        BY DEF TexturesConserved
      <3>1. avail + Len(pending) + (InHand("g1") + InHand("g2")) = Textures
        BY <2>1 DEF Ledger, Textured, Hands
      <3>2. InHand("g1") \in Nat /\ InHand("g2") \in Nat
        BY <2>3 DEF Threads
      <3> QED
        BY <2>2, <3>1, <3>2
    <2>5. NeverPopsEmpty
      <3> SUFFICES ASSUME Calm, NEW t \in Threads, At(t, "take") PROVE pending # <<>>
        BY DEF NeverPopsEmpty
      <3>1. sem + Ahead(t) = Total(pending) + Held(t) + (IF stop THEN 1 ELSE 0)
        BY <2>1 DEF Ledger, Posts, Alive, At
      <3>2. Held(t) = 0
        BY DEF Held, At
      <3>3. sem + Ahead(t) <= Total(pending) + 1
        BY <2>2, <3>1, <3>2
      <3>4. threads[t].wait = 0
        BY <2>1 DEF Types, Thread, At
      <3>5. Ahead(t) = 2
        BY <3>4 DEF Ahead, At
      <3> QED
        BY <2>2, <3>3, <3>5, TotalPositive
    <2>6. TicksConserved
      <3> SUFFICES ASSUME Calm, exists
                   PROVE  owed.queued = owed.done + Total(pending) + Held("g1") + Held("g2")
        BY DEF TicksConserved
      <3>1. owed.queued = owed.done + Total(pending) + (Held("g1") + Held("g2"))
        BY <2>1 DEF Ledger, Ticked, Helds
      <3>2. Held("g1") \in Nat /\ Held("g2") \in Nat
        BY <2>3 DEF Threads
      <3> QED
        BY <2>2, <3>1, <3>2
    <2> QED
      BY <2>4, <2>5, <2>6 DEF QueuesAgree
  <1> QED
    BY <1>1, LedgerKept, PTL
=============================================================================
