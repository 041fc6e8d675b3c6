-------------------------- MODULE AsyncFramesProofs --------------------------
(***************************************************************************)
(* The reference counts and used flags of AsyncFrames are right for every  *)
(* heap, every limit, every clock and every setting of the filter.         *)
(***************************************************************************)
EXTENDS AsyncFrames, TLAPS

(* The accounts of the frames, in terms of sets: who is allocated, with    *)
(* which counts, who is cached and marked used, and the frames of the      *)
(* queue, the current one, the copier, the renderer, the filter and those  *)
(* that leave it.  No two of the last six share a frame; what is queued is *)
(* cached, while the current frame need not be.                            *)
Good(al, rf, ca, us, q, c, o, h, f, l) ==
    /\ al \subseteq Frames /\ rf \in [Frames -> Nat] /\ ca \subseteq al /\ q \subseteq ca
    /\ q \cup c \cup o \cup h \cup f \cup l \subseteq al
    /\ q \cap c = {} /\ q \cap o = {} /\ q \cap h = {} /\ q \cap f = {} /\ q \cap l = {}
    /\ c \cap o = {} /\ c \cap h = {} /\ c \cap f = {} /\ c \cap l = {}
    /\ o \cap h = {} /\ o \cap f = {} /\ o \cap l = {}
    /\ h \cap f = {} /\ h \cap l = {} /\ f \cap l = {}
    /\ us = ca \cap (q \cup c \cup o \cup h \cup f \cup l)
    /\ \A x \in al : rf[x] = Ones(x, ca) + Ones(x, o \cup h \cup f \cup l)

Q == Range(queue)
F == Range(filter.frames)
L == Range(leaving)
C == One(cur)
O == One(output)
H == One(held)

Accounts == Good(alive, refs, cache, used, Q, C, O, H, F, L)

(* A slot that has been idle too long is gone. *)
Young == \A f \in cache : unused[f] < MaxUnused

(* While a frame is copied the queue does not fill up. *)
Room ==
    /\ output # None => Len(queue) < MaxAsync
    /\ stamp \in Nat /\ sent \in Nat

(* The part of TypeOK that Accounts does not say. *)
Types ==
    /\ ts \in [Frames -> Nat] /\ no \in [Frames -> Nat]
    /\ unused \in [Frames -> 0 .. MaxUnused]
    /\ queue \in Seq(Frames) /\ Len(queue) <= MaxAsync /\ IsInjective(queue)
    /\ cur \in Frames \cup {None} /\ output \in Frames \cup {None}
    /\ held \in Frames \cup {None}

(* A filter that is on has no predecessor whose frames are still leaving. *)
FilterOK ==
    /\ filter \in [on : BOOLEAN, frames : Seq(Frames), delay : Nat, reached : BOOLEAN,
                   reset : BOOLEAN, last : Nat]
    /\ IsInjective(filter.frames)
    /\ leaving \in Seq(Frames) /\ IsInjective(leaving)
    /\ filter.on => leaving = <<>>
    /\ ~filter.on => filter.frames = <<>>

IInv == Types /\ Young /\ Room /\ FilterOK /\ Accounts

-----------------------------------------------------------------------------
(* Sequences without repetition and the sets of their elements.            *)

LEMMA EmptyFacts == Range(<<>>) = {} /\ IsInjective(<<>>)
  BY DEF Range, IsInjective

LEMMA AppendFacts ==
    ASSUME NEW S, NEW s \in Seq(S), NEW e \in S, IsInjective(s), e \notin Range(s)
    PROVE  /\ Append(s, e) \in Seq(S) /\ IsInjective(Append(s, e))
           /\ Range(Append(s, e)) = Range(s) \cup {e}
           /\ Append(s, e) # <<>>
  <1>1. /\ Append(s, e) \in Seq(S) /\ Len(Append(s, e)) = Len(s) + 1
        /\ DOMAIN s = 1 .. Len(s) /\ DOMAIN Append(s, e) = 1 .. Len(s) + 1
        /\ \A i \in 1 .. Len(s) : Append(s, e)[i] = s[i]
        /\ Append(s, e)[Len(s) + 1] = e
    OBVIOUS
  <1>2. Len(s) \in Nat
    OBVIOUS
  <1>3. Range(Append(s, e)) = Range(s) \cup {e}
    BY <1>1, <1>2 DEF Range
  <1>4. IsInjective(Append(s, e))
    BY <1>1, <1>2 DEF IsInjective, Range
  <1> QED
    BY <1>1, <1>2, <1>3, <1>4

LEMMA SingleFacts ==
    ASSUME NEW S, NEW e \in S
    PROVE  /\ <<e>> \in Seq(S) /\ IsInjective(<<e>>) /\ Range(<<e>>) = {e}
           /\ Head(<<e>>) = e /\ Tail(<<e>>) = <<>> /\ <<e>> # <<>>
  BY DEF IsInjective, Range

LEMMA TailFacts ==
    ASSUME NEW S, NEW s \in Seq(S), s # <<>>, IsInjective(s)
    PROVE  /\ Tail(s) \in Seq(S) /\ IsInjective(Tail(s))
           /\ Head(s) \in Range(s) /\ Head(s) \in S
           /\ Range(Tail(s)) = Range(s) \ {Head(s)}
  <1>1. /\ Tail(s) \in Seq(S) /\ Len(s) \in Nat \ {0} /\ Len(Tail(s)) = Len(s) - 1
        /\ DOMAIN s = 1 .. Len(s) /\ DOMAIN Tail(s) = 1 .. Len(s) - 1
        /\ \A i \in 1 .. Len(s) - 1 : Tail(s)[i] = s[i + 1]
        /\ Head(s) = s[1] /\ s[1] \in S
    OBVIOUS
  <1>2. Head(s) \in Range(s)
    BY <1>1 DEF Range
  <1>3. IsInjective(Tail(s))
    BY <1>1 DEF IsInjective
  <1>4. ASSUME NEW x \in Range(Tail(s)) PROVE x \in Range(s) \ {Head(s)}
    <2>1. PICK i \in 1 .. Len(s) - 1 : x = s[i + 1]
      BY <1>1 DEF Range
    <2> QED
      BY <1>1, <2>1 DEF Range, IsInjective
  <1>5. ASSUME NEW x \in Range(s), x # Head(s) PROVE x \in Range(Tail(s))
    <2>1. PICK i \in 1 .. Len(s) : x = s[i]
      BY <1>1 DEF Range
    <2>2. i - 1 \in 1 .. Len(s) - 1 /\ Tail(s)[i - 1] = x
      BY <1>1, <1>5, <2>1
    <2> QED
      BY <1>1, <2>2 DEF Range
  <1> QED
    BY <1>1, <1>2, <1>3, <1>4, <1>5

(* The queue without the frames up to head. *)
LEMMA RestFacts ==
    ASSUME queue \in Seq(Frames), IsInjective(queue), NEW head \in 0 .. Len(queue)
    PROVE  /\ Rest(head) \in Seq(Frames) /\ IsInjective(Rest(head))
           /\ Len(Rest(head)) <= Len(queue)
           /\ Range(Rest(head)) = Q \ {queue[k] : k \in 1 .. head}
  <1> DEFINE r == Rest(head)
  <1>1. /\ r \in Seq(Frames) /\ Len(r) = Len(queue) - head /\ Len(queue) \in Nat
        /\ DOMAIN r = 1 .. Len(queue) - head /\ DOMAIN queue = 1 .. Len(queue)
        /\ \A i \in 1 .. Len(queue) - head : r[i] = queue[head + i]
    BY DEF Rest
  <1>5. \A a, b \in 1 .. Len(queue) : queue[a] = queue[b] => a = b
    BY <1>1 DEF IsInjective
  <1>6. \A i \in 1 .. Len(queue) - head : head + i \in 1 .. Len(queue) /\ head + i > head
    BY <1>1
  <1>2. IsInjective(r)
    <2> SUFFICES ASSUME NEW a \in 1 .. Len(queue) - head, NEW b \in 1 .. Len(queue) - head,
                        queue[head + a] = queue[head + b]
                 PROVE  a = b
      BY <1>1 DEF IsInjective
    <2> QED
      BY <1>5, <1>6
  <1>3. ASSUME NEW x \in Range(r) PROVE x \in Q \ {queue[k] : k \in 1 .. head}
    <2>1. PICK i \in 1 .. Len(queue) - head : x = queue[head + i]
      BY <1>1 DEF Range
    <2>2. x \in Q
      BY <1>1, <1>6, <2>1 DEF Range, Q
    <2>3. ASSUME NEW k \in 1 .. head PROVE x # queue[k]
      BY <1>1, <1>5, <1>6, <2>1
    <2> QED
      BY <2>2, <2>3
  <1>4. ASSUME NEW x \in Q, x \notin {queue[k] : k \in 1 .. head} PROVE x \in Range(r)
    <2>1. PICK i \in 1 .. Len(queue) : x = queue[i] /\ i > head
      BY <1>1, <1>4 DEF Range, Q
    <2>2. i - head \in 1 .. Len(queue) - head /\ r[i - head] = x
      BY <1>1, <2>1
    <2> QED
      BY <1>1, <2>2 DEF Range
  <1> QED
    BY <1>1, <1>2, <1>3, <1>4

LEMMA OneFacts == One(None) = {} /\ \A f \in Frames : One(f) = {f}
  BY NoneAssumption DEF One

-----------------------------------------------------------------------------
(* What each elementary move does to the accounts.                         *)

(* The cache is freed: what nobody owns goes with it. *)
LEMMA FreeMove ==
    ASSUME NEW al, NEW rf, NEW ca, NEW us, NEW q, NEW c, NEW o, NEW h, NEW f, NEW l,
           Good(al, rf, ca, us, q, c, o, h, f, l)
    PROVE  Good(al \ Dropped(ca, rf), Decref(ca, rf), {}, {}, {}, {}, o, h, f, l)
  <1>1. \A x \in ca : rf[x] \in Nat \ {0}
    BY DEF Good, Ones
  <1>2. Decref(ca, rf) \in [Frames -> Nat]
    BY <1>1 DEF Good, Decref
  <1>3. \A x \in o \cup h \cup f \cup l : x \notin Dropped(ca, rf)
    BY DEF Good, Dropped, Ones
  <1>4. \A x \in al \ Dropped(ca, rf) :
            Decref(ca, rf)[x] = Ones(x, {}) + Ones(x, o \cup h \cup f \cup l)
    BY DEF Good, Decref, Dropped, Ones
  <1> QED
    BY <1>2, <1>3, <1>4 DEF Good

(* An idle slot is taken for a copy, others expire. *)
LEMMA ReuseMove ==
    ASSUME NEW al, NEW rf, NEW ca, NEW us, NEW q, NEW c, NEW h, NEW f, NEW l,
           Good(al, rf, ca, us, q, c, {}, h, f, l),
           NEW x \in ca \ us, NEW E \in SUBSET ((ca \ us) \ {x})
    PROVE  Good(al \ E, [rf EXCEPT ![x] = @ + 1], ca \ E, us \cup {x}, q, c, {x}, h, f, l)
  <1>1. x \notin q \cup c \cup h \cup f \cup l /\ x \in Frames
    BY DEF Good
  <1>2. \A y \in E : y \notin q \cup c \cup h \cup f \cup l
    BY DEF Good
  <1>3. [rf EXCEPT ![x] = @ + 1] \in [Frames -> Nat]
    BY DEF Good
  <1>4. \A y \in al \ E : [rf EXCEPT ![x] = @ + 1][y]
                            = Ones(y, ca \ E) + Ones(y, {x} \cup h \cup f \cup l)
    BY <1>1 DEF Good, Ones
  <1>5. us \cup {x} = (ca \ E) \cap (q \cup c \cup {x} \cup h \cup f \cup l)
    BY <1>2 DEF Good
  <1>6. /\ al \ E \subseteq Frames /\ ca \ E \subseteq al \ E /\ q \subseteq ca \ E
        /\ q \cup c \cup {x} \cup h \cup f \cup l \subseteq al \ E
    BY <1>2 DEF Good
  <1>7. /\ q \cap c = {} /\ q \cap h = {} /\ q \cap f = {} /\ q \cap l = {}
        /\ c \cap h = {} /\ c \cap f = {} /\ c \cap l = {}
        /\ h \cap f = {} /\ h \cap l = {} /\ f \cap l = {}
    BY DEF Good
  <1>8. /\ q \cap {x} = {} /\ c \cap {x} = {}
        /\ {x} \cap h = {} /\ {x} \cap f = {} /\ {x} \cap l = {}
    BY <1>1
  <1> QED
    BY <1>3, <1>4, <1>5, <1>6, <1>7, <1>8, Zenon DEF Good

(* A new slot, in the cache and in the hands of the copier. *)
LEMMA CreateMove ==
    ASSUME NEW al, NEW rf, NEW ca, NEW us, NEW q, NEW c, NEW h, NEW f, NEW l,
           Good(al, rf, ca, us, q, c, {}, h, f, l),
           NEW x \in Frames \ al
    PROVE  Good(al \cup {x}, [rf EXCEPT ![x] = 2], ca \cup {x}, us \cup {x},
                q, c, {x}, h, f, l)
  <1>1. x \notin q \cup c \cup h \cup f \cup l \cup ca
    BY DEF Good
  <1>2. [rf EXCEPT ![x] = 2] \in [Frames -> Nat]
    BY DEF Good
  <1>3. \A y \in al \cup {x} : [rf EXCEPT ![x] = 2][y]
                               = Ones(y, ca \cup {x}) + Ones(y, {x} \cup h \cup f \cup l)
    BY <1>1 DEF Good, Ones
  <1>4. us \cup {x} = (ca \cup {x}) \cap (q \cup c \cup {x} \cup h \cup f \cup l)
    BY <1>1 DEF Good
  <1>5. /\ al \cup {x} \subseteq Frames /\ ca \cup {x} \subseteq al \cup {x} /\ q \subseteq ca \cup {x}
        /\ q \cup c \cup {x} \cup h \cup f \cup l \subseteq al \cup {x}
    BY DEF Good
  <1>6. /\ q \cap c = {} /\ q \cap h = {} /\ q \cap f = {} /\ q \cap l = {}
        /\ c \cap h = {} /\ c \cap f = {} /\ c \cap l = {}
        /\ h \cap f = {} /\ h \cap l = {} /\ f \cap l = {}
    BY DEF Good
  <1>7. /\ q \cap {x} = {} /\ c \cap {x} = {}
        /\ {x} \cap h = {} /\ {x} \cap f = {} /\ {x} \cap l = {}
    BY <1>1
  <1> QED
    BY <1>2, <1>3, <1>4, <1>5, <1>6, <1>7, Zenon DEF Good

(* The copy is done: the frame is queued, or gone with its cache. *)
LEMMA PushMove ==
    ASSUME NEW al, NEW rf, NEW ca, NEW us, NEW q, NEW c, NEW h, NEW f, NEW l, NEW x,
           Good(al, rf, ca, us, q, c, {x}, h, f, l)
    PROVE  /\ rf[x] = 1 => Good(al \ {x}, [rf EXCEPT ![x] = @ - 1], ca, us, q, c, {}, h, f, l)
           /\ rf[x] # 1 => Good(al, [rf EXCEPT ![x] = @ - 1], ca, us, q \cup {x}, c, {}, h, f, l)
  <1>1. x \notin q \cup c \cup h \cup f \cup l /\ x \in Frames /\ x \in al
    BY DEF Good
  <1>2. rf[x] \in Nat \ {0} /\ (rf[x] = 1 <=> x \notin ca)
    BY <1>1 DEF Good, Ones
  <1>3. [rf EXCEPT ![x] = @ - 1] \in [Frames -> Nat]
    BY <1>1, <1>2 DEF Good
  <1>4. \A y \in al : [rf EXCEPT ![x] = @ - 1][y] = Ones(y, ca) + Ones(y, {} \cup h \cup f \cup l)
    BY <1>1 DEF Good, Ones
  <1> QED
    BY <1>1, <1>2, <1>3, <1>4 DEF Good

(* Frames leave the queue, or the current frame is given up. *)
LEMMA SkipMove ==
    ASSUME NEW al, NEW rf, NEW ca, NEW us, NEW q, NEW c, NEW o, NEW h, NEW f, NEW l,
           Good(al, rf, ca, us, q, c, o, h, f, l), NEW S \in SUBSET q
    PROVE  Good(al, rf, ca, us \ (S \cup c), q \ S, {}, o, h, f, l)
  BY DEF Good

(* A queued frame becomes the current one. *)
LEMMA ShowMove ==
    ASSUME NEW al, NEW rf, NEW ca, NEW us, NEW q, NEW o, NEW h, NEW f, NEW l,
           Good(al, rf, ca, us, q, {}, o, h, f, l), NEW x \in q
    PROVE  Good(al, rf, ca, us, q \ {x}, {x}, o, h, f, l)
  BY DEF Good

(* The current frame goes to the renderer. *)
LEMMA GetMove ==
    ASSUME NEW al, NEW rf, NEW ca, NEW us, NEW q, NEW o, NEW f, NEW l, NEW x,
           Good(al, rf, ca, us, q, {x}, o, {}, f, l)
    PROVE  Good(al, [rf EXCEPT ![x] = @ + 1], ca, us, q, {}, o, {x}, f, l)
  <1>1. x \notin q \cup o \cup f \cup l /\ x \in Frames /\ x \in al
    BY DEF Good
  <1>2. [rf EXCEPT ![x] = @ + 1] \in [Frames -> Nat]
    BY <1>1 DEF Good
  <1>3. \A y \in al : [rf EXCEPT ![x] = @ + 1][y] = Ones(y, ca) + Ones(y, o \cup {x} \cup f \cup l)
    BY <1>1 DEF Good, Ones
  <1> QED
    BY <1>1, <1>2, <1>3 DEF Good

(* The current frame goes into the filter. *)
LEMMA EnterMove ==
    ASSUME NEW al, NEW rf, NEW ca, NEW us, NEW q, NEW o, NEW h, NEW f, NEW l, NEW x,
           Good(al, rf, ca, us, q, {x}, o, h, f, l)
    PROVE  Good(al, [rf EXCEPT ![x] = @ + 1], ca, us, q, {}, o, h, f \cup {x}, l)
  <1>1. x \notin q \cup o \cup h \cup f \cup l /\ x \in Frames /\ x \in al
    BY DEF Good
  <1>2. [rf EXCEPT ![x] = @ + 1] \in [Frames -> Nat]
    BY <1>1 DEF Good
  <1>3. \A y \in al : [rf EXCEPT ![x] = @ + 1][y]
                      = Ones(y, ca) + Ones(y, o \cup h \cup (f \cup {x}) \cup l)
    BY <1>1 DEF Good, Ones
  <1> QED
    BY <1>1, <1>2, <1>3 DEF Good

(* A frame comes out of the filter and becomes the current one. *)
LEMMA LeaveMove ==
    ASSUME NEW al, NEW rf, NEW ca, NEW us, NEW q, NEW o, NEW h, NEW f, NEW l,
           Good(al, rf, ca, us, q, {}, o, h, f, l), NEW x \in f
    PROVE  Good(al, [rf EXCEPT ![x] = @ - 1], ca, us, q, {x}, o, h, f \ {x}, l)
  <1>1. x \notin q \cup o \cup h \cup l /\ x \in Frames /\ x \in al
    BY DEF Good
  <1>2. rf[x] \in Nat \ {0}
    BY <1>1 DEF Good, Ones
  <1>3. [rf EXCEPT ![x] = @ - 1] \in [Frames -> Nat]
    BY <1>1, <1>2 DEF Good
  <1>4. \A y \in al : [rf EXCEPT ![x] = @ - 1][y]
                      = Ones(y, ca) + Ones(y, o \cup h \cup (f \ {x}) \cup l)
    BY <1>1 DEF Good, Ones
  <1>5. us = ca \cap (q \cup {x} \cup o \cup h \cup (f \ {x}) \cup l)
    BY DEF Good
  <1>6. /\ al \subseteq Frames /\ ca \subseteq al /\ q \subseteq ca
        /\ q \cup {x} \cup o \cup h \cup (f \ {x}) \cup l \subseteq al
    BY <1>1 DEF Good
  <1>7. /\ q \cap o = {} /\ q \cap h = {} /\ q \cap (f \ {x}) = {} /\ q \cap l = {}
        /\ o \cap h = {} /\ o \cap (f \ {x}) = {} /\ o \cap l = {}
        /\ h \cap (f \ {x}) = {} /\ h \cap l = {} /\ (f \ {x}) \cap l = {}
    BY DEF Good
  <1>8. /\ q \cap {x} = {} /\ {x} \cap o = {} /\ {x} \cap h = {}
        /\ {x} \cap (f \ {x}) = {} /\ {x} \cap l = {}
    BY <1>1
  <1> QED
    BY <1>3, <1>4, <1>5, <1>6, <1>7, <1>8, Zenon DEF Good

(* Owners of the kind h, f or l release frames. *)
LEMMA ReleaseMove ==
    ASSUME NEW al, NEW rf, NEW ca, NEW us, NEW q, NEW c, NEW o, NEW h, NEW f, NEW l,
           Good(al, rf, ca, us, q, c, o, h, f, l), NEW S \in SUBSET (h \cup f \cup l)
    PROVE  Good(al \ Dropped(S, rf), Decref(S, rf), ca, us \ S, q, c, o, h \ S, f \ S, l \ S)
  <1>1. \A x \in S : /\ x \in al /\ x \in Frames /\ x \notin q \cup c \cup o
                     /\ rf[x] \in Nat \ {0} /\ (rf[x] = 1 <=> x \notin ca)
    BY DEF Good, Ones
  <1>2. Decref(S, rf) \in [Frames -> Nat]
    BY <1>1 DEF Good, Decref
  <1>3. Dropped(S, rf) = S \ ca
    BY <1>1 DEF Dropped
  <1>4. \A x \in al : Decref(S, rf)[x]
                      = Ones(x, ca) + Ones(x, o \cup (h \ S) \cup (f \ S) \cup (l \ S))
    BY <1>1 DEF Good, Decref, Ones
  <1> QED
    BY <1>1, <1>2, <1>3, <1>4 DEF Good

-----------------------------------------------------------------------------
(* The invariant holds at first, and every step keeps it.                  *)

LEMMA InitIInv == Init => IInv
  <1> SUFFICES ASSUME Init PROVE IInv
    OBVIOUS
  <1>1. /\ Q = {} /\ F = {} /\ L = {} /\ C = {} /\ O = {} /\ H = {}
        /\ IsInjective(<<>>)
    BY EmptyFacts, OneFacts DEF Init, Q, F, L, C, O, H, NoFilter
  <1>2. Types
    BY <1>1, NumberAssumption DEF Init, Types, NoFilter
  <1>3. Young /\ Room /\ FilterOK
    BY <1>1, NumberAssumption DEF Init, Young, Room, FilterOK, NoFilter
  <1>4. Accounts
    BY <1>1 DEF Init, Accounts, Good
  <1> QED
    BY <1>2, <1>3, <1>4 DEF IInv

(* The counts of idle slots only matter while they are below the limit. *)
LEMMA CountedFacts ==
    ASSUME Types, Accounts, Young, NEW f
    PROVE  /\ Counted(f) \in [Frames -> 0 .. MaxUnused]
           /\ \A g \in cache : Counted(f)[g] # MaxUnused \/ (g \in Idle \ {f} /\ Expired(g))
  <1>1. /\ MaxUnused \in Nat /\ Idle \subseteq cache /\ Idle \subseteq Frames
        /\ unused \in [Frames -> 0 .. MaxUnused]
    BY NumberAssumption DEF Types, Accounts, Good, Idle
  <1>2. \A g \in Idle : unused[g] + 1 \in 0 .. MaxUnused
    BY <1>1 DEF Young
  <1>3. Counted(f) \in [Frames -> 0 .. MaxUnused]
    BY <1>1, <1>2 DEF Counted
  <1>4. ASSUME NEW g \in cache, Counted(f)[g] = MaxUnused PROVE g \in Idle \ {f} /\ Expired(g)
    <2>1. g \in Frames /\ unused[g] < MaxUnused
      BY <1>1 DEF Accounts, Good, Young
    <2> QED
      BY <1>1, <1>4, <2>1 DEF Counted, Expired
  <1> QED
    BY <1>3, <1>4

LEMMA OverflowStep ==
    ASSUME IInv, Overflow \/ OutputNothing,
           UNCHANGED <<content, filter, leaving, held, output>>,
           stamp' \in Nat, sent' \in Nat
    PROVE  IInv'
  <1>1. /\ FreeAsyncCache /\ unused' = unused
    BY DEF Overflow, OutputNothing
  <1>2. /\ Q' = {} /\ C' = {} /\ F' = F /\ L' = L /\ O' = O /\ H' = H
        /\ IsInjective(<<>>)
    BY <1>1, EmptyFacts, OneFacts DEF FreeAsyncCache, Q, F, L, C, O, H, capture, delay, render
  <1>6. /\ alive' = alive \ Dropped(cache, refs) /\ refs' = Decref(cache, refs)
        /\ cache' = {} /\ used' = {} /\ queue' = <<>> /\ cur' = None
    BY <1>1 DEF FreeAsyncCache
  <1>3. Accounts'
    <2>1. Good(alive, refs, cache, used, Q, C, O, H, F, L)
      BY DEF IInv, Accounts
    <2>2. Good(alive \ Dropped(cache, refs), Decref(cache, refs), {}, {}, {}, {}, O, H, F, L)
      BY <2>1, FreeMove
    <2> QED
      BY <1>2, <1>6, <2>2 DEF Accounts
  <1>4. Types'
    <2>1. /\ ts' = ts /\ no' = no /\ unused' = unused /\ output' = output /\ held' = held
          /\ filter' = filter /\ leaving' = leaving
      BY <1>1 DEF content
    <2>2. queue' = <<>> /\ cur' = None /\ <<>> \in Seq(Frames) /\ Len(<<>>) = 0 /\ 0 <= MaxAsync
      BY <1>6, NumberAssumption
    <2> QED
      BY <1>2, <2>1, <2>2 DEF IInv, Types
  <1>5. Young' /\ Room' /\ FilterOK'
    BY <1>1, NumberAssumption DEF IInv, Young, Room, FilterOK, FreeAsyncCache, content
  <1> QED
    BY <1>3, <1>4, <1>5 DEF IInv

(* A slot is taken for the copy: UNCHANGED and the rest of OutputVideo. *)
Taking ==
    /\ output = None /\ Len(queue) < MaxAsync
    /\ stamp' \in Nat /\ sent' \in Nat
    /\ UNCHANGED <<ts, no, filter, leaving, held>>

LEMMA ReuseStep ==
    ASSUME IInv, Taking, NEW f \in Frames, Reuse(f), UNCHANGED <<queue, cur>>
    PROVE  IInv'
  <1> DEFINE E == {g \in Idle \ {f} : Expired(g)}
  <1>1. Types /\ Young /\ Room /\ FilterOK /\ Good(alive, refs, cache, used, Q, C, O, H, F, L) /\ Accounts
    BY DEF IInv, Accounts
  <1>2. /\ f \in cache \ used /\ E \in SUBSET ((cache \ used) \ {f})
        /\ alive' = alive \ E /\ cache' = cache \ E /\ used' = used \cup {f}
        /\ refs' = [refs EXCEPT ![f] = @ + 1]
        /\ unused' = [Counted(f) EXCEPT ![f] = 0] /\ output' = f
    BY DEF Reuse, Idle
  <1>3. /\ Q' = Q /\ C' = C /\ O = {} /\ O' = {f} /\ H' = H /\ F' = F /\ L' = L
    BY <1>2, OneFacts DEF Taking, Q, C, O, H, F, L
  <1>4. Good(alive \ E, [refs EXCEPT ![f] = @ + 1], cache \ E, used \cup {f}, Q, C, {f}, H, F, L)
    <2> HIDE DEF E
    <2> QED
      BY <1>1, <1>2, <1>3, ReuseMove
  <1>5. Accounts'
    <2> HIDE DEF E
    <2> QED
      BY <1>2, <1>3, <1>4 DEF Accounts
  <1>6. /\ Counted(f) \in [Frames -> 0 .. MaxUnused]
        /\ \A g \in cache : Counted(f)[g] # MaxUnused \/ g \in E
    BY <1>1, CountedFacts
  <1>7. unused' \in [Frames -> 0 .. MaxUnused] /\ MaxUnused \in Nat \ {0}
    BY <1>2, <1>6, NumberAssumption
  <1>8. Young'
    <2> HIDE DEF E
    <2> SUFFICES ASSUME NEW g \in cache \ E PROVE unused'[g] < MaxUnused
      BY <1>2 DEF Young
    <2>1. g \in Frames
      BY <1>1 DEF Good
    <2>2. CASE g = f
      BY <1>2, <1>6, <1>7, <2>1, <2>2
    <2>3. CASE g # f
      <3>1. unused'[g] = Counted(f)[g]
        BY <1>2, <1>6, <2>1, <2>3
      <3>2. Counted(f)[g] \in 0 .. MaxUnused /\ Counted(f)[g] # MaxUnused
        BY <1>6, <2>1
      <3> QED
        BY <1>7, <3>1, <3>2
    <2> QED
      BY <2>2, <2>3
  <1>9. Types'
    BY <1>1, <1>2, <1>7 DEF Types, Taking
  <1>10. Room' /\ FilterOK'
    BY <1>1 DEF Room, FilterOK, Taking
  <1> QED
    BY <1>5, <1>8, <1>9, <1>10 DEF IInv

LEMMA CreateStep ==
    ASSUME IInv, Taking, Create, UNCHANGED <<queue, cur>>
    PROVE  IInv'
  <1>1. Types /\ Young /\ Room /\ FilterOK /\ Good(alive, refs, cache, used, Q, C, O, H, F, L)
    BY DEF IInv, Accounts
  <1>2. Fresh \in Frames \ alive
    BY DEF Create, Fresh
  <1>3. /\ alive' = alive \cup {Fresh} /\ cache' = cache \cup {Fresh}
        /\ used' = used \cup {Fresh} /\ refs' = [refs EXCEPT ![Fresh] = 2]
        /\ unused' = [unused EXCEPT ![Fresh] = 0] /\ output' = Fresh
    BY DEF Create
  <1>4. Q' = Q /\ C' = C /\ O = {} /\ O' = {Fresh} /\ H' = H /\ F' = F /\ L' = L
    BY <1>2, <1>3, OneFacts DEF Taking, Q, C, O, H, F, L
  <1>5. Good(alive \cup {Fresh}, [refs EXCEPT ![Fresh] = 2], cache \cup {Fresh},
             used \cup {Fresh}, Q, C, {Fresh}, H, F, L)
    BY <1>1, <1>2, <1>4, CreateMove
  <1>6. Accounts'
    BY <1>3, <1>4, <1>5 DEF Accounts
  <1>7. MaxUnused \in Nat \ {0} /\ unused \in [Frames -> 0 .. MaxUnused] /\ cache \subseteq Frames
    BY <1>1, NumberAssumption DEF Types, Good
  <1>8. unused' \in [Frames -> 0 .. MaxUnused] /\ Young'
    BY <1>1, <1>2, <1>3, <1>7 DEF Young
  <1>9. Types'
    BY <1>1, <1>2, <1>3, <1>8 DEF Types, Taking
  <1>10. Room' /\ FilterOK'
    BY <1>1 DEF Room, FilterOK, Taking
  <1> QED
    BY <1>6, <1>8, <1>9, <1>10 DEF IInv

LEMMA ResizeStep ==
    ASSUME IInv, Taking, NEW z, CreateResized(z)
    PROVE  IInv'
  <1>1. Types /\ Young /\ Room /\ FilterOK /\ Good(alive, refs, cache, used, Q, C, O, H, F, L)
    BY DEF IInv, Accounts
  <1>2. Fresh \in Frames \ alive
    BY DEF CreateResized, Fresh
  <1>3. /\ alive' = (alive \ Dropped(cache, refs)) \cup {Fresh} /\ cache' = {Fresh}
        /\ used' = {Fresh} /\ refs' = [Decref(cache, refs) EXCEPT ![Fresh] = 2]
        /\ unused' = [unused EXCEPT ![Fresh] = 0] /\ output' = Fresh
        /\ queue' = <<>> /\ cur' = None
    BY DEF CreateResized
  <1>4. /\ Q' = {} /\ C' = {} /\ O = {} /\ O' = {Fresh} /\ H' = H /\ F' = F /\ L' = L
        /\ IsInjective(<<>>)
    BY <1>2, <1>3, OneFacts, EmptyFacts DEF Taking, Q, C, O, H, F, L
  <1>5. Good(alive \ Dropped(cache, refs), Decref(cache, refs), {}, {}, {}, {}, {}, H, F, L)
    BY <1>1, <1>4, FreeMove
  <1>6. Good((alive \ Dropped(cache, refs)) \cup {Fresh}, [Decref(cache, refs) EXCEPT ![Fresh] = 2],
             {} \cup {Fresh}, {} \cup {Fresh}, {}, {}, {Fresh}, H, F, L)
    <2>1. Fresh \in Frames \ (alive \ Dropped(cache, refs))
      BY <1>2
    <2> QED
      BY <1>5, <2>1, CreateMove
  <1>7. Accounts'
    <2>1. {} \cup {Fresh} = {Fresh}
      OBVIOUS
    <2> QED
      BY <1>3, <1>4, <1>6, <2>1 DEF Accounts
  <1>8. MaxUnused \in Nat \ {0} /\ unused \in [Frames -> 0 .. MaxUnused] /\ MaxAsync \in Nat \ {0}
    BY <1>1, NumberAssumption DEF Types
  <1>9. unused' \in [Frames -> 0 .. MaxUnused] /\ Young'
    BY <1>2, <1>3, <1>8 DEF Young
  <1>10. /\ queue' \in Seq(Frames) /\ Len(queue') = 0
    BY <1>3
  <1>11. Types'
    BY <1>1, <1>2, <1>3, <1>4, <1>8, <1>9, <1>10 DEF Types, Taking
  <1>12. Room' /\ FilterOK'
    BY <1>1, <1>8, <1>10 DEF Room, FilterOK, Taking
  <1> QED
    BY <1>7, <1>9, <1>11, <1>12 DEF IInv

LEMMA PushStep ==
    ASSUME IInv, Push
    PROVE  IInv'
  <1>1. Types /\ Young /\ Room /\ FilterOK /\ Good(alive, refs, cache, used, Q, C, O, H, F, L)
    BY DEF IInv, Accounts
  <1>2. /\ output \in Frames /\ output' = None
        /\ ts' = [ts EXCEPT ![output] = stamp] /\ no' = [no EXCEPT ![output] = sent]
        /\ refs' = [refs EXCEPT ![output] = @ - 1]
        /\ cache' = cache /\ used' = used /\ unused' = unused /\ cur' = cur
        /\ stamp' = stamp /\ sent' = sent /\ filter' = filter /\ leaving' = leaving /\ held' = held
    BY <1>1 DEF Push, Types, slots, delay, render
  <1>3. O = {output} /\ O' = {} /\ C' = C /\ H' = H /\ F' = F /\ L' = L
    BY <1>2, OneFacts DEF C, O, H, F, L
  <1>4. ts' \in [Frames -> Nat] /\ no' \in [Frames -> Nat]
    BY <1>1, <1>2 DEF Types, Room
  <1>5. Young' /\ Room' /\ FilterOK'
    BY <1>1, <1>2 DEF Young, Room, FilterOK
  <1>6. output \notin Range(queue)
    BY <1>1, <1>3 DEF Good, Q
  <1>7. CASE refs[output] = 1
    <2>1. alive' = alive \ {output} /\ queue' = queue
      BY <1>7 DEF Push
    <2>2. Q' = Q
      BY <2>1 DEF Q
    <2>3. Good(alive \ {output}, [refs EXCEPT ![output] = @ - 1], cache, used, Q, C, {}, H, F, L)
      BY <1>1, <1>3, <1>7, PushMove
    <2>4. Accounts'
      BY <1>2, <1>3, <2>1, <2>2, <2>3 DEF Accounts
    <2>5. Types'
      BY <1>1, <1>2, <1>4, <2>1 DEF Types
    <2> QED
      BY <1>5, <2>4, <2>5 DEF IInv
  <1>8. CASE refs[output] # 1
    <2>1. alive' = alive /\ queue' = Append(queue, output)
      BY <1>8 DEF Push
    <2>2. /\ queue' \in Seq(Frames) /\ IsInjective(queue') /\ Q' = Q \cup {output}
      BY <1>1, <1>2, <1>6, <2>1, AppendFacts DEF Types, Q
    <2>3. Len(queue') <= MaxAsync
      BY <1>1, <1>2, <2>1, NoneAssumption, NumberAssumption DEF Room, Types
    <2>4. Good(alive, [refs EXCEPT ![output] = @ - 1], cache, used, Q \cup {output}, C, {}, H, F, L)
      BY <1>1, <1>3, <1>8, PushMove
    <2>5. Accounts'
      BY <1>2, <1>3, <2>1, <2>2, <2>4 DEF Accounts
    <2>6. Types'
      BY <1>1, <1>2, <1>4, <2>2, <2>3 DEF Types
    <2> QED
      BY <1>5, <2>5, <2>6 DEF IInv
  <1> QED
    BY <1>7, <1>8

LEMMA GetStep ==
    ASSUME IInv, GetFrame
    PROVE  IInv'
  <1>1. Types /\ Young /\ Room /\ FilterOK /\ Good(alive, refs, cache, used, Q, C, O, H, F, L)
    BY DEF IInv, Accounts
  <1>2. /\ held = None /\ cur \in Frames /\ held' = cur /\ cur' = None
        /\ refs' = [refs EXCEPT ![cur] = @ + 1] /\ alive' = alive
        /\ cache' = cache /\ used' = used /\ unused' = unused /\ queue' = queue
        /\ output' = output /\ stamp' = stamp /\ sent' = sent /\ ts' = ts /\ no' = no
        /\ filter' = filter /\ leaving' = leaving
    BY <1>1 DEF GetFrame, Types, slots, capture, content, delay
  <1>3. C = {cur} /\ C' = {} /\ H = {} /\ H' = {cur} /\ O' = O /\ Q' = Q /\ F' = F /\ L' = L
    BY <1>2, OneFacts DEF C, O, H, F, L, Q
  <1>4. Good(alive, [refs EXCEPT ![cur] = @ + 1], cache, used, Q, {}, O, {cur}, F, L)
    BY <1>1, <1>3, GetMove
  <1>5. Accounts'
    BY <1>2, <1>3, <1>4 DEF Accounts
  <1>6. Types' /\ Young' /\ Room' /\ FilterOK'
    BY <1>1, <1>2 DEF Types, Young, Room, FilterOK
  <1> QED
    BY <1>5, <1>6 DEF IInv

(* Release of frames that the renderer, the filter or its leftovers own. *)
LEMMA ReleaseStep ==
    ASSUME IInv, NEW S \in SUBSET (H \cup F \cup L), Release(S),
           UNCHANGED <<cache, unused, queue, cur, output, stamp, sent, ts, no>>,
           H' = H \ S, F' = F \ S, L' = L \ S,
           held' \in Frames \cup {None}, FilterOK'
    PROVE  IInv'
  <1>1. Types /\ Young /\ Room /\ FilterOK /\ Good(alive, refs, cache, used, Q, C, O, H, F, L)
    BY DEF IInv, Accounts
  <1>2. Q' = Q /\ C' = C /\ O' = O
    BY DEF Q, C, O
  <1>3. Good(alive \ Dropped(S, refs), Decref(S, refs), cache, used \ S, Q, C, O, H \ S, F \ S, L \ S)
    BY <1>1, ReleaseMove
  <1>4. Accounts'
    BY <1>2, <1>3 DEF Accounts, Release
  <1>5. Types' /\ Young' /\ Room'
    BY <1>1 DEF Types, Young, Room
  <1> QED
    BY <1>4, <1>5 DEF IInv

LEMMA RenderedStep ==
    ASSUME IInv, ReleaseFrame
    PROVE  IInv'
  <1>1. Types /\ FilterOK /\ Good(alive, refs, cache, used, Q, C, O, H, F, L)
    BY DEF IInv, Accounts
  <1>2. /\ held \in Frames /\ held' = None /\ Release({held})
        /\ UNCHANGED <<cache, unused, queue, cur, output, stamp, sent, ts, no>>
        /\ filter' = filter /\ leaving' = leaving
    BY <1>1 DEF ReleaseFrame, Types, pending, capture, content, delay
  <1>3. H = {held} /\ H' = {} /\ F' = F /\ L' = L
    BY <1>2, OneFacts DEF H, F, L
  <1>4. F \ {held} = F /\ L \ {held} = L
    BY <1>1, <1>3 DEF Good
  <1>5. /\ {held} \in SUBSET (H \cup F \cup L)
        /\ H' = H \ {held} /\ F' = F \ {held} /\ L' = L \ {held}
    BY <1>3, <1>4
  <1>6. held' \in Frames \cup {None} /\ FilterOK'
    BY <1>1, <1>2 DEF Types, FilterOK
  <1> QED
    BY <1>2, <1>5, <1>6, ReleaseStep

LEMMA LeftoverStep ==
    ASSUME IInv, FilterRelease
    PROVE  IInv'
  <1>1. Types /\ FilterOK /\ Good(alive, refs, cache, used, Q, C, O, H, F, L)
    BY DEF IInv, Accounts
  <1>2. /\ leaving # <<>> /\ leaving' = Tail(leaving) /\ Release({Head(leaving)})
        /\ UNCHANGED <<cache, unused, queue, cur, output, stamp, sent, ts, no>>
        /\ filter' = filter /\ held' = held
    BY DEF FilterRelease, pending, capture, content, render
  <1>3. /\ leaving' \in Seq(Frames) /\ IsInjective(leaving')
        /\ Head(leaving) \in L /\ L' = L \ {Head(leaving)}
    BY <1>1, <1>2, TailFacts DEF FilterOK, L
  <1>4. F' = F /\ H' = H
    BY <1>2 DEF F, H
  <1>5. F \ {Head(leaving)} = F /\ H \ {Head(leaving)} = H
    BY <1>1, <1>3 DEF Good
  <1>6. /\ {Head(leaving)} \in SUBSET (H \cup F \cup L)
        /\ H' = H \ {Head(leaving)} /\ F' = F \ {Head(leaving)}
    BY <1>3, <1>4, <1>5
  <1>7. held' \in Frames \cup {None} /\ FilterOK'
    BY <1>1, <1>2, <1>3 DEF Types, FilterOK
  <1> QED
    BY <1>2, <1>3, <1>6, <1>7, ReleaseStep

LEMMA FilterStep ==
    ASSUME IInv, NEW d \in Nat, FilterAdd(d) \/ FilterUpdate(d) \/ FilterRemove
    PROVE  IInv'
  <1>1. Types /\ Young /\ Room /\ FilterOK /\ Good(alive, refs, cache, used, Q, C, O, H, F, L)
    BY DEF IInv, Accounts
  <1>2. /\ UNCHANGED <<cache, unused, queue, cur, output, stamp, sent, ts, no, held>>
        /\ Q' = Q /\ C' = C /\ O' = O /\ H' = H
    BY DEF FilterAdd, FilterUpdate, FilterRemove, slots, pending, capture, content, render,
           Q, C, O, H
  <1>3. CASE FilterUpdate(d) /\ d < filter.delay
    <2>1. /\ Release(F) /\ leaving' = leaving
          /\ filter' = [filter EXCEPT !.delay = d, !.reset = TRUE, !.reached = FALSE, !.frames = <<>>]
      BY <1>3 DEF FilterUpdate, F
    <2>2. filter'.frames = <<>> /\ IsInjective(<<>>) /\ FilterOK'
      BY <1>1, <1>2, <2>1, EmptyFacts DEF FilterOK
    <2>3. F' = {} /\ L' = L
      BY <2>1, <2>2, EmptyFacts DEF F, L
    <2>4. H \ F = H /\ L \ F = L
      BY <1>1 DEF Good
    <2>5. F \in SUBSET (H \cup F \cup L) /\ H' = H \ F /\ F' = F \ F /\ L' = L \ F
      BY <1>2, <2>3, <2>4
    <2>6. held' \in Frames \cup {None}
      BY <1>1, <1>2 DEF Types
    <2> QED
      BY <1>2, <2>1, <2>2, <2>5, <2>6, ReleaseStep
  <1>4. ASSUME UNCHANGED <<alive, refs, used>>, FilterOK', F' \cup L' = F \cup L, F' \cap L' = {}
        PROVE  IInv'
    <2>1. Good(alive, refs, cache, used, Q, C, O, H, F', L')
      <3> DEFINE f == F'
                 l == L'
      <3>1. f \cup l = F \cup L /\ f \cap l = {}
        BY <1>4
      <3> HIDE DEF f, l
      <3>2. /\ Q \cup C \cup O \cup H \cup f \cup l = Q \cup C \cup O \cup H \cup F \cup L
            /\ O \cup H \cup f \cup l = O \cup H \cup F \cup L
        BY <3>1
      <3>3. /\ Q \cap f = {} /\ Q \cap l = {} /\ C \cap f = {} /\ C \cap l = {}
            /\ O \cap f = {} /\ O \cap l = {} /\ H \cap f = {} /\ H \cap l = {}
        BY <1>1, <3>1 DEF Good
      <3>4. Good(alive, refs, cache, used, Q, C, O, H, f, l)
        BY <1>1, <3>1, <3>2, <3>3 DEF Good
      <3> QED
        BY <3>4 DEF f, l
    <2>2. Accounts'
      BY <1>2, <1>4, <2>1 DEF Accounts
    <2>3. Types' /\ Young' /\ Room'
      BY <1>1, <1>2 DEF Types, Young, Room
    <2> QED
      BY <1>4, <2>2, <2>3 DEF IInv
  <1>5. CASE FilterUpdate(d) /\ ~(d < filter.delay)
    <2>1. /\ UNCHANGED <<alive, refs, used>> /\ leaving' = leaving
          /\ filter' = [filter EXCEPT !.delay = d, !.reset = TRUE, !.reached = FALSE, !.frames = @]
      BY <1>5 DEF FilterUpdate, heap
    <2>2. filter'.frames = filter.frames /\ FilterOK'
      BY <1>1, <1>2, <2>1 DEF FilterOK
    <2>3. F' = F /\ L' = L /\ F \cap L = {}
      BY <1>1, <2>1, <2>2 DEF F, L, Good
    <2> QED
      BY <1>4, <2>1, <2>2, <2>3
  <1>6. CASE FilterAdd(d)
    <2>1. /\ UNCHANGED <<alive, refs, used>> /\ leaving' = leaving /\ leaving = <<>>
          /\ filter' = [NoFilter EXCEPT !.on = TRUE, !.delay = d, !.reset = TRUE] /\ ~filter.on
      BY <1>6 DEF FilterAdd, heap, slots
    <2>2. /\ filter'.frames = <<>> /\ filter.frames = <<>> /\ IsInjective(<<>>) /\ FilterOK'
      BY <1>1, <1>2, <2>1, EmptyFacts DEF FilterOK, NoFilter
    <2>3. F' = F /\ L' = L /\ F = {} /\ L = {}
      BY <2>1, <2>2, EmptyFacts DEF F, L
    <2> QED
      BY <1>4, <2>1, <2>2, <2>3
  <1>7. CASE FilterRemove
    <2>1. /\ UNCHANGED <<alive, refs, used>> /\ leaving' = filter.frames /\ filter' = NoFilter
          /\ leaving = <<>>
      BY <1>1, <1>7 DEF FilterRemove, FilterOK, heap, slots
    <2>2. IsInjective(<<>>) /\ FilterOK'
      BY <1>1, <2>1, EmptyFacts DEF FilterOK, NoFilter
    <2>3. F' = {} /\ L' = F /\ L = {}
      BY <2>1, EmptyFacts DEF F, L, NoFilter
    <2> QED
      BY <1>4, <2>1, <2>2, <2>3
  <1> QED
    BY <1>3, <1>5, <1>6, <1>7

(* What the filter holds after a frame has gone in, and before one comes out. *)
LEMMA KeptFacts ==
    ASSUME FilterOK, NEW f \in Frames, f \notin F
    PROVE  /\ Kept(f) \in Seq(Frames) /\ IsInjective(Kept(f)) /\ Kept(f) # <<>>
           /\ Given(f) \subseteq F /\ Range(Kept(f)) = (F \ Given(f)) \cup {f}
  <1>1. CASE Restarts(f)
    <2>1. Kept(f) = <<f>> /\ Given(f) = F
      BY <1>1 DEF Kept, Given, F
    <2> QED
      BY <2>1, SingleFacts
  <1>2. CASE ~Restarts(f)
    <2>1. Kept(f) = Append(filter.frames, f) /\ Given(f) = {}
      BY <1>2 DEF Kept, Given
    <2> QED
      BY <2>1, AppendFacts DEF FilterOK, F
  <1> QED
    BY <1>1, <1>2

(* A frame x, already the current one in these accounts, meets the filter. *)
LEMMA FilterFrameStep ==
    ASSUME FilterOK, filter.on, ts \in [Frames -> Nat], NEW x \in Frames, NEW gone, NEW q,
           Good(alive, refs, cache, used \ gone, q, {x}, O, H, F, L),
           FilterFrame(x, gone), leaving' = leaving
    PROVE  /\ FilterOK' /\ cur' \in Frames \cup {None}
           /\ Good(alive', refs', cache, used', q, C', O, H, F', L)
  <1> DEFINE G == Given(x)
             out == Head(Kept(x))
             counted == [Decref(G, refs) EXCEPT ![x] = @ + 1]
  <1>1. x \notin F /\ x \notin H /\ x \notin L
    BY DEF Good
  <1>2. /\ Kept(x) \in Seq(Frames) /\ IsInjective(Kept(x)) /\ Kept(x) # <<>>
        /\ G \subseteq F /\ Range(Kept(x)) = (F \ G) \cup {x}
    BY <1>1, KeptFacts
  <1>3. H \ G = H /\ L \ G = L /\ G \in SUBSET (H \cup F \cup L)
    BY <1>2 DEF Good
  <1>4. /\ alive' = alive \ Dropped(G, refs) /\ used' = (used \ gone) \ G
        /\ refs' = IF Reached(x) THEN [counted EXCEPT ![out] = @ - 1] ELSE counted
        /\ cur' = IF Reached(x) THEN out ELSE None
        /\ filter' = [filter EXCEPT !.frames = IF Reached(x) THEN Tail(Kept(x)) ELSE Kept(x),
                                    !.reached = Reached(x), !.reset = FALSE, !.last = ts[x]]
    BY DEF FilterFrame
  <1> HIDE DEF G
  <1>5. Good(alive \ Dropped(G, refs), Decref(G, refs), cache, (used \ gone) \ G, q, {x}, O, H, F \ G, L)
    <2>1. Good(alive \ Dropped(G, refs), Decref(G, refs), cache, (used \ gone) \ G, q, {x}, O,
               H \ G, F \ G, L \ G)
      BY <1>3, ReleaseMove
    <2> QED
      BY <1>3, <2>1
  <1>6. Good(alive', counted, cache, used', q, {}, O, H, (F \ G) \cup {x}, L)
    BY <1>4, <1>5, EnterMove
  <1>7. Reached(x) \in BOOLEAN
    BY DEF Reached
  <1>8. /\ filter'.frames = IF Reached(x) THEN Tail(Kept(x)) ELSE Kept(x)
        /\ filter'.on = filter.on
    BY <1>4 DEF FilterOK
  <1>9. /\ Tail(Kept(x)) \in Seq(Frames) /\ IsInjective(Tail(Kept(x)))
        /\ out \in Range(Kept(x)) /\ out \in Frames
        /\ Range(Tail(Kept(x))) = Range(Kept(x)) \ {out}
    BY <1>2, TailFacts
  <1>10. FilterOK'
    BY <1>2, <1>4, <1>7, <1>8, <1>9 DEF FilterOK
  <1> HIDE DEF counted, out
  <1>11. CASE Reached(x)
    <2>1. C' = {out} /\ F' = ((F \ G) \cup {x}) \ {out} /\ refs' = [counted EXCEPT ![out] = @ - 1]
      BY <1>2, <1>4, <1>8, <1>9, <1>11, OneFacts DEF C, F
    <2>2. Good(alive', [counted EXCEPT ![out] = @ - 1], cache, used', q, {out}, O, H,
               ((F \ G) \cup {x}) \ {out}, L)
      BY <1>2, <1>6, <1>9, LeaveMove
    <2> QED
      BY <1>4, <1>9, <1>10, <1>11, <2>1, <2>2
  <1>12. CASE ~Reached(x)
    <2>1. C' = {} /\ F' = (F \ G) \cup {x} /\ refs' = counted
      BY <1>2, <1>4, <1>8, <1>12, OneFacts DEF C, F
    <2> QED
      BY <1>4, <1>6, <1>10, <1>12, <2>1
  <1> QED
    BY <1>11, <1>12

LEMMA TickStep ==
    ASSUME IInv, NEW lapse \in Lapses, Tick(lapse)
    PROVE  IInv'
  <1>1. Types /\ Young /\ Room /\ FilterOK /\ Good(alive, refs, cache, used, Q, C, O, H, F, L)
    BY DEF IInv, Accounts
  <1>2. PICK head \in 0 .. Len(queue) :
            /\ queue' = Rest(head)
            /\ \/ head > 0 /\ filter.on /\ FilterFrame(queue[head], Skipped(head))
               \/ /\ head = 0 \/ ~filter.on
                  /\ cur' = IF head = 0 THEN None ELSE queue[head]
                  /\ used' = used \ Skipped(head)
                  /\ UNCHANGED <<heap, filter>>
    BY DEF Tick
  <1>3. /\ cache' = cache /\ unused' = unused /\ output' = output /\ stamp' = stamp /\ sent' = sent
        /\ ts' = ts /\ no' = no /\ leaving' = leaving /\ held' = held
        /\ O' = O /\ H' = H /\ L' = L
    BY DEF Tick, capture, content, render, O, H, L
  <1> DEFINE S == {queue[k] : k \in 1 .. head - 1}
             q == Q \ {queue[k] : k \in 1 .. head}
  <1>4. Q' = q /\ queue' \in Seq(Frames) /\ IsInjective(queue') /\ Len(queue') <= Len(queue)
    BY <1>1, <1>2, RestFacts DEF Types, Q
  <1>5. /\ DOMAIN queue = 1 .. Len(queue) /\ Len(queue) \in Nat
        /\ \A k \in 1 .. Len(queue) : queue[k] \in Frames /\ queue[k] \in Q
        /\ \A a, b \in 1 .. Len(queue) : queue[a] = queue[b] => a = b
    <2>1. queue \in Seq(Frames) /\ IsInjective(queue)
      BY <1>1 DEF Types
    <2>2. DOMAIN queue = 1 .. Len(queue) /\ Len(queue) \in Nat
      BY <2>1
    <2>3. \A k \in 1 .. Len(queue) : queue[k] \in Frames
      BY <2>1
    <2>4. \A k \in 1 .. Len(queue) : queue[k] \in Q
      BY <2>2 DEF Q, Range
    <2>5. \A a, b \in 1 .. Len(queue) : queue[a] = queue[b] => a = b
      BY <2>1, <2>2 DEF IsInjective
    <2> QED
      BY <2>2, <2>3, <2>4, <2>5
  <1>6. S \in SUBSET Q /\ Skipped(head) = S \cup C
    BY <1>5 DEF Skipped, C, One
  <1>7. Good(alive, refs, cache, used \ Skipped(head), Q \ S, {}, O, H, F, L)
    <2> HIDE DEF S
    <2> QED
      BY <1>1, <1>6, SkipMove
  <1>8. Young' /\ Room' /\ Len(queue') <= MaxAsync
    <2>1. Len(queue) \in Nat /\ Len(queue') \in Nat /\ Len(queue) <= MaxAsync /\ MaxAsync \in Nat
      BY <1>1, <1>4, <1>5, NumberAssumption DEF Types
    <2>2. Len(queue') <= MaxAsync /\ (Len(queue) < MaxAsync => Len(queue') < MaxAsync)
      BY <1>4, <2>1
    <2> QED
      BY <1>1, <1>3, <2>2 DEF Young, Room
  <1>9. CASE head = 0
    <2>1. S = {} /\ q = Q /\ Q \ S = Q
      BY <1>9
    <2>2. /\ cur' = None /\ used' = used \ Skipped(head)
          /\ alive' = alive /\ refs' = refs /\ filter' = filter
      BY <1>2, <1>9 DEF heap
    <2>3. C' = {} /\ F' = F
      BY <2>2, OneFacts DEF C, F
    <2>4. Good(alive', refs', cache', used', Q', C', O', H', F', L')
      <3> HIDE DEF S, q
      <3> QED
        BY <1>3, <1>4, <1>7, <2>1, <2>2, <2>3
    <2>5. Types'
      BY <1>1, <1>3, <1>4, <1>8, <2>2 DEF Types
    <2>6. FilterOK'
      BY <1>1, <1>3, <2>2 DEF FilterOK
    <2> QED
      BY <1>8, <2>4, <2>5, <2>6 DEF IInv, Accounts
  <1>10. CASE head # 0
    <2> DEFINE x == queue[head]
    <2>1. head \in 1 .. Len(queue) /\ x \in Frames /\ x \in Q
      BY <1>5, <1>10
    <2>2. x \in Q \ S
      <3> SUFFICES ASSUME NEW k \in 1 .. head - 1, x = queue[k] PROVE FALSE
        BY <2>1
      <3> QED
        BY <1>5, <2>1
    <2>3. q = (Q \ S) \ {x}
      <3>1. {queue[k] : k \in 1 .. head} = S \cup {x}
        <4>1. 1 .. head = (1 .. head - 1) \cup {head}
          BY <2>1
        <4> QED
          BY <4>1
      <3> QED
        BY <3>1
    <2>4. Good(alive, refs, cache, used \ Skipped(head), q, {x}, O, H, F, L)
      <3> HIDE DEF S, q, x
      <3> QED
        BY <1>7, <2>2, <2>3, ShowMove
    <2>5. CASE filter.on
      <3>1. FilterFrame(x, Skipped(head))
        BY <1>2, <1>10, <2>5
      <3>2. ts \in [Frames -> Nat]
        BY <1>1 DEF Types
      <3>3. /\ FilterOK' /\ cur' \in Frames \cup {None}
            /\ Good(alive', refs', cache, used', q, C', O, H, F', L)
        <4> HIDE DEF S, q, x
        <4> QED
          BY <1>1, <1>3, <2>1, <2>4, <2>5, <3>1, <3>2, FilterFrameStep
      <3>4. Good(alive', refs', cache', used', Q', C', O', H', F', L')
        <4> HIDE DEF S, q, x
        <4> QED
          BY <1>3, <1>4, <3>3
      <3>5. Types'
        BY <1>1, <1>3, <1>4, <1>8, <3>3 DEF Types
      <3> QED
        BY <1>8, <3>3, <3>4, <3>5 DEF IInv, Accounts
    <2>6. CASE ~filter.on
      <3>1. /\ cur' = x /\ used' = used \ Skipped(head)
            /\ alive' = alive /\ refs' = refs /\ filter' = filter
        BY <1>2, <1>10, <2>6 DEF heap
      <3>2. C' = {x} /\ F' = F
        BY <2>1, <3>1, OneFacts DEF C, F
      <3>3. Good(alive', refs', cache', used', Q', C', O', H', F', L')
        <4> HIDE DEF S, q, x
        <4> QED
          BY <1>3, <1>4, <2>4, <3>1, <3>2
      <3>4. Types'
        BY <1>1, <1>3, <1>4, <1>8, <2>1, <3>1 DEF Types
      <3>5. FilterOK'
        BY <1>1, <1>3, <3>1 DEF FilterOK
      <3> QED
        BY <1>8, <3>3, <3>4, <3>5 DEF IInv, Accounts
    <2> QED
      BY <2>5, <2>6
  <1> QED
    BY <1>9, <1>10

LEMMA OutputStep ==
    ASSUME IInv, NEW z \in Sizes, NEW step \in Steps, OutputVideo(z, step)
    PROVE  IInv'
  <1>1. stamp' \in Nat /\ sent' \in Nat
    <2>1. stamp \in Nat /\ sent \in Nat /\ step \in Nat /\ Mod \in Nat \ {0}
      BY NumberAssumption DEF IInv, Room
    <2> QED
      BY <2>1 DEF OutputVideo
  <1>2. UNCHANGED <<content, filter, leaving, held>> /\ output = None
    BY DEF OutputVideo, delay, render
  <1>3. CASE Overflow
    BY <1>1, <1>2, <1>3, OverflowStep DEF Overflow
  <1>4. CASE CacheVideo(z)
    <2>1. Taking
      BY <1>1, <1>2, <1>4 DEF Taking, CacheVideo, content
    <2> QED
      BY <1>4, <2>1, ReuseStep, CreateStep, ResizeStep DEF CacheVideo
  <1> QED
    BY <1>3, <1>4 DEF OutputVideo

LEMMA NextIInv == IInv /\ [Next]_vars => IInv'
  <1> SUFFICES ASSUME IInv, [Next]_vars PROVE IInv'
    OBVIOUS
  <1>1. CASE \E z \in Sizes, step \in Steps : OutputVideo(z, step)
    BY <1>1, OutputStep
  <1>2. CASE Push
    BY <1>2, PushStep
  <1>3. CASE OutputNothing
    <2>1. UNCHANGED <<content, filter, leaving, held, output>> /\ stamp' \in Nat /\ sent' \in Nat
      BY <1>3 DEF OutputNothing, IInv, Room, capture, delay, render
    <2> QED
      BY <1>3, <2>1, OverflowStep
  <1>4. CASE \E lapse \in Lapses : Tick(lapse)
    BY <1>4, TickStep
  <1>5. CASE GetFrame
    BY <1>5, GetStep
  <1>6. CASE ReleaseFrame
    BY <1>6, RenderedStep
  <1>7. CASE (\E d \in Delays : FilterAdd(d)) \/ (\E d \in Delays : FilterUpdate(d)) \/ FilterRemove
    <2>1. PICK d \in Nat : FilterAdd(d) \/ FilterUpdate(d) \/ FilterRemove
      BY <1>7, NumberAssumption
    <2> QED
      BY <2>1, FilterStep
  <1>8. CASE FilterRelease
    BY <1>8, LeftoverStep
  <1>9. CASE UNCHANGED vars
    <2>1. /\ Q' = Q /\ F' = F /\ L' = L /\ C' = C /\ O' = O /\ H' = H
          /\ Types' /\ Young' /\ Room' /\ FilterOK'
      BY <1>9 DEF vars, heap, slots, pending, capture, content, delay, render, IInv, Types, Young,
                  Room, FilterOK, Q, F, L, C, O, H
    <2>2. Accounts'
      BY <1>9, <2>1 DEF IInv, Accounts, vars, heap, slots
    <2> QED
      BY <2>1, <2>2 DEF IInv
  <1> QED
    BY <1>1, <1>2, <1>3, <1>4, <1>5, <1>6, <1>7, <1>8, <1>9 DEF Next

-----------------------------------------------------------------------------
(* The inductive invariant holds in every reachable state. *)
THEOREM Invariants == Spec => []IInv
  BY InitIInv, NextIInv, PTL DEF Spec

(* Type correctness, for every heap and every limit. *)
THEOREM TypeCorrect == Spec => []TypeOK
  <1>1. IInv => TypeOK
    BY DEF IInv, Types, FilterOK, Accounts, Good, TypeOK
  <1> QED
    BY <1>1, Invariants, PTL

(* No pointer dangles: the reference counts are the numbers of owners,     *)
(* whoever frees the cache while a frame is copied, filtered or rendered.  *)
THEOREM CountsAreRight == Spec => []RefsAreOwners
  <1>1. IInv => RefsAreOwners
    <2> SUFFICES ASSUME IInv PROVE RefsAreOwners
      OBVIOUS
    <2>1. Good(alive, refs, cache, used, Q, C, O, H, F, L)
      BY DEF IInv, Accounts
    <2>2. Owned = O \cup H \cup F \cup L /\ Waiting = Q \cup C
      BY DEF Owned, Waiting, O, H, F, L, Q, C
    <2>3. Owned \cup Waiting \subseteq alive
      BY <2>1, <2>2 DEF Good
    <2>4. \A f \in alive : refs[f] = Ones(f, cache) + Ones(f, Owned)
      BY <2>1, <2>2 DEF Good
    <2> QED
      BY <2>3, <2>4 DEF RefsAreOwners
  <1> QED
    BY <1>1, Invariants, PTL

(* The copy outside the lock writes to a frame that nobody else has. *)
THEOREM CopyIsExclusive == Spec => []ExclusiveCopy
  <1>1. IInv => ExclusiveCopy
    <2> SUFFICES ASSUME IInv, output # None
                 PROVE  output \notin Waiting \cup One(held) \cup Range(filter.frames) \cup Range(leaving)
      BY DEF ExclusiveCopy
    <2>1. Good(alive, refs, cache, used, Q, C, O, H, F, L)
      BY DEF IInv, Accounts
    <2>2. output \in O
      BY DEF O, One
    <2>3. output \notin Q \cup C \cup H \cup F \cup L
      BY <2>1, <2>2 DEF Good
    <2> QED
      BY <2>3 DEF Waiting, Q, C, H, F, L
  <1> QED
    BY <1>1, Invariants, PTL

(* The used flags say who has a slot, so no slot is lost or taken twice. *)
THEOREM FlagsAreRight == Spec => []UsedWhileNeeded
  <1>1. IInv => UsedWhileNeeded
    <2> SUFFICES ASSUME IInv PROVE UsedWhileNeeded
      OBVIOUS
    <2>1. used = cache \cap (Q \cup C \cup O \cup H \cup F \cup L)
      BY DEF IInv, Accounts, Good
    <2> QED
      BY <2>1 DEF UsedWhileNeeded, Owned, Waiting, Q, C, O, H, F, L
  <1> QED
    BY <1>1, Invariants, PTL

-----------------------------------------------------------------------------
(* Frames are rendered in the order of their delivery and at most once,    *)
(* for every clock of the source: whatever frame ready_async_frame comes   *)
(* to, those before it are gone and those after it stay in order.          *)

Increasing(n, s) == \A i, j \in DOMAIN s : i < j => n[s[i]] < n[s[j]]
Below(n, S, T)   == \A x \in S, y \in T : n[x] < n[y]

(* The number of the last delivery that is complete. *)
Newest == IF output = None THEN sent ELSE sent - 1

(* What may still be shown is on its way in the order of delivery: the     *)
(* current frame, those in the filter, those in the queue; and all of it   *)
(* is newer than what was shown.                                           *)
Order ==
    /\ Increasing(no, queue) /\ Increasing(no, filter.frames)
    /\ Below(no, C, F) /\ Below(no, C, Q) /\ Below(no, F, Q)
    /\ \A x \in C \cup F \cup Q : shown < no[x] /\ no[x] <= Newest
    /\ shown \in Nat /\ shown <= Newest

LEMMA InitOrder == Init => Order
  <1> SUFFICES ASSUME Init PROVE Order
    OBVIOUS
  <1>1. queue = <<>> /\ filter.frames = <<>> /\ cur = None /\ output = None /\ sent = 0 /\ shown = 0
    BY DEF Init, NoFilter
  <1>2. Q = {} /\ F = {} /\ C = {}
    BY <1>1, EmptyFacts, OneFacts DEF Q, F, C
  <1> QED
    BY <1>1, <1>2 DEF Order, Increasing, Below, Newest

(* A step that shows nothing and only lets frames go keeps the order. *)
LEMMA LessOrder ==
    ASSUME Order, Newest \in Int, Newest' \in Int, Newest <= Newest',
           no \in [Frames -> Nat], C \cup F \cup Q \subseteq Frames,
           no' = no, shown' = shown,
           C' \subseteq C, F' \subseteq F, Q' \subseteq Q,
           Increasing(no, queue'), Increasing(no, filter'.frames)
    PROVE  Order'
  <1>1. \A x \in C' \cup F' \cup Q' : shown < no[x] /\ no[x] <= Newest'
    BY DEF Order
  <1>2. Below(no, C', F') /\ Below(no, C', Q') /\ Below(no, F', Q')
    BY DEF Order, Below
  <1>3. shown \in Nat /\ shown <= Newest'
    BY DEF Order
  <1> QED
    BY <1>1, <1>2, <1>3 DEF Order

LEMMA NoneIncreasing == \A n : Increasing(n, <<>>)
  BY DEF Increasing

(* The facts of the inductive invariant that the order rests on. *)
LEMMA Basics ==
    ASSUME IInv
    PROVE  /\ no \in [Frames -> Nat] /\ sent \in Nat /\ Newest \in Int
           /\ queue \in Seq(Frames) /\ IsInjective(queue)
           /\ filter.frames \in Seq(Frames)
           /\ C \cup F \cup Q \subseteq Frames
           /\ O \cap (C \cup F \cup Q) = {} /\ F \cap Q = {}
  <1>1. Types /\ Room /\ FilterOK /\ Good(alive, refs, cache, used, Q, C, O, H, F, L)
    BY DEF IInv, Accounts
  <1>2. no \in [Frames -> Nat] /\ sent \in Nat /\ Newest \in Int
    BY <1>1 DEF Types, Room, Newest
  <1>3. filter.frames \in Seq(Frames)
    BY <1>1 DEF FilterOK
  <1>4. C \cup F \cup Q \subseteq Frames /\ O \cap (C \cup F \cup Q) = {} /\ F \cap Q = {}
    BY <1>1 DEF Good
  <1> QED
    BY <1>1, <1>2, <1>3, <1>4 DEF Types

-----------------------------------------------------------------------------
(* The capture thread. *)

LEMMA OutputOrder ==
    ASSUME IInv, Order, NEW z \in Sizes, NEW step \in Steps, OutputVideo(z, step)
    PROVE  Order'
  <1>1. /\ output = None /\ sent' = sent + 1 /\ no' = no /\ shown' = shown /\ filter' = filter
    BY DEF OutputVideo, content, delay, render
  <1>2. Newest' \in Int /\ Newest <= Newest' /\ Newest \in Int
    BY <1>1, Basics DEF Newest
  <1>3. F' = F /\ Increasing(no, filter'.frames)
    BY <1>1 DEF F, Order
  <1>4. (queue' = <<>> /\ cur' = None) \/ (queue' = queue /\ cur' = cur)
    BY DEF OutputVideo, Overflow, FreeAsyncCache, CacheVideo, CreateResized
  <1>5. C' \subseteq C /\ Q' \subseteq Q /\ Increasing(no, queue')
    BY <1>4, EmptyFacts, OneFacts, NoneIncreasing DEF C, Q, Order
  <1> QED
    BY <1>1, <1>2, <1>3, <1>5, Basics, LessOrder

LEMMA PushOrder ==
    ASSUME IInv, Order, Push
    PROVE  Order'
  <1> DEFINE x == output
  <1>1. /\ x # None /\ output' = None /\ sent' = sent /\ shown' = shown
        /\ no' = [no EXCEPT ![x] = sent] /\ filter' = filter /\ cur' = cur
        /\ queue' = queue \/ queue' = Append(queue, x)
    BY DEF Push, delay, render
  <1>2. x \in Frames /\ x \notin C \cup F \cup Q
    <2>1. x \in Frames /\ O = {x}
      BY <1>1, OneFacts DEF IInv, Types, O
    <2> QED
      BY <2>1, Basics
  <1>3. Newest = sent - 1 /\ Newest' = sent /\ sent \in Nat
    BY <1>1, Basics DEF Newest
  <1>4. C' = C /\ F' = F
    BY <1>1 DEF C, F
  <1>5. /\ \A y \in C \cup F \cup Q : no'[y] = no[y] /\ no[y] \in Nat
        /\ no'[x] = sent
    BY <1>1, <1>2, Basics
  <1>6. Q' \subseteq Q \cup {x}
    BY <1>1, <1>2, Basics, AppendFacts DEF Q
  <1>7. \A y \in C \cup F \cup Q \cup {x} : shown < no'[y] /\ no'[y] <= sent
    BY <1>3, <1>5 DEF Order
  <1>8. Below(no', C, F) /\ Below(no', C, Q \cup {x}) /\ Below(no', F, Q \cup {x})
    BY <1>3, <1>5 DEF Order, Below
  <1>9. \A i \in DOMAIN queue : queue[i] \in Q
    BY DEF Q, Range
  <1>10. Increasing(no', queue)
    BY <1>5, <1>9 DEF Order, Increasing
  <1>11. Increasing(no', Append(queue, x))
    <2>1. /\ DOMAIN queue = 1 .. Len(queue) /\ DOMAIN Append(queue, x) = 1 .. Len(queue) + 1
          /\ \A i \in 1 .. Len(queue) : Append(queue, x)[i] = queue[i]
          /\ Append(queue, x)[Len(queue) + 1] = x /\ Len(queue) \in Nat
      BY <1>2, Basics
    <2>2. \A i \in 1 .. Len(queue) : no'[queue[i]] < sent
      BY <1>3, <1>5, <1>9, <2>1 DEF Order
    <2> QED
      BY <1>5, <1>10, <2>1, <2>2 DEF Increasing
  <1>12. Increasing(no', filter.frames)
    <2>1. \A i \in DOMAIN filter.frames : filter.frames[i] \in F
      BY DEF F, Range
    <2> QED
      BY <1>5, <2>1 DEF Order, Increasing
  <1>13. shown \in Nat /\ shown <= sent
    BY <1>3 DEF Order
  <1> HIDE DEF x
  <1>14. Increasing(no', queue') /\ Increasing(no', filter'.frames)
    BY <1>1, <1>10, <1>11, <1>12
  <1>15. Below(no', C', F') /\ Below(no', C', Q') /\ Below(no', F', Q')
    BY <1>4, <1>6, <1>8 DEF Below
  <1>16. \A y \in C' \cup F' \cup Q' : shown' < no'[y] /\ no'[y] <= Newest'
    BY <1>1, <1>3, <1>4, <1>6, <1>7
  <1> QED
    BY <1>1, <1>3, <1>13, <1>14, <1>15, <1>16 DEF Order

-----------------------------------------------------------------------------
(* The graphics thread. *)

LEMMA TailOrder ==
    ASSUME NEW S, NEW s \in Seq(S), s # <<>>, NEW n, Increasing(n, s)
    PROVE  /\ Increasing(n, Tail(s))
           /\ \A y \in Range(Tail(s)) : n[Head(s)] < n[y]
  <1>1. /\ Len(s) \in Nat \ {0} /\ Head(s) = s[1]
        /\ DOMAIN s = 1 .. Len(s) /\ DOMAIN Tail(s) = 1 .. Len(s) - 1
        /\ \A i \in 1 .. Len(s) - 1 : Tail(s)[i] = s[i + 1]
    OBVIOUS
  <1>2. \A i, j \in 1 .. Len(s) : i < j => n[s[i]] < n[s[j]]
    BY <1>1 DEF Increasing
  <1>3. \A i, j \in 1 .. Len(s) - 1 : i < j => n[s[i + 1]] < n[s[j + 1]]
    BY <1>1, <1>2
  <1>4. \A i \in 1 .. Len(s) - 1 : n[s[1]] < n[Tail(s)[i]]
    BY <1>1, <1>2
  <1>5. Increasing(n, Tail(s))
    BY <1>1, <1>3 DEF Increasing
  <1>6. \A y \in Range(Tail(s)) : n[Head(s)] < n[y]
    BY <1>1, <1>4 DEF Range
  <1> QED
    BY <1>5, <1>6

LEMMA RestOrder ==
    ASSUME queue \in Seq(Frames), NEW head \in 0 .. Len(queue), Increasing(no, queue)
    PROVE  /\ Increasing(no, Rest(head))
           /\ head > 0 => \A y \in Range(Rest(head)) : no[queue[head]] < no[y]
  <1> DEFINE r == Rest(head)
             m == Len(queue) - head
  <1>1. /\ Len(queue) \in Nat /\ m \in Nat
        /\ DOMAIN r = 1 .. m /\ DOMAIN queue = 1 .. Len(queue)
        /\ \A i \in 1 .. m : r[i] = queue[head + i]
    BY DEF Rest
  <1>2. \A i, j \in 1 .. Len(queue) : i < j => no[queue[i]] < no[queue[j]]
    BY <1>1 DEF Increasing
  <1>3. \A i, j \in 1 .. m : i < j => no[r[i]] < no[r[j]]
    <2>1. \A i, j \in 1 .. m : i < j => no[queue[head + i]] < no[queue[head + j]]
      BY <1>1, <1>2
    <2> QED
      BY <1>1, <2>1
  <1>4. head > 0 => \A i \in 1 .. m : no[queue[head]] < no[queue[head + i]]
    BY <1>1, <1>2
  <1> HIDE DEF r, m
  <1>5. Increasing(no, r)
    BY <1>1, <1>3 DEF Increasing
  <1>6. head > 0 => \A y \in Range(r) : no[queue[head]] < no[y]
    BY <1>1, <1>4 DEF Range
  <1> QED
    BY <1>5, <1>6 DEF r

(* A frame from the queue is newer than all the filter holds. *)
LEMMA KeptOrder ==
    ASSUME IInv, Order, NEW x \in Q
    PROVE  /\ Increasing(no, Kept(x)) /\ Kept(x) \in Seq(Frames) /\ Kept(x) # <<>>
           /\ Range(Kept(x)) \subseteq F \cup {x} /\ IsInjective(Kept(x))
  <1>1. x \in Frames /\ x \notin F /\ FilterOK /\ filter.frames \in Seq(Frames)
    BY Basics DEF IInv
  <1>2. /\ Kept(x) \in Seq(Frames) /\ IsInjective(Kept(x)) /\ Kept(x) # <<>>
        /\ Range(Kept(x)) \subseteq F \cup {x}
    BY <1>1, KeptFacts
  <1>3. CASE Restarts(x)
    BY <1>2, <1>3 DEF Kept, Increasing
  <1>4. CASE ~Restarts(x)
    <2> DEFINE s == filter.frames
    <2>1. /\ Kept(x) = Append(s, x) /\ Len(s) \in Nat
          /\ DOMAIN s = 1 .. Len(s) /\ DOMAIN Append(s, x) = 1 .. Len(s) + 1
          /\ \A i \in 1 .. Len(s) : Append(s, x)[i] = s[i]
          /\ Append(s, x)[Len(s) + 1] = x
      BY <1>1, <1>4 DEF Kept
    <2>2. \A i \in 1 .. Len(s) : no[s[i]] < no[x]
      <3>1. \A i \in 1 .. Len(s) : s[i] \in F
        BY <2>1 DEF F, Range
      <3> QED
        BY <3>1 DEF Order, Below
    <2>3. \A i, j \in 1 .. Len(s) : i < j => no[s[i]] < no[s[j]]
      BY <2>1 DEF Order, Increasing
    <2> HIDE DEF s
    <2>4. Increasing(no, Append(s, x))
      BY <2>1, <2>2, <2>3 DEF Increasing
    <2> QED
      BY <1>2, <2>1, <2>4
  <1> QED
    BY <1>2, <1>3, <1>4

(* What comes out of the filter is its oldest frame. *)
LEMMA FilterOrder ==
    ASSUME IInv, Order, NEW x \in Q, NEW gone, FilterFrame(x, gone)
    PROVE  /\ C' \cup F' \subseteq F \cup {x}
           /\ Increasing(no, filter'.frames) /\ Below(no, C', F')
  <1>1. /\ Increasing(no, Kept(x)) /\ Kept(x) \in Seq(Frames) /\ Kept(x) # <<>>
        /\ Range(Kept(x)) \subseteq F \cup {x} /\ IsInjective(Kept(x))
    BY KeptOrder
  <1>2. /\ Head(Kept(x)) \in Range(Kept(x)) /\ Head(Kept(x)) \in Frames
        /\ Range(Tail(Kept(x))) = Range(Kept(x)) \ {Head(Kept(x))}
    BY <1>1, TailFacts
  <1>3. /\ Increasing(no, Tail(Kept(x)))
        /\ \A y \in Range(Tail(Kept(x))) : no[Head(Kept(x))] < no[y]
    BY <1>1, TailOrder
  <1>4. /\ filter' = [filter EXCEPT !.frames = IF Reached(x) THEN Tail(Kept(x)) ELSE Kept(x),
                                    !.reached = Reached(x), !.reset = FALSE, !.last = ts[x]]
        /\ cur' = IF Reached(x) THEN Head(Kept(x)) ELSE None
    BY DEF FilterFrame
  <1>5. filter'.frames = IF Reached(x) THEN Tail(Kept(x)) ELSE Kept(x)
    BY <1>4 DEF IInv, FilterOK
  <1>6. CASE Reached(x)
    <2>1. C' = {Head(Kept(x))} /\ F' = Range(Tail(Kept(x)))
      BY <1>2, <1>4, <1>5, <1>6, OneFacts DEF C, F
    <2> QED
      BY <1>1, <1>2, <1>3, <1>5, <1>6, <2>1 DEF Below
  <1>7. CASE ~Reached(x)
    <2>1. C' = {} /\ F' = Range(Kept(x))
      BY <1>4, <1>5, <1>7, OneFacts DEF C, F
    <2> QED
      BY <1>1, <1>5, <1>7, <2>1 DEF Below
  <1> QED
    BY <1>6, <1>7

LEMMA TickOrder ==
    ASSUME IInv, Order, NEW lapse \in Lapses, Tick(lapse)
    PROVE  Order'
  <1>1. PICK head \in 0 .. Len(queue) :
            /\ queue' = Rest(head)
            /\ \/ head > 0 /\ filter.on /\ FilterFrame(queue[head], Skipped(head))
               \/ /\ head = 0 \/ ~filter.on
                  /\ cur' = IF head = 0 THEN None ELSE queue[head]
                  /\ used' = used \ Skipped(head)
                  /\ UNCHANGED <<heap, filter>>
    BY DEF Tick
  <1>2. no' = no /\ shown' = shown /\ Newest' = Newest
    BY DEF Tick, capture, content, render, Newest
  <1>3. Q' \subseteq Q /\ Increasing(no, queue')
    <2>1. queue \in Seq(Frames) /\ IsInjective(queue) /\ Increasing(no, queue)
      BY Basics DEF Order
    <2> QED
      BY <1>1, <2>1, RestFacts, RestOrder DEF Q
  <1>4. CASE head = 0
    <2>1. C' = {} /\ F' = F /\ filter' = filter
      BY <1>1, <1>4, OneFacts DEF C, F
    <2> QED
      BY <1>2, <1>3, <2>1, Basics, LessOrder DEF Order
  <1>5. CASE head # 0
    <2> DEFINE x == queue[head]
    <2>1. x \in Q /\ x \in Frames
      <3>1. queue \in Seq(Frames) /\ head \in DOMAIN queue
        BY <1>5, Basics
      <3> QED
        BY <3>1 DEF Q, Range
    <2>2. \A y \in Q' : no[x] < no[y]
      BY <1>1, <1>5, Basics, RestOrder DEF Order, Q
    <2>3. /\ C' \cup F' \subseteq F \cup {x}
          /\ Increasing(no, filter'.frames) /\ Below(no, C', F')
      <3>1. CASE filter.on
        BY <1>1, <1>5, <2>1, <3>1, FilterOrder
      <3>2. CASE ~filter.on
        <4>1. cur' = x /\ filter' = filter /\ filter.frames = <<>>
          BY <1>1, <1>5, <3>2 DEF IInv, FilterOK
        <4>2. C' = {x} /\ F' = F /\ F = {}
          BY <2>1, <4>1, OneFacts, EmptyFacts DEF C, F
        <4> QED
          BY <4>1, <4>2 DEF Below, Order
      <3> QED
        BY <3>1, <3>2
    <2> HIDE DEF x
    <2>4. Below(no, C', Q') /\ Below(no, F', Q')
      BY <1>3, <2>2, <2>3 DEF Below, Order
    <2>5. \A y \in C' \cup F' \cup Q' : shown < no[y] /\ no[y] <= Newest
      BY <1>3, <2>1, <2>3 DEF Order
    <2> QED
      BY <1>2, <1>3, <2>3, <2>4, <2>5 DEF Order
  <1> QED
    BY <1>4, <1>5

(* Nothing that may still be shown is older than the frame now shown. *)
LEMMA GetOrder ==
    ASSUME IInv, Order, GetFrame
    PROVE  Order' /\ held' = cur /\ no[cur] > shown /\ no' = no
  <1>1. /\ cur # None /\ held' = cur /\ cur' = None /\ shown' = no[cur] /\ no' = no
        /\ queue' = queue /\ filter' = filter /\ output' = output /\ sent' = sent
    BY DEF GetFrame, capture, content, delay
  <1>2. C = {cur} /\ C' = {} /\ F' = F /\ Q' = Q /\ Newest' = Newest
    <2>1. cur \in Frames
      BY <1>1 DEF IInv, Types
    <2> QED
      BY <1>1, <2>1, OneFacts DEF C, F, Q, Newest
  <1>3. no[cur] > shown /\ no[cur] <= Newest /\ no[cur] \in Nat
    BY <1>2, Basics DEF Order
  <1>4. \A y \in F \cup Q : no[cur] < no[y] /\ no[y] <= Newest
    BY <1>2 DEF Order, Below
  <1>5. Below(no, {}, F) /\ Below(no, {}, Q) /\ Below(no, F, Q)
    BY DEF Below, Order
  <1>6. Increasing(no, queue) /\ Increasing(no, filter.frames)
    BY DEF Order
  <1>7. Order'
    BY <1>1, <1>2, <1>3, <1>4, <1>5, <1>6 DEF Order
  <1> QED
    BY <1>1, <1>3, <1>7

(* The other steps let frames go, or do not touch them. *)
LEMMA QuietOrder ==
    ASSUME IInv, Order,
           \/ OutputNothing \/ ReleaseFrame \/ FilterRemove \/ FilterRelease
           \/ (\E d \in Delays : FilterAdd(d)) \/ (\E d \in Delays : FilterUpdate(d))
           \/ UNCHANGED vars
    PROVE  Order'
  <1>1. no' = no /\ shown' = shown /\ output' = output /\ sent' = sent
    BY DEF OutputNothing, ReleaseFrame, FilterRemove, FilterRelease, FilterAdd, FilterUpdate,
           vars, capture, content, render
  <1>2. Newest' = Newest
    BY <1>1 DEF Newest
  <1>3. (queue' = <<>> /\ cur' = None) \/ (queue' = queue /\ cur' = cur)
    BY DEF OutputNothing, FreeAsyncCache, ReleaseFrame, FilterRemove, FilterRelease, FilterAdd,
           FilterUpdate, vars, pending
  <1>4. filter'.frames = <<>> \/ filter'.frames = filter.frames
    <2>1. CASE \E d \in Delays : FilterUpdate(d)
      <3>1. PICK d \in Delays : FilterUpdate(d)
        BY <2>1
      <3>2. filter' = [filter EXCEPT !.delay = d, !.reset = TRUE, !.reached = FALSE,
                                     !.frames = IF d < filter.delay THEN <<>> ELSE @]
        BY <3>1 DEF FilterUpdate
      <3> QED
        BY <3>2 DEF IInv, FilterOK
    <2>2. CASE FilterRemove
      BY <2>2 DEF FilterRemove, NoFilter
    <2>3. CASE \E d \in Delays : FilterAdd(d)
      <3>1. PICK d \in Delays : filter' = [NoFilter EXCEPT !.on = TRUE, !.delay = d, !.reset = TRUE]
        BY <2>3 DEF FilterAdd
      <3>2. filter'.frames = <<>>
        BY <3>1 DEF NoFilter
      <3> QED
        BY <3>2
    <2>4. CASE OutputNothing \/ ReleaseFrame \/ FilterRelease \/ UNCHANGED vars
      BY <2>4 DEF OutputNothing, ReleaseFrame, FilterRelease, vars, delay
    <2> QED
      BY <2>1, <2>2, <2>3, <2>4
  <1>5. C' \subseteq C /\ Q' \subseteq Q /\ Increasing(no, queue')
    BY <1>3, EmptyFacts, OneFacts, NoneIncreasing DEF C, Q, Order
  <1>6. F' \subseteq F /\ Increasing(no, filter'.frames)
    BY <1>4, EmptyFacts, NoneIncreasing DEF F, Order
  <1>7. Newest \in Int /\ Newest <= Newest'
    BY <1>2, Basics
  <1> QED
    BY <1>1, <1>2, <1>5, <1>6, <1>7, Basics, LessOrder

LEMMA NextOrder == IInv /\ Order /\ [Next]_vars => Order'
  <1> SUFFICES ASSUME IInv, Order, [Next]_vars PROVE Order'
    OBVIOUS
  <1>1. CASE \E z \in Sizes, step \in Steps : OutputVideo(z, step)
    BY <1>1, OutputOrder
  <1>2. CASE Push
    BY <1>2, PushOrder
  <1>3. CASE \E lapse \in Lapses : Tick(lapse)
    BY <1>3, TickOrder
  <1>4. CASE GetFrame
    BY <1>4, GetOrder
  <1>5. CASE \/ OutputNothing \/ ReleaseFrame \/ FilterRemove \/ FilterRelease
             \/ (\E d \in Delays : FilterAdd(d)) \/ (\E d \in Delays : FilterUpdate(d))
             \/ UNCHANGED vars
    BY <1>5, QuietOrder
  <1> QED
    BY <1>1, <1>2, <1>3, <1>4, <1>5 DEF Next

(* What may still be shown is in the order of delivery, in every state. *)
THEOREM OrderInvariant == Spec => []Order
  BY InitOrder, NextOrder, Invariants, PTL DEF Spec

(* Only obs_source_get_frame gives a frame to the renderer, and that frame *)
(* is newer than the one rendered before.                                  *)
LEMMA ShownStep ==
    ASSUME IInv, Order, [Next]_vars, held = None, held' # None
    PROVE  no[held'] > shown /\ no' = no
  <1>1. CASE GetFrame
    BY <1>1, GetOrder
  <1>2. CASE ~GetFrame
    <2>1. held' = held \/ held' = None
      BY <1>2 DEF Next, OutputVideo, Push, OutputNothing, Tick, ReleaseFrame, FilterAdd,
         FilterUpdate, FilterRemove, FilterRelease, vars, render
    <2> QED
      BY <2>1
  <1> QED
    BY <1>1, <1>2

(* Frames are rendered in the order of their delivery and at most once,    *)
(* for every heap, every clock of the source and every use of the filter.  *)
THEOREM FramesInOrder == Spec => ShownInOrder
  <1>1. IInv /\ Order /\ [Next]_vars => [held = None /\ held' # None => no[held'] > shown]_vars
    BY ShownStep
  <1> QED
    BY <1>1, Invariants, OrderInvariant, PTL DEF Spec, ShownInOrder

=============================================================================
