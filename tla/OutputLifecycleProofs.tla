------------------------ MODULE OutputLifecycleProofs ------------------------
(***************************************************************************)
(* The life of an output, for all plans and bounds: the types of its       *)
(* state; for sessions without retries that are started again only when    *)
(* the threads of the last one are gone, that encoders never stay hooked   *)
(* to an output that has ended; and for one session without retries, with  *)
(* any number of stops and faults, that no two threads wait for each other *)
(* for ever, that a session that has ended stays so and that the reason    *)
(* given for its end is the true one.                                      *)
(*                                                                         *)
(* Parts: the stacks, as sets of steps of different ranks; what each step  *)
(* does to the stacks; the types; the patient sessions; the one session:   *)
(* its connect thread, its send thread and the ends of its capture; who is *)
(* to blame for the end.                                                   *)
(***************************************************************************)
EXTENDS OutputLifecycle, SequenceTheorems, TLAPS

(* A stack as the set of its steps: steps are pushed below the rank of the  *)
(* one they replace, so no step is pending twice and the head is the least. *)
Signals == {"signalSuccess", "signalDisconnected", "signalConnectFailed", "signalBadPath",
            "signalEncodeError"}

Rank(x) ==
    IF x = "endClear" THEN 1 ELSE
    IF x = "endJoin" THEN 2 ELSE
    IF x = "endSpawn" THEN 3 ELSE
    IF x = "endCaptureQuietly" THEN 4 ELSE
    IF x \in Signals \cup {"endSignal", "endCapture", "reconnect", "reconnectSpawn", "startWait"} THEN 5 ELSE
    IF x \in {"rtmpSignal", "rtmpSignalNow", "cancelRetry", "joinRetry", "start", "startConnect",
              "beginActive"} THEN 6 ELSE
    IF x \in {"rtmpStop", "rtmpStopNow", "beginSignal"} THEN 7 ELSE
    IF x \in {"forceStop", "beginCapture", "stopEncoders"} THEN 8 ELSE
    IF x \in {"nullPacket", "connectDetach", "sendReset", "deactivate"} THEN 9 ELSE
    IF x \in {"connectDone", "sendDone", "stopped", "initConnect", "retryBegin"} THEN 10 ELSE 11

Increasing(s) == \A i, j \in DOMAIN s : i < j => Rank(s[i]) < Rank(s[j])

InStack(s) == {s[i] : i \in DOMAIN s}
Todo(t) == InStack(code[t])

(* What each thread may have to do. *)
Calls  == Signals \cup {"endCapture", "endCaptureQuietly", "reconnect", "endClear", "endJoin",
                        "endSpawn", "endSignal", "reconnectSpawn"}
Stops  == {"forceStop", "cancelRetry", "joinRetry", "rtmpStop", "rtmpStopNow", "rtmpSignal",
           "rtmpSignalNow"}
Starts == {"startWait", "start", "startConnect"}
ConnectSteps == {"initConnect", "connect", "metaData", "beginCapture", "beginActive",
                 "beginSignal", "connectDetach", "connectDone"}
SendSteps  == {"sendWait", "sendEnd", "sendReset", "sendDone"}
RetrySteps == {"retryBegin", "retryWait", "retryEnd", "retryDone"}
EndSteps   == {"stopEncoders", "deactivate", "stopped", "ended"}

Connectors == {"c1", "c2"}
Senders    == {"s1", "s2"}
Enders     == {"e1", "e2"}
Retriers   == {"r1", "r2"}

Duty(t) ==
    IF t = "user" THEN Calls \cup Stops \cup Starts ELSE
    IF t = "encoder" THEN Calls \cup Stops \cup {"nullPacket"} ELSE
    IF t \in Connectors THEN Calls \cup ConnectSteps ELSE
    IF t \in Senders THEN Calls \cup SendSteps ELSE
    IF t \in Retriers THEN Starts \cup RetrySteps ELSE EndSteps

Stacks == /\ code \in [Threads -> Seq(Steps)]
          /\ \A t \in Threads : Increasing(code[t]) /\ Todo(t) \subseteq Duty(t)

Handles == /\ handle \in [Kinds -> Spawned \cup {None}]
           /\ \A k \in Kinds : handle[k] \in Pool[k] \cup {None}
           /\ \A k \in Kinds : \A t \in Pool[k] : Todo(t) # {} => handle[k] # None

TypeInv == TypeOK /\ Stacks /\ Handles

-----------------------------------------------------------------------------
(* Stacks and the sets of their steps. *)
LEMMA RankNat == \A x : Rank(x) \in Nat
  BY DEF Rank

LEMMA Push ==
    ASSUME NEW q \in Seq(Steps), Increasing(q), q # <<>>, NEW s \in Seq(Steps), Increasing(s),
           \A i \in DOMAIN s : Rank(s[i]) <= Rank(Head(q))
    PROVE  /\ s \o Tail(q) \in Seq(Steps) /\ Increasing(s \o Tail(q))
           /\ InStack(s \o Tail(q)) = InStack(s) \cup (InStack(q) \ {Head(q)})
  <1> DEFINE w == Tail(q)
             r == s \o w
  <1>1. /\ Len(q) \in Nat /\ Len(q) >= 1 /\ DOMAIN q = 1 .. Len(q)
        /\ Len(s) \in Nat /\ DOMAIN s = 1 .. Len(s)
    BY EmptySeq, LenProperties
  <1>2. /\ w \in Seq(Steps) /\ Len(w) = Len(q) - 1
        /\ \A i \in 1 .. Len(w) : w[i] = q[i + 1]
    BY <1>1, HeadTailProperties
  <1>3. Head(q) = q[1]
    BY <1>1
  <1> HIDE DEF w
  <1>4. /\ r \in Seq(Steps) /\ Len(r) = Len(s) + Len(w)
        /\ \A i \in 1 .. Len(s) + Len(w) : r[i] = IF i <= Len(s) THEN s[i] ELSE w[i - Len(s)]
    BY <1>1, <1>2, ConcatProperties
  <1>5. /\ \A i \in 1 .. Len(s) : r[i] = s[i]
        /\ \A i \in 2 .. Len(q) : r[Len(s) + i - 1] = q[i] /\ Len(s) + i - 1 \in 1 .. Len(r)
        /\ Len(r) = Len(s) + Len(q) - 1 /\ DOMAIN r = 1 .. Len(r) /\ Len(r) \in Nat
    <2>1. \A i \in 1 .. Len(s) : r[i] = s[i]
      BY <1>1, <1>2, <1>4
    <2>2. ASSUME NEW i \in 2 .. Len(q)
          PROVE  r[Len(s) + i - 1] = q[i] /\ Len(s) + i - 1 \in 1 .. Len(r)
      <3>1. /\ Len(s) + i - 1 \in 1 .. Len(s) + Len(w) /\ ~ (Len(s) + i - 1 <= Len(s))
            /\ (Len(s) + i - 1) - Len(s) = i - 1 /\ i - 1 \in 1 .. Len(w) /\ (i - 1) + 1 = i
        BY <1>1, <1>2
      <3>2. r[Len(s) + i - 1] = w[(Len(s) + i - 1) - Len(s)]
        BY <1>4, <3>1
      <3>3. w[i - 1] = q[(i - 1) + 1]
        BY <1>2, <3>1
      <3> QED
        BY <1>4, <3>1, <3>2, <3>3
    <2> QED
      BY <1>1, <1>2, <1>4, <2>1, <2>2, LenProperties
  <1>6. \A i \in 1 .. Len(r) : i \in 1 .. Len(s) \/ \E j \in 2 .. Len(q) : i = Len(s) + j - 1
    <2> SUFFICES ASSUME NEW i \in 1 .. Len(r), i \notin 1 .. Len(s)
                 PROVE  \E j \in 2 .. Len(q) : i = Len(s) + j - 1
      OBVIOUS
    <2>1. i - Len(s) + 1 \in 2 .. Len(q) /\ i = Len(s) + (i - Len(s) + 1) - 1
      BY <1>1, <1>5
    <2> QED
      BY <2>1
  <1>7. \A i \in 2 .. Len(q) : Rank(q[1]) < Rank(q[i]) /\ q[i] # q[1]
    <2>1. \A i \in 2 .. Len(q) : 1 \in DOMAIN q /\ i \in DOMAIN q /\ 1 < i
      BY <1>1
    <2>2. \A i \in 2 .. Len(q) : Rank(q[1]) < Rank(q[i])
      BY <2>1 DEF Increasing
    <2> QED
      BY <2>2, RankNat
  <1> HIDE DEF r
  <1>8. Increasing(r)
    <2> SUFFICES ASSUME NEW i \in 1 .. Len(r), NEW j \in 1 .. Len(r), i < j
                 PROVE  Rank(r[i]) < Rank(r[j])
      BY <1>5 DEF Increasing
    <2>1. CASE j \in 1 .. Len(s)
      <3>1. i \in 1 .. Len(s)
        BY <1>1, <2>1
      <3> QED
        BY <1>1, <1>5, <2>1, <3>1 DEF Increasing
    <2>2. CASE j \notin 1 .. Len(s)
      <3>1. PICK b \in 2 .. Len(q) : j = Len(s) + b - 1
        BY <1>6, <2>2
      <3>2. r[j] = q[b]
        BY <1>5, <3>1
      <3>3. CASE i \in 1 .. Len(s)
        <4>1. Rank(r[i]) <= Rank(q[1])
          BY <1>1, <1>3, <1>5, <3>3
        <4>2. Rank(q[1]) < Rank(q[b])
          BY <1>7
        <4>3. \A x, y, z \in Nat : x <= y /\ y < z => x < z
          OBVIOUS
        <4> QED
          BY <3>2, <4>1, <4>2, <4>3, RankNat
      <3>4. CASE i \notin 1 .. Len(s)
        <4>1. PICK a \in 2 .. Len(q) : i = Len(s) + a - 1
          BY <1>6, <3>4
        <4>2. r[i] = q[a] /\ a < b /\ a \in DOMAIN q /\ b \in DOMAIN q
          BY <1>1, <1>5, <3>1, <4>1
        <4> QED
          BY <3>2, <4>2 DEF Increasing
      <3> QED
        BY <3>3, <3>4
    <2> QED
      BY <2>1, <2>2
  <1>9. InStack(r) = InStack(s) \cup (InStack(q) \ {q[1]})
    <2>1. ASSUME NEW i \in 1 .. Len(r)
          PROVE  r[i] \in InStack(s) \cup (InStack(q) \ {q[1]})
      <3>1. CASE i \in 1 .. Len(s)
        BY <1>1, <1>5, <3>1 DEF InStack
      <3>2. CASE i \notin 1 .. Len(s)
        <4>1. PICK a \in 2 .. Len(q) : i = Len(s) + a - 1
          BY <1>6, <3>2
        <4>2. r[i] = q[a] /\ a \in DOMAIN q /\ q[a] # q[1]
          BY <1>1, <1>5, <1>7, <4>1
        <4> QED
          BY <4>2 DEF InStack
      <3> QED
        BY <3>1, <3>2
    <2>2. ASSUME NEW i \in 1 .. Len(s)
          PROVE  s[i] \in InStack(r)
      <3>1. i \in 1 .. Len(r) /\ r[i] = s[i]
        BY <1>1, <1>5
      <3> QED
        BY <1>5, <3>1 DEF InStack
    <2>3. ASSUME NEW i \in 1 .. Len(q), q[i] # q[1]
          PROVE  q[i] \in InStack(r)
      <3>1. i \in 2 .. Len(q)
        BY <1>1, <2>3
      <3> QED
        BY <1>5, <3>1 DEF InStack
    <2>4. \A x \in InStack(r) : \E i \in 1 .. Len(r) : x = r[i]
      BY <1>5 DEF InStack
    <2>5. \A x \in InStack(s) : \E i \in 1 .. Len(s) : x = s[i]
      BY <1>1 DEF InStack
    <2>6. \A x \in InStack(q) : \E i \in 1 .. Len(q) : x = q[i]
      BY <1>1 DEF InStack
    <2>7. InStack(r) \subseteq InStack(s) \cup (InStack(q) \ {q[1]})
      BY <2>1, <2>4
    <2>8. InStack(s) \subseteq InStack(r)
      BY <2>2, <2>5
    <2>9. InStack(q) \ {q[1]} \subseteq InStack(r)
      BY <2>3, <2>6
    <2> QED
      BY <2>7, <2>8, <2>9
  <1> QED
    BY <1>3, <1>4, <1>8, <1>9 DEF r, w

(* Short stacks. *)
LEMMA Words ==
    /\ <<>> \in Seq(Steps) /\ Increasing(<<>>) /\ InStack(<<>>) = {} /\ DOMAIN <<>> = {}
    /\ \A a \in Steps : /\ <<a>> \in Seq(Steps) /\ Increasing(<<a>>) /\ InStack(<<a>>) = {a}
                        /\ \A i \in DOMAIN <<a>> : <<a>>[i] = a
    /\ \A a, b \in Steps : Rank(a) < Rank(b) =>
           /\ <<a, b>> \in Seq(Steps) /\ Increasing(<<a, b>>) /\ InStack(<<a, b>>) = {a, b}
           /\ \A i \in DOMAIN <<a, b>> : <<a, b>>[i] \in {a, b}
    /\ \A a, b, c \in Steps : Rank(a) < Rank(b) /\ Rank(b) < Rank(c) =>
           /\ <<a, b, c>> \in Seq(Steps) /\ Increasing(<<a, b, c>>)
           /\ InStack(<<a, b, c>>) = {a, b, c}
           /\ \A i \in DOMAIN <<a, b, c>> : <<a, b, c>>[i] \in {a, b, c}
    /\ \A a, b, c, d \in Steps : Rank(a) < Rank(b) /\ Rank(b) < Rank(c) /\ Rank(c) < Rank(d) =>
           /\ <<a, b, c, d>> \in Seq(Steps) /\ Increasing(<<a, b, c, d>>)
           /\ InStack(<<a, b, c, d>>) = {a, b, c, d}
           /\ \A i \in DOMAIN <<a, b, c, d>> : <<a, b, c, d>>[i] \in {a, b, c, d}
  <1>1. /\ <<>> \in Seq(Steps) /\ Increasing(<<>>) /\ InStack(<<>>) = {} /\ DOMAIN <<>> = {}
    BY DEF Increasing, InStack
  <1>2. ASSUME NEW a \in Steps
        PROVE  /\ <<a>> \in Seq(Steps) /\ Increasing(<<a>>) /\ InStack(<<a>>) = {a}
               /\ \A i \in DOMAIN <<a>> : <<a>>[i] = a
    <2>1. DOMAIN <<a>> = {1} /\ <<a>>[1] = a
      OBVIOUS
    <2> QED
      BY <2>1 DEF Increasing, InStack
  <1>3. ASSUME NEW a \in Steps, NEW b \in Steps, Rank(a) < Rank(b)
        PROVE  /\ <<a, b>> \in Seq(Steps) /\ Increasing(<<a, b>>) /\ InStack(<<a, b>>) = {a, b}
               /\ \A i \in DOMAIN <<a, b>> : <<a, b>>[i] \in {a, b}
    <2>1. DOMAIN <<a, b>> = {1, 2} /\ <<a, b>>[1] = a /\ <<a, b>>[2] = b
      OBVIOUS
    <2> DEFINE s == <<a, b>>
    <2>2. s \in Seq(Steps)
      OBVIOUS
    <2> HIDE DEF s
    <2>3. Increasing(s)
      BY <1>3, <2>1 DEF s, Increasing
    <2> QED
      BY <2>1, <2>2, <2>3 DEF s, InStack
  <1>4. ASSUME NEW a \in Steps, NEW b \in Steps, NEW c \in Steps, Rank(a) < Rank(b), Rank(b) < Rank(c)
        PROVE  /\ <<a, b, c>> \in Seq(Steps) /\ Increasing(<<a, b, c>>)
               /\ InStack(<<a, b, c>>) = {a, b, c}
               /\ \A i \in DOMAIN <<a, b, c>> : <<a, b, c>>[i] \in {a, b, c}
    <2> DEFINE s == <<a, b, c>>
    <2>1. DOMAIN s = {1, 2, 3} /\ s[1] = a /\ s[2] = b /\ s[3] = c /\ s \in Seq(Steps)
      OBVIOUS
    <2>2. Rank(a) < Rank(c)
      BY <1>4, RankNat
    <2> HIDE DEF s
    <2>3. Increasing(s)
      BY <1>4, <2>1, <2>2 DEF Increasing
    <2>4. InStack(s) = {a, b, c}
      BY <2>1 DEF InStack
    <2>5. \A i \in DOMAIN s : s[i] \in {a, b, c}
      BY <2>1
    <2> QED
      BY <2>1, <2>3, <2>4, <2>5 DEF s
  <1>5. ASSUME NEW a \in Steps, NEW b \in Steps, NEW c \in Steps, NEW d \in Steps,
               Rank(a) < Rank(b), Rank(b) < Rank(c), Rank(c) < Rank(d)
        PROVE  /\ <<a, b, c, d>> \in Seq(Steps) /\ Increasing(<<a, b, c, d>>)
               /\ InStack(<<a, b, c, d>>) = {a, b, c, d}
               /\ \A i \in DOMAIN <<a, b, c, d>> : <<a, b, c, d>>[i] \in {a, b, c, d}
    <2> DEFINE s == <<a, b, c, d>>
    <2>1. DOMAIN s = {1, 2, 3, 4} /\ s[1] = a /\ s[2] = b /\ s[3] = c /\ s[4] = d /\ s \in Seq(Steps)
      OBVIOUS
    <2>2. Rank(a) < Rank(c) /\ Rank(a) < Rank(d) /\ Rank(b) < Rank(d)
      BY <1>5, RankNat
    <2> HIDE DEF s
    <2>3. Increasing(s)
      BY <1>5, <2>1, <2>2 DEF Increasing
    <2>4. InStack(s) = {a, b, c, d}
      BY <2>1 DEF InStack
    <2>5. \A i \in DOMAIN s : s[i] \in {a, b, c, d}
      BY <2>1
    <2> QED
      BY <2>1, <2>3, <2>4, <2>5 DEF s
  <1> QED
    BY <1>1, <1>2, <1>3, <1>4, <1>5

-----------------------------------------------------------------------------
(* A step of a thread: its head h gives way to the steps S. *)
Least(t, h) == /\ h \in Todo(t) /\ Todo(t) \subseteq Duty(t)
               /\ \A x \in Todo(t) \ {h} : Rank(h) < Rank(x)

Went(t, h, S) ==
    /\ Least(t, h) /\ Stacks'
    /\ \A u \in Threads : Todo(u)' = IF u = t THEN S \cup (Todo(t) \ {h}) ELSE Todo(u)

Forked(t, h, S, n, E) ==
    /\ Least(t, h) /\ Stacks' /\ n # t /\ Todo(n) = {}
    /\ \A u \in Threads : Todo(u)' = IF u = t THEN S \cup (Todo(t) \ {h})
                                     ELSE IF u = n THEN E ELSE Todo(u)

LEMMA IdleTodo == Stacks => \A t \in Threads : Idle(t) <=> Todo(t) = {}
  <1> SUFFICES ASSUME Stacks, NEW t \in Threads PROVE Idle(t) <=> Todo(t) = {}
    OBVIOUS
  <1>1. code[t] \in Seq(Steps)
    BY DEF Stacks
  <1>2. Idle(t) => Todo(t) = {}
    BY DEF Idle, Todo, InStack
  <1>3. ~ Idle(t) => 1 \in DOMAIN code[t]
    <2> SUFFICES ASSUME code[t] # <<>> PROVE 1 \in DOMAIN code[t]
      BY DEF Idle
    <2>1. Len(code[t]) \in Nat \ {0}
      BY <1>1, EmptySeq
    <2> QED
      BY <1>1, <2>1, LenProperties
  <1> QED
    BY <1>2, <1>3 DEF Todo, InStack

LEMMA AtLeast ==
    ASSUME Stacks, NEW t \in Threads, NEW h, At(t, h)
    PROVE  Least(t, h)
  <1>1. code[t] \in Seq(Steps) /\ code[t] # <<>> /\ Increasing(code[t]) /\ Todo(t) \subseteq Duty(t)
    BY DEF Stacks, At, Idle
  <1>2. Len(code[t]) \in Nat \ {0} /\ DOMAIN code[t] = 1 .. Len(code[t])
    BY <1>1, EmptySeq, LenProperties
  <1>3. h = code[t][1]
    BY <1>1 DEF At
  <1>4. h \in Todo(t)
    BY <1>2, <1>3 DEF Todo, InStack
  <1>5. ASSUME NEW x \in Todo(t), x # h PROVE Rank(h) < Rank(x)
    <2>1. PICK i \in DOMAIN code[t] : x = code[t][i]
      BY DEF Todo, InStack
    <2>2. 1 \in DOMAIN code[t] /\ 1 < i
      BY <1>2, <1>3, <1>5, <2>1
    <2> QED
      BY <1>1, <1>3, <2>1, <2>2 DEF Increasing
  <1> QED
    BY <1>1, <1>4, <1>5 DEF Least

LEMMA Going ==
    ASSUME Stacks, NEW t \in Threads, NEW h, At(t, h), NEW s \in Seq(Steps), Increasing(s),
           \A i \in DOMAIN s : Rank(s[i]) <= Rank(h), InStack(s) \subseteq Duty(t),
           Continue(t, s)
    PROVE  Went(t, h, InStack(s))
  <1>1. code[t] \in Seq(Steps) /\ code[t] # <<>> /\ Increasing(code[t]) /\ h = Head(code[t])
    BY DEF Stacks, At, Idle
  <1>2. code \in [Threads -> Seq(Steps)]
    BY DEF Stacks
  <1>3. /\ code'[t] = s \o Tail(code[t])
        /\ \A u \in Threads \ {t} : code'[u] = code[u]
        /\ code' = [code EXCEPT ![t] = code'[t]]
    BY <1>2 DEF Continue
  <1>4. code'[t] \in Seq(Steps) /\ Increasing(code'[t])
        /\ InStack(code'[t]) = InStack(s) \cup (Todo(t) \ {h})
    BY <1>1, <1>3, Push DEF Todo
  <1>5. code' \in [Threads -> Seq(Steps)]
    BY <1>2, <1>3, <1>4
  <1>6. \A u \in Threads : InStack(code'[u]) = IF u = t THEN InStack(s) \cup (Todo(t) \ {h}) ELSE Todo(u)
    BY <1>3, <1>4 DEF Todo
  <1>7. \A u \in Threads : Increasing(code'[u])
    BY <1>3, <1>4 DEF Stacks
  <1>8. \A u \in Threads : InStack(code'[u]) \subseteq Duty(u)
    BY <1>6 DEF Stacks
  <1>9. Stacks'
    BY <1>5, <1>7, <1>8 DEF Stacks, Todo
  <1>10. Least(t, h)
    BY AtLeast
  <1> QED
    BY <1>6, <1>9, <1>10 DEF Went, Todo

LEMMA Forking ==
    ASSUME Stacks, NEW t \in Threads, NEW h, At(t, h), NEW s \in Seq(Steps), Increasing(s),
           \A i \in DOMAIN s : Rank(s[i]) <= Rank(h), InStack(s) \subseteq Duty(t),
           NEW k \in Kinds, NEW e \in Seq(Steps), Increasing(e),
           \A n \in Pool[k] : InStack(e) \subseteq Duty(n),
           Spawn(k, t, s, e)
    PROVE  \E n \in Pool[k] :
               /\ Forked(t, h, InStack(s), n, InStack(e))
               /\ handle' = [handle EXCEPT ![k] = n] /\ detached' = detached \ {n}
  <1>1. code[t] \in Seq(Steps) /\ code[t] # <<>> /\ Increasing(code[t]) /\ h = Head(code[t])
    BY DEF Stacks, At, Idle
  <1>2. code \in [Threads -> Seq(Steps)]
    BY DEF Stacks
  <1>3. PICK n \in Pool[k] :
            /\ Idle(n)
            /\ code' = [code EXCEPT ![t] = s \o Tail(@), ![n] = e]
            /\ handle' = [handle EXCEPT ![k] = n]
            /\ detached' = detached \ {n}
    BY DEF Spawn
  <1>4. n \in Threads /\ n # t
    BY <1>1, <1>3 DEF Idle, Threads, Spawned
  <1>5. /\ code'[t] = s \o Tail(code[t]) /\ code'[n] = e
        /\ \A u \in Threads \ {t, n} : code'[u] = code[u]
    BY <1>2, <1>3, <1>4
  <1>6. code'[t] \in Seq(Steps) /\ Increasing(code'[t])
        /\ InStack(code'[t]) = InStack(s) \cup (Todo(t) \ {h})
    BY <1>1, <1>5, Push DEF Todo
  <1>7. code' \in [Threads -> Seq(Steps)]
    BY <1>2, <1>3, <1>4, <1>5, <1>6
  <1>8. \A u \in Threads : InStack(code'[u]) = IF u = t THEN InStack(s) \cup (Todo(t) \ {h})
                                               ELSE IF u = n THEN InStack(e) ELSE Todo(u)
    BY <1>4, <1>5, <1>6 DEF Todo
  <1>9. \A u \in Threads : Increasing(code'[u])
    BY <1>4, <1>5, <1>6 DEF Stacks
  <1>10. \A u \in Threads : InStack(code'[u]) \subseteq Duty(u)
    BY <1>8 DEF Stacks
  <1>11. Stacks'
    BY <1>7, <1>9, <1>10 DEF Stacks, Todo
  <1>12. Least(t, h) /\ Todo(n) = {}
    BY <1>3, <1>4, AtLeast, IdleTodo
  <1> QED
    BY <1>3, <1>4, <1>8, <1>11, <1>12 DEF Forked, Todo

(* The same for the stacks the code pushes, of none to four steps. *)
LEMMA Going0 ==
    ASSUME Stacks, NEW t \in Threads, NEW h, At(t, h), Continue(t, <<>>)
    PROVE  Went(t, h, {})
  <1>1. Went(t, h, InStack(<<>>))
    BY Words, Going
  <1> QED
    BY <1>1, Words

LEMMA Going1 ==
    ASSUME Stacks, NEW t \in Threads, NEW h, At(t, h), NEW a \in Steps,
           Rank(a) <= Rank(h), a \in Duty(t), Continue(t, <<a>>)
    PROVE  Went(t, h, {a})
  <1> DEFINE s == <<a>>
  <1>1. /\ s \in Seq(Steps) /\ Increasing(s) /\ InStack(s) = {a}
        /\ \A i \in DOMAIN s : s[i] = a
    BY Words
  <1>2. Continue(t, s)
    OBVIOUS
  <1> HIDE DEF s
  <1>3. \A i \in DOMAIN s : Rank(s[i]) <= Rank(h)
    BY <1>1
  <1>4. InStack(s) \subseteq Duty(t)
    BY <1>1
  <1>5. Went(t, h, InStack(s))
    BY <1>1, <1>2, <1>3, <1>4, Going
  <1> QED
    BY <1>1, <1>5

LEMMA Going2 ==
    ASSUME Stacks, NEW t \in Threads, NEW h, At(t, h), NEW a \in Steps, NEW b \in Steps,
           Rank(a) < Rank(b),
           Rank(a) <= Rank(h), Rank(b) <= Rank(h),
           {a, b} \subseteq Duty(t), Continue(t, <<a, b>>)
    PROVE  Went(t, h, {a, b})
  <1> DEFINE s == <<a, b>>
  <1>1. /\ s \in Seq(Steps) /\ Increasing(s) /\ InStack(s) = {a, b}
        /\ \A i \in DOMAIN s : s[i] \in {a, b}
    BY Words
  <1>2. Continue(t, s)
    OBVIOUS
  <1> HIDE DEF s
  <1>3. \A i \in DOMAIN s : Rank(s[i]) <= Rank(h)
    BY <1>1
  <1>4. InStack(s) \subseteq Duty(t)
    BY <1>1
  <1>5. Went(t, h, InStack(s))
    BY <1>1, <1>2, <1>3, <1>4, Going
  <1> QED
    BY <1>1, <1>5

LEMMA Going3 ==
    ASSUME Stacks, NEW t \in Threads, NEW h, At(t, h), NEW a \in Steps, NEW b \in Steps, NEW c \in Steps,
           Rank(a) < Rank(b), Rank(b) < Rank(c),
           Rank(a) <= Rank(h), Rank(b) <= Rank(h), Rank(c) <= Rank(h),
           {a, b, c} \subseteq Duty(t), Continue(t, <<a, b, c>>)
    PROVE  Went(t, h, {a, b, c})
  <1> DEFINE s == <<a, b, c>>
  <1>1. /\ s \in Seq(Steps) /\ Increasing(s) /\ InStack(s) = {a, b, c}
        /\ \A i \in DOMAIN s : s[i] \in {a, b, c}
    BY Words
  <1>2. Continue(t, s)
    OBVIOUS
  <1> HIDE DEF s
  <1>3. \A i \in DOMAIN s : Rank(s[i]) <= Rank(h)
    BY <1>1
  <1>4. InStack(s) \subseteq Duty(t)
    BY <1>1
  <1>5. Went(t, h, InStack(s))
    BY <1>1, <1>2, <1>3, <1>4, Going
  <1> QED
    BY <1>1, <1>5

LEMMA Going4 ==
    ASSUME Stacks, NEW t \in Threads, NEW h, At(t, h), NEW a \in Steps, NEW b \in Steps, NEW c \in Steps, NEW d \in Steps,
           Rank(a) < Rank(b), Rank(b) < Rank(c), Rank(c) < Rank(d),
           Rank(a) <= Rank(h), Rank(b) <= Rank(h), Rank(c) <= Rank(h), Rank(d) <= Rank(h),
           {a, b, c, d} \subseteq Duty(t), Continue(t, <<a, b, c, d>>)
    PROVE  Went(t, h, {a, b, c, d})
  <1> DEFINE s == <<a, b, c, d>>
  <1>1. /\ s \in Seq(Steps) /\ Increasing(s) /\ InStack(s) = {a, b, c, d}
        /\ \A i \in DOMAIN s : s[i] \in {a, b, c, d}
    BY Words
  <1>2. Continue(t, s)
    OBVIOUS
  <1> HIDE DEF s
  <1>3. \A i \in DOMAIN s : Rank(s[i]) <= Rank(h)
    BY <1>1
  <1>4. InStack(s) \subseteq Duty(t)
    BY <1>1
  <1>5. Went(t, h, InStack(s))
    BY <1>1, <1>2, <1>3, <1>4, Going
  <1> QED
    BY <1>1, <1>5

LEMMA Duties ==
    ASSUME NEW t \in Threads, NEW h \in Duty(t)
    PROVE  /\ h \in Calls => /\ Calls \subseteq Duty(t)
                            /\ t \in {"user", "encoder"} \cup Connectors \cup Senders
           /\ h \in Stops => Stops \cup Calls \subseteq Duty(t) /\ t \in {"user", "encoder"}
           /\ h \in Starts => Starts \subseteq Duty(t) /\ t \in {"user"} \cup Retriers
           /\ h \in ConnectSteps => Calls \cup ConnectSteps \subseteq Duty(t) /\ t \in Connectors
           /\ h \in SendSteps => Calls \cup SendSteps \subseteq Duty(t) /\ t \in Senders
           /\ h \in RetrySteps => Starts \cup RetrySteps \subseteq Duty(t) /\ t \in Retriers
           /\ h \in EndSteps => EndSteps \subseteq Duty(t) /\ t \in Enders
           /\ h = "nullPacket" => t = "encoder"
  <1>1. CASE t = "user"
    BY <1>1 DEF Duty, Calls, Stops, Starts, ConnectSteps, SendSteps, RetrySteps, EndSteps, Signals
  <1>2. CASE t = "encoder"
    BY <1>2 DEF Duty, Calls, Stops, Starts, ConnectSteps, SendSteps, RetrySteps, EndSteps, Signals
  <1>3. CASE t \in Connectors
    BY <1>3 DEF Duty, Calls, Stops, Starts, ConnectSteps, SendSteps, RetrySteps, EndSteps, Signals,
                Connectors
  <1>4. CASE t \in Senders
    BY <1>4 DEF Duty, Calls, Stops, Starts, ConnectSteps, SendSteps, RetrySteps, EndSteps, Signals,
                Connectors, Senders
  <1>5. CASE t \in Retriers
    BY <1>5 DEF Duty, Calls, Stops, Starts, ConnectSteps, SendSteps, RetrySteps, EndSteps, Signals,
                Connectors, Senders, Retriers
  <1>6. CASE t \in Enders
    BY <1>6 DEF Duty, Calls, Stops, Starts, ConnectSteps, SendSteps, RetrySteps, EndSteps, Signals,
                Connectors, Senders, Retriers, Enders
  <1> QED
    BY <1>1, <1>2, <1>3, <1>4, <1>5, <1>6
       DEF Threads, Spawned, Kinds, Pool, Connectors, Senders, Retriers, Enders

-----------------------------------------------------------------------------
(* What every step does to the sets of pending steps. *)
Became(t, S) == Stacks' /\ \A u \in Threads : Todo(u)' = IF u = t THEN S ELSE Todo(u)

LEMMA Becoming ==
    ASSUME Stacks, NEW t \in Threads, NEW s \in Seq(Steps), Increasing(s),
           InStack(s) \subseteq Duty(t), code' = [code EXCEPT ![t] = s]
    PROVE  Became(t, InStack(s))
  <1>1. code \in [Threads -> Seq(Steps)]
    BY DEF Stacks
  <1>2. /\ code' \in [Threads -> Seq(Steps)] /\ code'[t] = s
        /\ \A u \in Threads \ {t} : code'[u] = code[u]
    BY <1>1
  <1>3. \A u \in Threads : InStack(code'[u]) = IF u = t THEN InStack(s) ELSE Todo(u)
    BY <1>2 DEF Todo
  <1>4. \A u \in Threads : Increasing(code'[u]) /\ InStack(code'[u]) \subseteq Duty(u)
    BY <1>2, <1>3 DEF Stacks
  <1> QED
    BY <1>2, <1>3, <1>4 DEF Became, Stacks, Todo

LEMMA Staying == Stacks /\ UNCHANGED code => Stacks' /\ \A u \in Threads : Todo(u)' = Todo(u)
  <1> SUFFICES ASSUME Stacks, code' = code
               PROVE  Stacks' /\ \A u \in Threads : Todo(u)' = Todo(u)
    OBVIOUS
  <1>1. \A u \in Threads : InStack(code'[u]) = InStack(code[u])
    OBVIOUS
  <1> QED
    BY <1>1 DEF Stacks, Todo

LEMMA SignalNames ==
    /\ \A c \in Codes : SignalStopOf[c] \in Signals
    /\ Signals = {SignalStopOf[c] : c \in Codes} /\ Signals \subseteq Steps
    /\ SignalStopOf["SUCCESS"] = "signalSuccess"
    /\ SignalStopOf["DISCONNECTED"] = "signalDisconnected"
    /\ SignalStopOf["CONNECT_FAILED"] = "signalConnectFailed"
    /\ SignalStopOf["BAD_PATH"] = "signalBadPath"
    /\ SignalStopOf["ENCODE_ERROR"] = "signalEncodeError"
    /\ Codes = {"SUCCESS", "DISCONNECTED", "CONNECT_FAILED", "BAD_PATH", "ENCODE_ERROR"}
  <1>1. Codes = {"SUCCESS", "DISCONNECTED", "CONNECT_FAILED", "BAD_PATH", "ENCODE_ERROR"}
    BY DEF Codes, SignalStopOf
  <1>2. /\ SignalStopOf["SUCCESS"] = "signalSuccess"
        /\ SignalStopOf["DISCONNECTED"] = "signalDisconnected"
        /\ SignalStopOf["CONNECT_FAILED"] = "signalConnectFailed"
        /\ SignalStopOf["BAD_PATH"] = "signalBadPath"
        /\ SignalStopOf["ENCODE_ERROR"] = "signalEncodeError"
    BY DEF SignalStopOf
  <1>3. Signals = {SignalStopOf[c] : c \in Codes}
    BY <1>1, <1>2 DEF Signals
  <1> QED
    BY <1>1, <1>2, <1>3 DEF Steps

LEMMA Forking0 ==
    ASSUME Stacks, NEW t \in Threads, NEW h, At(t, h), NEW k \in Kinds, NEW e \in Seq(Steps),
           Increasing(e), \A n \in Pool[k] : InStack(e) \subseteq Duty(n), Spawn(k, t, <<>>, e)
    PROVE  \E n \in Pool[k] :
               /\ Forked(t, h, {}, n, InStack(e))
               /\ handle' = [handle EXCEPT ![k] = n] /\ detached' = detached \ {n}
  <1> DEFINE s == <<>>
  <1>1. /\ s \in Seq(Steps) /\ Increasing(s) /\ InStack(s) = {} /\ DOMAIN s = {}
        /\ Spawn(k, t, s, e)
    BY Words
  <1> HIDE DEF s
  <1>2. (\A i \in DOMAIN s : Rank(s[i]) <= Rank(h)) /\ InStack(s) \subseteq Duty(t)
    BY <1>1
  <1>3. \E n \in Pool[k] : /\ Forked(t, h, InStack(s), n, InStack(e))
                           /\ handle' = [handle EXCEPT ![k] = n] /\ detached' = detached \ {n}
    BY <1>1, <1>2, Forking, ZenonT(40)
  <1> QED
    BY <1>1, <1>3

LEMMA Forking1 ==
    ASSUME Stacks, NEW t \in Threads, NEW h, At(t, h), NEW k \in Kinds, NEW a \in Steps,
           Rank(a) <= Rank(h), a \in Duty(t), NEW e \in Seq(Steps),
           Increasing(e), \A n \in Pool[k] : InStack(e) \subseteq Duty(n), Spawn(k, t, <<a>>, e)
    PROVE  \E n \in Pool[k] :
               /\ Forked(t, h, {a}, n, InStack(e))
               /\ handle' = [handle EXCEPT ![k] = n] /\ detached' = detached \ {n}
  <1> DEFINE s == <<a>>
  <1>1. /\ s \in Seq(Steps) /\ Increasing(s) /\ InStack(s) = {a}
        /\ \A i \in DOMAIN s : s[i] = a
    BY Words
  <1>2. Spawn(k, t, s, e)
    OBVIOUS
  <1> HIDE DEF s
  <1>3. (\A i \in DOMAIN s : Rank(s[i]) <= Rank(h)) /\ InStack(s) \subseteq Duty(t)
    BY <1>1
  <1>4. \E n \in Pool[k] : /\ Forked(t, h, InStack(s), n, InStack(e))
                           /\ handle' = [handle EXCEPT ![k] = n] /\ detached' = detached \ {n}
    <2>1. /\ s \in Seq(Steps) /\ Increasing(s) /\ (\A i \in DOMAIN s : Rank(s[i]) <= Rank(h))
          /\ InStack(s) \subseteq Duty(t)
      BY <1>1, <1>3
    <2> QED
      BY <1>2, <2>1, Forking, ZenonT(60)
  <1> QED
    BY <1>1, <1>4

LEMMA HeadDuty ==
    ASSUME Stacks, NEW t \in Threads, NEW h, At(t, h)
    PROVE  h \in Duty(t)
  BY AtLeast DEF Least

LEMMA SharedMoves ==
    ASSUME Stacks, NEW t \in Threads
    PROVE  /\ \A c \in Codes : SignalStop(t, c) =>
                  IF CanReconnect(c) THEN Went(t, SignalStopOf[c], {"endCaptureQuietly", "reconnect"})
                                     ELSE Went(t, SignalStopOf[c], {"endCapture"})
           /\ EndCaptureInactive(t) =>
                  /\ At(t, "endCapture") => Went(t, "endCapture", {})
                  /\ At(t, "endCaptureQuietly") => Went(t, "endCaptureQuietly", {})
           /\ EndCaptureBegin(t) =>
                  \/ Went(t, "endCapture", {"endClear", "endJoin", "endSpawn", "endSignal"})
                  \/ Went(t, "endCaptureQuietly", {"endClear", "endJoin", "endSpawn"})
           /\ EndCaptureClear(t) => Went(t, "endClear", {})
           /\ EndCaptureJoin(t) => Went(t, "endJoin", {})
           /\ EndCaptureSpawn(t) => \E n \in Enders :
                  /\ Forked(t, "endSpawn", {}, n, EndSteps)
                  /\ handle' = [handle EXCEPT !["end"] = n] /\ detached' = detached \ {n}
           /\ EndCaptureSignal(t) => Went(t, "endSignal", {})
           /\ Reconnect(t) => \E S \in {{}, {"endCapture"}, {"reconnectSpawn"}} :
                                  Went(t, "reconnect", S)
           /\ ReconnectSpawn(t) => \E n \in Retriers :
                  /\ Forked(t, "reconnectSpawn", {}, n, {"retryBegin", "retryWait"})
                  /\ handle' = [handle EXCEPT !["reconnect"] = n] /\ detached' = detached \ {n}
  <1>1. ASSUME NEW c \in Codes, SignalStop(t, c)
        PROVE  IF CanReconnect(c) THEN Went(t, SignalStopOf[c], {"endCaptureQuietly", "reconnect"})
                                  ELSE Went(t, SignalStopOf[c], {"endCapture"})
    <2> DEFINE h == SignalStopOf[c]
    <2>1. At(t, h) /\ h \in Signals
      BY <1>1, SignalNames DEF SignalStop
    <2>2. CASE CanReconnect(c)
      <3>1. Continue(t, <<"endCaptureQuietly", "reconnect">>)
        BY <1>1, <2>2 DEF SignalStop
      <3> HIDE DEF h
      <3>2. Rank(h) = 5
        BY <2>1 DEF Rank, Signals
      <3>3. {"endCaptureQuietly", "reconnect"} \subseteq Duty(t)
        BY <2>1, HeadDuty, Duties DEF Calls
      <3>4. Went(t, h, {"endCaptureQuietly", "reconnect"})
        BY <2>1, <3>1, <3>2, <3>3, Going2 DEF Rank, Signals, Steps
      <3> QED
        BY <2>2, <3>4 DEF h
    <2>3. CASE ~CanReconnect(c)
      <3>1. Continue(t, <<"endCapture">>)
        BY <1>1, <2>3 DEF SignalStop
      <3> HIDE DEF h
      <3>2. Rank(h) = 5
        BY <2>1 DEF Rank, Signals
      <3>3. "endCapture" \in Duty(t)
        BY <2>1, HeadDuty, Duties DEF Calls
      <3>4. Went(t, h, {"endCapture"})
        BY <2>1, <3>1, <3>2, <3>3, Going1 DEF Rank, Signals, Steps
      <3> QED
        BY <2>3, <3>4 DEF h
    <2> QED
      BY <2>2, <2>3
  <1>2. ASSUME EndCaptureInactive(t)
        PROVE  /\ At(t, "endCapture") => Went(t, "endCapture", {})
               /\ At(t, "endCaptureQuietly") => Went(t, "endCaptureQuietly", {})
    <2>1. Continue(t, <<>>)
      BY <1>2 DEF EndCaptureInactive
    <2> QED
      BY <2>1, Going0
  <1>3. ASSUME EndCaptureBegin(t)
        PROVE  \/ Went(t, "endCapture", {"endClear", "endJoin", "endSpawn", "endSignal"})
               \/ Went(t, "endCaptureQuietly", {"endClear", "endJoin", "endSpawn"})
    <2>1. CASE At(t, "endCapture") /\ Continue(t, <<"endClear", "endJoin", "endSpawn", "endSignal">>)
      <3>1. {"endClear", "endJoin", "endSpawn", "endSignal"} \subseteq Duty(t)
        BY <2>1, HeadDuty, Duties DEF Calls
      <3> QED
        BY <2>1, <3>1, Going4 DEF Rank, Signals, Steps
    <2>2. CASE At(t, "endCaptureQuietly") /\ Continue(t, <<"endClear", "endJoin", "endSpawn">>)
      <3>1. {"endClear", "endJoin", "endSpawn"} \subseteq Duty(t)
        BY <2>2, HeadDuty, Duties DEF Calls
      <3> QED
        BY <2>2, <3>1, Going3 DEF Rank, Signals, Steps
    <2> QED
      BY <1>3, <2>1, <2>2 DEF EndCaptureBegin
  <1>4. EndCaptureClear(t) => Went(t, "endClear", {})
    BY Going0 DEF EndCaptureClear
  <1>5. EndCaptureJoin(t) => Went(t, "endJoin", {})
    BY Going0 DEF EndCaptureJoin
  <1>6. ASSUME EndCaptureSpawn(t)
        PROVE  \E n \in Enders :
                  /\ Forked(t, "endSpawn", {}, n, EndSteps)
                  /\ handle' = [handle EXCEPT !["end"] = n] /\ detached' = detached \ {n}
    <2> DEFINE e == <<"stopEncoders", "deactivate", "stopped", "ended">>
    <2>1. At(t, "endSpawn") /\ Spawn("end", t, <<>>, e)
      BY <1>6 DEF EndCaptureSpawn
    <2>2. e \in Seq(Steps) /\ Increasing(e) /\ InStack(e) = EndSteps
      BY Words DEF EndSteps, Rank, Signals, Steps
    <2> HIDE DEF e
    <2>3. "end" \in Kinds /\ Pool["end"] = Enders /\ \A n \in Enders : InStack(e) \subseteq Duty(n)
      BY <2>2 DEF Kinds, Pool, Enders, Duty, Connectors, Senders, Retriers, EndSteps
    <2>4. \E n \in Pool["end"] : /\ Forked(t, "endSpawn", {}, n, InStack(e))
                                 /\ handle' = [handle EXCEPT !["end"] = n] /\ detached' = detached \ {n}
      BY <2>1, <2>2, <2>3, Forking0
    <2> QED
      BY <2>2, <2>3, <2>4
  <1>7. EndCaptureSignal(t) => Went(t, "endSignal", {})
    BY Going0 DEF EndCaptureSignal
  <1>8. ASSUME Reconnect(t)
        PROVE  \E S \in {{}, {"endCapture"}, {"reconnectSpawn"}} : Went(t, "reconnect", S)
    <2>1. /\ At(t, "reconnect")
          /\ Continue(t, <<>>) \/ Continue(t, <<"endCapture">>) \/ Continue(t, <<"reconnectSpawn">>)
      BY <1>8 DEF Reconnect
    <2>2. {"endCapture", "reconnectSpawn"} \subseteq Duty(t)
      BY <2>1, HeadDuty, Duties DEF Calls
    <2>3. CASE Continue(t, <<>>)
      BY <2>1, <2>3, Going0
    <2>4. CASE Continue(t, <<"endCapture">>)
      <3>1. Went(t, "reconnect", {"endCapture"})
        BY <2>1, <2>2, <2>4, Going1 DEF Rank, Signals, Steps
      <3> QED
        BY <3>1
    <2>5. CASE Continue(t, <<"reconnectSpawn">>)
      <3>1. Went(t, "reconnect", {"reconnectSpawn"})
        BY <2>1, <2>2, <2>5, Going1 DEF Rank, Signals, Steps
      <3> QED
        BY <3>1
    <2> QED
      BY <2>1, <2>3, <2>4, <2>5
  <1>9. ASSUME ReconnectSpawn(t)
        PROVE  \E n \in Retriers :
                  /\ Forked(t, "reconnectSpawn", {}, n, {"retryBegin", "retryWait"})
                  /\ handle' = [handle EXCEPT !["reconnect"] = n] /\ detached' = detached \ {n}
    <2> DEFINE e == <<"retryBegin", "retryWait">>
    <2>1. At(t, "reconnectSpawn") /\ Spawn("reconnect", t, <<>>, e)
      BY <1>9 DEF ReconnectSpawn
    <2>2. e \in Seq(Steps) /\ Increasing(e) /\ InStack(e) = {"retryBegin", "retryWait"}
      <3>1. "retryBegin" \in Steps /\ "retryWait" \in Steps /\ Rank("retryBegin") < Rank("retryWait")
        BY DEF Rank, Signals, Steps
      <3> QED
        BY <3>1, Words
    <2> HIDE DEF e
    <2>3. "reconnect" \in Kinds /\ Pool["reconnect"] = Retriers
          /\ \A n \in Retriers : InStack(e) \subseteq Duty(n)
      BY <2>2 DEF Kinds, Pool, Duty, Connectors, Senders, Retriers, RetrySteps
    <2>4. \E n \in Pool["reconnect"] :
              /\ Forked(t, "reconnectSpawn", {}, n, InStack(e))
              /\ handle' = [handle EXCEPT !["reconnect"] = n] /\ detached' = detached \ {n}
      BY <2>1, <2>2, <2>3, Forking0
    <2> QED
      BY <2>2, <2>3, <2>4
  <1> QED
    BY <1>1, <1>2, <1>3, <1>4, <1>5, <1>6, <1>7, <1>8, <1>9

LEMMA EndMoves ==
    ASSUME Stacks, NEW t \in Threads
    PROVE  /\ StopEncoders(t) => Went(t, "stopEncoders", {})
           /\ Deactivate(t) => Went(t, "deactivate", {})
           /\ SignalStopped(t) => Went(t, "stopped", {})
           /\ EndThreadDone(t) => Went(t, "ended", {})
  BY Going0 DEF StopEncoders, Deactivate, SignalStopped, EndThreadDone

LEMMA RetryMoves ==
    ASSUME Stacks, NEW t \in Threads
    PROVE  /\ RetryBegin(t) => Went(t, "retryBegin", {})
           /\ RetryWait(t) => \/ Went(t, "retryWait", {"retryEnd"})
                              \/ Settled /\ Went(t, "retryWait", {"startWait", "start", "retryEnd"})
           /\ RetryEnd(t) => Went(t, "retryEnd", {"retryDone"})
           /\ RetryDone(t) => Went(t, "retryDone", {})
  <1>1. RetryBegin(t) => Went(t, "retryBegin", {})
    BY Going0 DEF RetryBegin
  <1>2. ASSUME RetryWait(t)
        PROVE  \/ Went(t, "retryWait", {"retryEnd"})
               \/ Settled /\ Went(t, "retryWait", {"startWait", "start", "retryEnd"})
    <2>1. /\ At(t, "retryWait")
          /\ \/ Continue(t, <<"retryEnd">>)
             \/ Settled /\ Continue(t, <<"startWait", "start", "retryEnd">>)
      BY <1>2 DEF RetryWait
    <2>2. {"startWait", "start", "retryEnd"} \subseteq Duty(t)
      BY <2>1, HeadDuty, Duties DEF RetrySteps, Starts
    <2>3. CASE Continue(t, <<"retryEnd">>)
      BY <2>1, <2>2, <2>3, Going1 DEF Rank, Signals, Steps
    <2>4. CASE Settled /\ Continue(t, <<"startWait", "start", "retryEnd">>)
      <3>1. /\ "startWait" \in Steps /\ "start" \in Steps /\ "retryEnd" \in Steps
            /\ Rank("startWait") < Rank("start") /\ Rank("start") < Rank("retryEnd")
            /\ Rank("startWait") <= Rank("retryWait") /\ Rank("start") <= Rank("retryWait") /\ Rank("retryEnd") <= Rank("retryWait")
        BY DEF Rank, Signals, Steps
      <3> QED
        BY <2>1, <2>2, <2>4, <3>1, Going3
    <2> QED
      BY <2>1, <2>3, <2>4
  <1>3. ASSUME RetryEnd(t) PROVE Went(t, "retryEnd", {"retryDone"})
    <2>1. At(t, "retryEnd") /\ Continue(t, <<"retryDone">>)
      BY <1>3 DEF RetryEnd
    <2>2. "retryDone" \in Duty(t)
      BY <2>1, HeadDuty, Duties DEF RetrySteps
    <2> QED
      BY <2>1, <2>2, Going1 DEF Rank, Signals, Steps
  <1>4. RetryDone(t) => Went(t, "retryDone", {})
    BY Going0 DEF RetryDone
  <1> QED
    BY <1>1, <1>2, <1>3, <1>4

LEMMA StartMoves ==
    ASSUME Stacks, NEW t \in Threads
    PROVE  /\ StartWait(t) => Went(t, "startWait", {})
           /\ StartCheck(t) => \/ /\ ~out.active /\ UNCHANGED <<phase, cause, plan>>
                                  /\ Went(t, "start", {"startConnect"})
                               \/ /\ \/ out.active /\ UNCHANGED <<cause, plan>>
                                     \/ ~out.active /\ Fails("settings")
                                  /\ phase' = IF t = "user" THEN "off" ELSE phase
                                  /\ Went(t, "start", {})
           /\ StartConnect(t) => \E n \in Connectors :
                  /\ Forked(t, "startConnect", {}, n, {"initConnect", "connect"})
                  /\ handle' = [handle EXCEPT !["connect"] = n] /\ detached' = detached \ {n}
  <1>1. StartWait(t) => Went(t, "startWait", {})
    BY Going0 DEF StartWait
  <1>2. ASSUME StartCheck(t)
        PROVE  \/ /\ ~out.active /\ UNCHANGED <<phase, cause, plan>>
                  /\ Went(t, "start", {"startConnect"})
               \/ /\ \/ out.active /\ UNCHANGED <<cause, plan>>
                     \/ ~out.active /\ Fails("settings")
                  /\ phase' = IF t = "user" THEN "off" ELSE phase
                  /\ Went(t, "start", {})
    <2>1. At(t, "start") /\ "startConnect" \in Duty(t)
      BY <1>2, HeadDuty, Duties DEF StartCheck, Starts
    <2>2. CASE ~out.active /\ Continue(t, <<"startConnect">>) /\ UNCHANGED <<phase, cause, plan>>
      <3>1. Went(t, "start", {"startConnect"})
        BY <2>1, <2>2, Going1 DEF Rank, Signals, Steps
      <3> QED
        BY <2>2, <3>1
    <2>3. CASE /\ \/ out.active /\ UNCHANGED <<cause, plan>>
                  \/ ~out.active /\ Fails("settings")
               /\ Continue(t, <<>>)
               /\ phase' = IF t = "user" THEN "off" ELSE phase
      <3>1. Went(t, "start", {})
        BY <2>1, <2>3, Going0
      <3> QED
        BY <2>3, <3>1
    <2> QED
      BY <1>2, <2>2, <2>3 DEF StartCheck
  <1>3. ASSUME StartConnect(t)
        PROVE  \E n \in Connectors :
                  /\ Forked(t, "startConnect", {}, n, {"initConnect", "connect"})
                  /\ handle' = [handle EXCEPT !["connect"] = n] /\ detached' = detached \ {n}
    <2> DEFINE e == <<"initConnect", "connect">>
    <2>1. At(t, "startConnect") /\ Spawn("connect", t, <<>>, e)
      BY <1>3 DEF StartConnect
    <2>2. e \in Seq(Steps) /\ Increasing(e) /\ InStack(e) = {"initConnect", "connect"}
      <3>1. "initConnect" \in Steps /\ "connect" \in Steps /\ Rank("initConnect") < Rank("connect")
        BY DEF Rank, Signals, Steps
      <3> QED
        BY <3>1, Words
    <2> HIDE DEF e
    <2>3. "connect" \in Kinds /\ Pool["connect"] = Connectors
          /\ \A n \in Connectors : InStack(e) \subseteq Duty(n)
      BY <2>2 DEF Kinds, Pool, Duty, Connectors, ConnectSteps
    <2>4. \E n \in Pool["connect"] :
              /\ Forked(t, "startConnect", {}, n, InStack(e))
              /\ handle' = [handle EXCEPT !["connect"] = n] /\ detached' = detached \ {n}
      BY <2>1, <2>2, <2>3, Forking0
    <2> QED
      BY <2>2, <2>3, <2>4
  <1> QED
    BY <1>1, <1>2, <1>3

LEMMA ConnectMoves ==
    ASSUME Stacks, NEW t \in Threads
    PROVE  /\ InitConnect(t) => \/ Went(t, "initConnect", {}) /\ UNCHANGED <<cause, plan>>
                                \/ /\ Fails("settings") /\ Least(t, "initConnect")
                                   /\ Became(t, {"signalBadPath"})
           /\ TryConnect(t) =>
                  \/ /\ rtmp' = [rtmp EXCEPT !.sem = 0, !.active = TRUE]
                     /\ UNCHANGED <<cause, plan>>
                     /\ \E n \in Senders :
                            /\ Forked(t, "connect", {"metaData"}, n, {"sendWait"})
                            /\ handle' = [handle EXCEPT !["send"] = n] /\ detached' = detached \ {n}
                  \/ /\ Fails("server")
                     /\ UNCHANGED <<rtmp, handle, detached>>
                     /\ Went(t, "connect", {"signalConnectFailed", "connectDetach", "connectDone"})
           /\ SendMetaData(t) =>
                  \/ /\ UNCHANGED <<cause, plan>>
                     /\ Went(t, "metaData", {"beginCapture", "connectDetach", "connectDone"})
                  \/ /\ Fails("server")
                     /\ Went(t, "metaData", {"signalDisconnected", "connectDetach", "connectDone"})
           /\ BeginCapture(t) =>
                  \/ /\ out.active /\ UNCHANGED <<out, encoding>> /\ Went(t, "beginCapture", {})
                  \/ /\ ~out.active /\ encoding' = Encoders
                     /\ out' = [out EXCEPT !.dataActive = TRUE]
                     /\ Went(t, "beginCapture", {"beginActive", "beginSignal"})
           /\ BeginActive(t) => Went(t, "beginActive", {})
           /\ BeginSignal(t) => Went(t, "beginSignal", {})
           /\ ConnectDetach(t) => Went(t, "connectDetach", {})
           /\ ConnectDone(t) => Went(t, "connectDone", {})
  <1>1. ASSUME InitConnect(t)
        PROVE  \/ Went(t, "initConnect", {}) /\ UNCHANGED <<cause, plan>>
               \/ /\ Fails("settings") /\ Least(t, "initConnect")
                  /\ Became(t, {"signalBadPath"})
    <2>1. At(t, "initConnect")
      BY <1>1 DEF InitConnect
    <2>2. CASE Continue(t, <<>>) /\ UNCHANGED <<cause, plan>>
      BY <2>1, <2>2, Going0
    <2>3. CASE Fails("settings") /\ code' = [code EXCEPT ![t] = <<SignalStopOf["BAD_PATH"]>>]
      <3> DEFINE s == <<"signalBadPath">>
      <3>1. s \in Seq(Steps) /\ Increasing(s) /\ InStack(s) = {"signalBadPath"}
        BY Words, SignalNames DEF Signals
      <3>2. code' = [code EXCEPT ![t] = s]
        BY <2>3, SignalNames
      <3> HIDE DEF s
      <3>3. "signalBadPath" \in Duty(t)
        BY <2>1, HeadDuty, Duties DEF Calls, Signals, ConnectSteps
      <3>4. Became(t, InStack(s))
        BY <3>1, <3>2, <3>3, Becoming
      <3> QED
        BY <2>1, <2>3, <3>1, <3>4, AtLeast
    <2> QED
      BY <1>1, <2>2, <2>3 DEF InitConnect
  <1>2. ASSUME TryConnect(t)
        PROVE  \/ /\ rtmp' = [rtmp EXCEPT !.sem = 0, !.active = TRUE]
                  /\ UNCHANGED <<cause, plan>>
                  /\ \E n \in Senders :
                         /\ Forked(t, "connect", {"metaData"}, n, {"sendWait"})
                         /\ handle' = [handle EXCEPT !["send"] = n] /\ detached' = detached \ {n}
               \/ /\ Fails("server")
                  /\ UNCHANGED <<rtmp, handle, detached>>
                  /\ Went(t, "connect", {"signalConnectFailed", "connectDetach", "connectDone"})
    <2>1. /\ At(t, "connect") /\ Calls \cup ConnectSteps \subseteq Duty(t)
      <3>1. At(t, "connect")
        BY <1>2 DEF TryConnect
      <3> QED
        BY <3>1, HeadDuty, Duties DEF ConnectSteps
    <2>2. CASE /\ rtmp' = [rtmp EXCEPT !.sem = 0, !.active = TRUE]
               /\ Spawn("send", t, <<"metaData">>, <<"sendWait">>) /\ UNCHANGED <<cause, plan>>
      <3> DEFINE e == <<"sendWait">>
      <3>1. /\ "metaData" \in Steps /\ "sendWait" \in Steps /\ "metaData" \in Duty(t)
            /\ Rank("metaData") <= Rank("connect")
        BY <2>1 DEF Steps, ConnectSteps, Rank, Signals
      <3>2. e \in Seq(Steps) /\ Increasing(e) /\ InStack(e) = {"sendWait"}
        BY <3>1, Words
      <3>3. Spawn("send", t, <<"metaData">>, e)
        BY <2>2
      <3> HIDE DEF e
      <3>4. "send" \in Kinds /\ Pool["send"] = Senders /\ \A n \in Senders : InStack(e) \subseteq Duty(n)
        BY <3>2 DEF Kinds, Pool, Duty, Connectors, Senders, SendSteps
      <3>5. \E n \in Pool["send"] :
                /\ Forked(t, "connect", {"metaData"}, n, InStack(e))
                /\ handle' = [handle EXCEPT !["send"] = n] /\ detached' = detached \ {n}
        BY <2>1, <3>1, <3>2, <3>3, <3>4, Forking1, ZenonT(40)
      <3> QED
        BY <2>2, <3>2, <3>4, <3>5
    <2>3. CASE /\ Fails("server")
               /\ Continue(t, <<SignalStopOf["CONNECT_FAILED"], "connectDetach", "connectDone">>)
               /\ UNCHANGED <<rtmp, handle, detached>>
      <3>1. Continue(t, <<"signalConnectFailed", "connectDetach", "connectDone">>)
        BY <2>3, SignalNames
      <3>2. {"signalConnectFailed", "connectDetach", "connectDone"} \subseteq Duty(t)
        BY <2>1 DEF Calls, Signals, ConnectSteps
      <3>3. /\ "signalConnectFailed" \in Steps /\ "connectDetach" \in Steps /\ "connectDone" \in Steps
            /\ Rank("signalConnectFailed") < Rank("connectDetach") /\ Rank("connectDetach") < Rank("connectDone")
            /\ Rank("signalConnectFailed") <= Rank("connect") /\ Rank("connectDetach") <= Rank("connect") /\ Rank("connectDone") <= Rank("connect")
        BY SignalNames DEF Rank, Signals, Steps
      <3>4. Went(t, "connect", {"signalConnectFailed", "connectDetach", "connectDone"})
        BY <2>1, <3>1, <3>2, <3>3, Going3
      <3> QED
        BY <2>3, <3>4
    <2> QED
      BY <1>2, <2>2, <2>3 DEF TryConnect
  <1>3. ASSUME SendMetaData(t)
        PROVE  \/ /\ UNCHANGED <<cause, plan>>
                  /\ Went(t, "metaData", {"beginCapture", "connectDetach", "connectDone"})
               \/ /\ Fails("server")
                  /\ Went(t, "metaData", {"signalDisconnected", "connectDetach", "connectDone"})
    <2>1. /\ At(t, "metaData") /\ Calls \cup ConnectSteps \subseteq Duty(t)
      <3>1. At(t, "metaData")
        BY <1>3 DEF SendMetaData
      <3> QED
        BY <3>1, HeadDuty, Duties DEF ConnectSteps
    <2>2. CASE /\ Continue(t, <<"beginCapture", "connectDetach", "connectDone">>)
               /\ UNCHANGED <<cause, plan>>
      <3>1. {"beginCapture", "connectDetach", "connectDone"} \subseteq Duty(t)
        BY <2>1 DEF ConnectSteps
      <3>2. /\ "beginCapture" \in Steps /\ "connectDetach" \in Steps /\ "connectDone" \in Steps
            /\ Rank("beginCapture") < Rank("connectDetach") /\ Rank("connectDetach") < Rank("connectDone")
            /\ Rank("beginCapture") <= Rank("metaData") /\ Rank("connectDetach") <= Rank("metaData") /\ Rank("connectDone") <= Rank("metaData")
        BY DEF Rank, Signals, Steps
      <3>3. Went(t, "metaData", {"beginCapture", "connectDetach", "connectDone"})
        BY <2>1, <2>2, <3>1, <3>2, Going3
      <3> QED
        BY <2>2, <3>3
    <2>3. CASE /\ Fails("server")
               /\ Continue(t, <<SignalStopOf["DISCONNECTED"], "connectDetach", "connectDone">>)
      <3>1. Continue(t, <<"signalDisconnected", "connectDetach", "connectDone">>)
        BY <2>3, SignalNames
      <3>2. {"signalDisconnected", "connectDetach", "connectDone"} \subseteq Duty(t)
        BY <2>1 DEF Calls, Signals, ConnectSteps
      <3>3. /\ "signalDisconnected" \in Steps /\ "connectDetach" \in Steps /\ "connectDone" \in Steps
            /\ Rank("signalDisconnected") < Rank("connectDetach") /\ Rank("connectDetach") < Rank("connectDone")
            /\ Rank("signalDisconnected") <= Rank("metaData") /\ Rank("connectDetach") <= Rank("metaData") /\ Rank("connectDone") <= Rank("metaData")
        BY SignalNames DEF Rank, Signals, Steps
      <3>4. Went(t, "metaData", {"signalDisconnected", "connectDetach", "connectDone"})
        BY <2>1, <3>1, <3>2, <3>3, Going3
      <3> QED
        BY <2>3, <3>4
    <2> QED
      BY <1>3, <2>2, <2>3 DEF SendMetaData
  <1>4. ASSUME BeginCapture(t)
        PROVE  \/ /\ out.active /\ UNCHANGED <<out, encoding>> /\ Went(t, "beginCapture", {})
               \/ /\ ~out.active /\ encoding' = Encoders
                  /\ out' = [out EXCEPT !.dataActive = TRUE]
                  /\ Went(t, "beginCapture", {"beginActive", "beginSignal"})
    <2>1. At(t, "beginCapture")
      BY <1>4 DEF BeginCapture
    <2>2. {"beginActive", "beginSignal"} \subseteq Duty(t)
      BY <2>1, HeadDuty, Duties DEF ConnectSteps
    <2>3. CASE out.active
      <3>1. Continue(t, <<>>) /\ UNCHANGED <<out, encoding>>
        BY <1>4, <2>3 DEF BeginCapture
      <3> QED
        BY <2>1, <2>3, <3>1, Going0
    <2>4. CASE ~out.active
      <3>1. /\ Continue(t, <<"beginActive", "beginSignal">>) /\ encoding' = Encoders
            /\ out' = [out EXCEPT !.dataActive = TRUE]
        BY <1>4, <2>4 DEF BeginCapture
      <3>2. Went(t, "beginCapture", {"beginActive", "beginSignal"})
        BY <2>1, <2>2, <3>1, Going2 DEF Rank, Signals, Steps
      <3> QED
        BY <2>4, <3>1, <3>2
    <2> QED
      BY <2>3, <2>4
  <1>5. BeginActive(t) => Went(t, "beginActive", {})
    BY Going0 DEF BeginActive
  <1>6. BeginSignal(t) => Went(t, "beginSignal", {})
    BY Going0 DEF BeginSignal
  <1>7. ConnectDetach(t) => Went(t, "connectDetach", {})
    BY Going0 DEF ConnectDetach
  <1>8. ConnectDone(t) => Went(t, "connectDone", {})
    BY Going0 DEF ConnectDone
  <1> QED
    BY <1>1, <1>2, <1>3, <1>4, <1>5, <1>6, <1>7, <1>8

LEMMA Prefixed ==
    ASSUME NEW a \in Steps, NEW b \in Steps, NEW c \in Steps
    PROVE  <<a>> \o <<b, c>> = <<a, b, c>>
  <1> DEFINE p == <<a>>
             q == <<b, c>>
             r == <<a, b, c>>
  <1>1. p \in Seq(Steps) /\ Len(p) = 1 /\ p[1] = a
    OBVIOUS
  <1>2. q \in Seq(Steps) /\ Len(q) = 2 /\ q[1] = b /\ q[2] = c
    OBVIOUS
  <1>3. r \in Seq(Steps) /\ Len(r) = 3 /\ r[1] = a /\ r[2] = b /\ r[3] = c
    OBVIOUS
  <1> HIDE DEF p, q, r
  <1>4. /\ p \o q \in Seq(Steps) /\ Len(p \o q) = Len(p) + Len(q)
        /\ \A i \in 1 .. Len(p) + Len(q) : (p \o q)[i] = IF i <= Len(p) THEN p[i] ELSE q[i - Len(p)]
    BY <1>1, <1>2, ConcatProperties
  <1>5. (p \o q)[1] = a /\ (p \o q)[2] = b /\ (p \o q)[3] = c
    BY <1>1, <1>2, <1>4
  <1>6. \A i \in 1 .. 3 : i = 1 \/ i = 2 \/ i = 3
    OBVIOUS
  <1>7. \A i \in 1 .. 3 : (p \o q)[i] = r[i]
    BY <1>3, <1>5, <1>6
  <1>8. Len(p \o q) = 3
    BY <1>1, <1>2, <1>4
  <1>9. p \o q = r
    BY <1>3, <1>4, <1>7, <1>8, SeqEqual
  <1> QED
    BY <1>9 DEF p, q, r

LEMMA SendMoves ==
    ASSUME Stacks, NEW t \in Threads
    PROVE  /\ SendFinish(t) => Went(t, "sendWait", {"sendEnd"})
           /\ SendPacket(t) => Stacks' /\ \A u \in Threads : Todo(u)' = Todo(u)
           /\ SendFail(t) => Went(t, "sendWait", {"sendEnd"})
           /\ SendEnd(t) =>
                  \/ /\ ~rtmp.stopEvent /\ detached' = detached \cup {handle["send"]}
                     /\ Went(t, "sendEnd", {"signalDisconnected", "sendReset", "sendDone"})
                  \/ /\ rtmp.stopEvent /\ rtmp.encodeError /\ UNCHANGED detached
                     /\ Went(t, "sendEnd", {"signalEncodeError", "sendReset", "sendDone"})
                  \/ /\ rtmp.stopEvent /\ ~rtmp.encodeError /\ UNCHANGED detached
                     /\ Went(t, "sendEnd", {"endCapture", "sendReset", "sendDone"})
           /\ SendCleanUp(t) =>
                  \/ /\ rtmp' = [rtmp EXCEPT !.packets = 0, !.stopEvent = FALSE]
                     /\ Went(t, "sendReset", {})
                  \/ rtmp' = [rtmp EXCEPT !.active = FALSE] /\ Went(t, "sendDone", {})
  <1>1. ASSUME At(t, "sendWait"), Continue(t, <<"sendEnd">>)
        PROVE  Went(t, "sendWait", {"sendEnd"})
    <2>1. "sendEnd" \in Duty(t)
      BY <1>1, HeadDuty, Duties DEF SendSteps
    <2> QED
      BY <1>1, <2>1, Going1 DEF Rank, Signals, Steps
  <1>2. SendFinish(t) => Went(t, "sendWait", {"sendEnd"})
    BY <1>1 DEF SendFinish
  <1>3. SendFail(t) => Went(t, "sendWait", {"sendEnd"})
    BY <1>1 DEF SendFail
  <1>4. SendPacket(t) => Stacks' /\ \A u \in Threads : Todo(u)' = Todo(u)
    BY Staying DEF SendPacket
  <1>5. ASSUME SendEnd(t)
        PROVE  \/ /\ ~rtmp.stopEvent /\ detached' = detached \cup {handle["send"]}
                  /\ Went(t, "sendEnd", {"signalDisconnected", "sendReset", "sendDone"})
               \/ /\ rtmp.stopEvent /\ rtmp.encodeError /\ UNCHANGED detached
                  /\ Went(t, "sendEnd", {"signalEncodeError", "sendReset", "sendDone"})
               \/ /\ rtmp.stopEvent /\ ~rtmp.encodeError /\ UNCHANGED detached
                  /\ Went(t, "sendEnd", {"endCapture", "sendReset", "sendDone"})
    <2>1. At(t, "sendEnd")
      BY <1>5 DEF SendEnd
    <2>2. Signals \cup {"endCapture", "sendReset", "sendDone"} \subseteq Duty(t)
      BY <2>1, HeadDuty, Duties DEF SendSteps, Calls
    <2>4. ASSUME NEW a \in {"signalDisconnected", "signalEncodeError", "endCapture"},
                 Continue(t, <<a>> \o <<"sendReset", "sendDone">>)
          PROVE  Went(t, "sendEnd", {a, "sendReset", "sendDone"})
      <3>1. Continue(t, <<a, "sendReset", "sendDone">>)
        <4>1. a \in Steps /\ "sendReset" \in Steps /\ "sendDone" \in Steps
          BY SignalNames DEF Steps, Signals
        <4>2. <<a>> \o <<"sendReset", "sendDone">> = <<a, "sendReset", "sendDone">>
          BY <4>1, Prefixed
        <4> QED
          BY <2>4, <4>2
      <3>2. /\ a \in Steps /\ "sendReset" \in Steps /\ "sendDone" \in Steps
            /\ Rank(a) = 5 /\ Rank("sendReset") = 9 /\ Rank("sendDone") = 10 /\ Rank("sendEnd") = 11
        BY SignalNames DEF Rank, Signals, Steps
      <3>3. {a, "sendReset", "sendDone"} \subseteq Duty(t)
        BY <2>2 DEF Signals
      <3>4. /\ Rank(a) < Rank("sendReset") /\ Rank("sendReset") < Rank("sendDone")
            /\ Rank(a) <= Rank("sendEnd") /\ Rank("sendReset") <= Rank("sendEnd")
            /\ Rank("sendDone") <= Rank("sendEnd")
        BY <3>2
      <3> QED
        BY <2>1, <3>1, <3>2, <3>3, <3>4, Going3
    <2>5. CASE /\ ~rtmp.stopEvent /\ detached' = detached \cup {handle["send"]}
               /\ Continue(t, <<SignalStopOf["DISCONNECTED"]>> \o <<"sendReset", "sendDone">>)
      BY <2>4, <2>5, SignalNames
    <2>6. CASE /\ rtmp.stopEvent /\ rtmp.encodeError /\ UNCHANGED detached
               /\ Continue(t, <<SignalStopOf["ENCODE_ERROR"]>> \o <<"sendReset", "sendDone">>)
      BY <2>4, <2>6, SignalNames
    <2>7. CASE /\ rtmp.stopEvent /\ ~rtmp.encodeError /\ UNCHANGED detached
               /\ Continue(t, <<"endCapture">> \o <<"sendReset", "sendDone">>)
      BY <2>4, <2>7
    <2> QED
      BY <1>5, <2>5, <2>6, <2>7 DEF SendEnd
  <1>6. ASSUME SendCleanUp(t)
        PROVE  \/ /\ rtmp' = [rtmp EXCEPT !.packets = 0, !.stopEvent = FALSE]
                  /\ Went(t, "sendReset", {})
               \/ rtmp' = [rtmp EXCEPT !.active = FALSE] /\ Went(t, "sendDone", {})
    BY <1>6, Going0 DEF SendCleanUp
  <1> QED
    BY <1>2, <1>3, <1>4, <1>5, <1>6

LEMMA StopMoves ==
    ASSUME Stacks, NEW t \in Threads
    PROVE  /\ ForceStop(t) => Went(t, "forceStop", {"cancelRetry", "rtmpStopNow"})
           /\ CancelRetry(t) =>
                  \/ /\ out.reconnecting /\ out' = [out EXCEPT !.reconnectStop = TRUE]
                     /\ Went(t, "cancelRetry", {"joinRetry"})
                  \/ ~out.reconnecting /\ UNCHANGED out /\ Went(t, "cancelRetry", {})
           /\ JoinRetry(t) => Went(t, "joinRetry", {})
           /\ RtmpStop(t) =>
                  \/ ConnectEnded /\ Went(t, "rtmpStopNow", {"rtmpSignalNow"})
                  \/ ConnectEnded /\ Went(t, "rtmpStop", {"rtmpSignal"})
                  \/ Went(t, "rtmpStop", {})
           /\ RtmpSignal(t) => \E h \in {"rtmpSignal", "rtmpSignalNow"} :
                  \/ /\ rtmp.active
                     /\ rtmp' = [rtmp EXCEPT !.stopNow = At(t, "rtmpSignalNow"), !.stopEvent = TRUE,
                                             !.sem = IF At(t, "rtmpSignalNow") THEN @ + 1 ELSE @]
                     /\ Went(t, h, {})
                  \/ /\ ~rtmp.active
                     /\ rtmp' = [rtmp EXCEPT !.stopNow = At(t, "rtmpSignalNow")]
                     /\ Went(t, h, {"signalSuccess"})
           /\ NullPacket(t) => Went(t, "nullPacket", {})
  <1>1. ASSUME ForceStop(t) PROVE Went(t, "forceStop", {"cancelRetry", "rtmpStopNow"})
    <2>1. At(t, "forceStop") /\ Continue(t, <<"cancelRetry", "rtmpStopNow">>)
      BY <1>1 DEF ForceStop
    <2>2. {"cancelRetry", "rtmpStopNow"} \subseteq Duty(t)
      BY <2>1, HeadDuty, Duties DEF Stops
    <2> QED
      BY <2>1, <2>2, Going2 DEF Rank, Signals, Steps
  <1>2. ASSUME CancelRetry(t)
        PROVE  \/ /\ out.reconnecting /\ out' = [out EXCEPT !.reconnectStop = TRUE]
                  /\ Went(t, "cancelRetry", {"joinRetry"})
               \/ ~out.reconnecting /\ UNCHANGED out /\ Went(t, "cancelRetry", {})
    <2>1. At(t, "cancelRetry")
      BY <1>2 DEF CancelRetry
    <2>2. "joinRetry" \in Duty(t)
      BY <2>1, HeadDuty, Duties DEF Stops
    <2>3. CASE out.reconnecting
      <3>1. Continue(t, <<"joinRetry">>) /\ out' = [out EXCEPT !.reconnectStop = TRUE]
        BY <1>2, <2>3 DEF CancelRetry
      <3>2. Went(t, "cancelRetry", {"joinRetry"})
        BY <2>1, <2>2, <3>1, Going1 DEF Rank, Signals, Steps
      <3> QED
        BY <2>3, <3>1, <3>2
    <2>4. CASE ~out.reconnecting
      BY <1>2, <2>4, Going0 DEF CancelRetry
    <2> QED
      BY <2>3, <2>4
  <1>3. JoinRetry(t) => Went(t, "joinRetry", {})
    BY Going0 DEF JoinRetry
  <1>4. ASSUME RtmpStop(t)
        PROVE  \/ ConnectEnded /\ Went(t, "rtmpStopNow", {"rtmpSignalNow"})
               \/ ConnectEnded /\ Went(t, "rtmpStop", {"rtmpSignal"})
               \/ Went(t, "rtmpStop", {})
    <2>1. CASE At(t, "rtmpStopNow") /\ ConnectEnded /\ Continue(t, <<"rtmpSignalNow">>)
      <3>1. "rtmpSignalNow" \in Duty(t)
        BY <2>1, HeadDuty, Duties DEF Stops
      <3> QED
        BY <2>1, <3>1, Going1 DEF Rank, Signals, Steps
    <2>2. CASE At(t, "rtmpStop") /\ ConnectEnded /\ Continue(t, <<"rtmpSignal">>)
      <3>1. "rtmpSignal" \in Duty(t)
        BY <2>2, HeadDuty, Duties DEF Stops
      <3> QED
        BY <2>2, <3>1, Going1 DEF Rank, Signals, Steps
    <2>3. CASE At(t, "rtmpStop") /\ Continue(t, <<>>)
      BY <2>3, Going0
    <2> QED
      BY <1>4, <2>1, <2>2, <2>3 DEF RtmpStop
  <1>5. ASSUME RtmpSignal(t)
        PROVE  \E h \in {"rtmpSignal", "rtmpSignalNow"} :
                  \/ /\ rtmp.active
                     /\ rtmp' = [rtmp EXCEPT !.stopNow = At(t, "rtmpSignalNow"), !.stopEvent = TRUE,
                                             !.sem = IF At(t, "rtmpSignalNow") THEN @ + 1 ELSE @]
                     /\ Went(t, h, {})
                  \/ /\ ~rtmp.active
                     /\ rtmp' = [rtmp EXCEPT !.stopNow = At(t, "rtmpSignalNow")]
                     /\ Went(t, h, {"signalSuccess"})
    <2>1. PICK h \in {"rtmpSignal", "rtmpSignalNow"} : At(t, h)
      BY <1>5 DEF RtmpSignal
    <2>2. "signalSuccess" \in Duty(t) /\ Rank("signalSuccess") <= Rank(h) /\ "signalSuccess" \in Steps
      <3>1. h \in Stops
        BY DEF Stops
      <3>2. Calls \subseteq Duty(t)
        BY <2>1, <3>1, HeadDuty, Duties
      <3> QED
        BY <3>2, SignalNames DEF Calls, Signals, Rank
    <2>3. CASE rtmp.active
      <3>1. /\ rtmp' = [rtmp EXCEPT !.stopNow = At(t, "rtmpSignalNow"), !.stopEvent = TRUE,
                                    !.sem = IF At(t, "rtmpSignalNow") THEN @ + 1 ELSE @]
            /\ Continue(t, <<>>)
        BY <1>5, <2>3 DEF RtmpSignal
      <3>2. Went(t, h, {})
        BY <2>1, <3>1, Going0
      <3> QED
        BY <2>3, <3>1, <3>2
    <2>4. CASE ~rtmp.active
      <3>1. /\ rtmp' = [rtmp EXCEPT !.stopNow = At(t, "rtmpSignalNow")]
            /\ Continue(t, <<SignalStopOf["SUCCESS"]>>)
        BY <1>5, <2>4 DEF RtmpSignal
      <3>2. Went(t, h, {"signalSuccess"})
        BY <2>1, <2>2, <3>1, SignalNames, Going1
      <3> QED
        BY <2>4, <3>1, <3>2
    <2> QED
      BY <2>3, <2>4
  <1>6. NullPacket(t) => Went(t, "nullPacket", {})
    BY Going0 DEF NullPacket
  <1> QED
    BY <1>1, <1>2, <1>3, <1>4, <1>5, <1>6

LEMMA FrontMoves ==
    ASSUME Stacks
    PROVE  /\ UserStart => Todo("user") = {} /\ Became("user", {"startWait", "start"})
           /\ UserStop => /\ Todo("user") = {}
                          /\ \/ out.reconnecting /\ UNCHANGED out /\ Became("user", {"forceStop"})
                             \/ /\ ~out.reconnecting /\ ~out.stopping
                                /\ out' = [out EXCEPT !.stopping = TRUE]
                                /\ Became("user", {"cancelRetry", "rtmpStop"})
           /\ UserForceStop => Todo("user") = {} /\ Became("user", {"forceStop"})
           /\ EncodeError => Todo("encoder") = {} /\ Became("encoder", {"forceStop", "nullPacket"})
           /\ Packet \/ UNCHANGED vars => Stacks' /\ \A u \in Threads : Todo(u)' = Todo(u)
  <1>1. "user" \in Threads /\ "encoder" \in Threads
    BY DEF Threads
  <1>2. ASSUME NEW t \in {"user", "encoder"}, NEW a \in Stops \cup {"startWait"},
               NEW b \in {"start", "rtmpStop", "nullPacket"}, Rank(a) < Rank(b), {a, b} \subseteq Duty(t),
               code' = [code EXCEPT ![t] = <<a, b>>]
        PROVE  Became(t, {a, b})
    <2> DEFINE s == <<a, b>>
    <2>1. a \in Steps /\ b \in Steps
      BY DEF Steps, Stops
    <2>2. s \in Seq(Steps) /\ Increasing(s) /\ InStack(s) = {a, b}
      BY <1>2, <2>1, Words
    <2>3. code' = [code EXCEPT ![t] = s]
      BY <1>2
    <2> HIDE DEF s
    <2>4. InStack(s) \subseteq Duty(t)
      BY <1>2, <2>2
    <2>5. Became(t, InStack(s))
      BY <1>1, <2>2, <2>3, <2>4, Becoming
    <2> QED
      BY <2>2, <2>5
  <1>3. ASSUME code' = [code EXCEPT !["user"] = <<"forceStop">>]
        PROVE  Became("user", {"forceStop"})
    <2> DEFINE s == <<"forceStop">>
    <2>1. "forceStop" \in Steps /\ "forceStop" \in Duty("user")
      BY DEF Steps, Stops, Duty
    <2>2. s \in Seq(Steps) /\ Increasing(s) /\ InStack(s) = {"forceStop"}
      BY <2>1, Words
    <2>3. code' = [code EXCEPT !["user"] = s]
      BY <1>3
    <2> HIDE DEF s
    <2>4. InStack(s) \subseteq Duty("user")
      BY <2>1, <2>2
    <2>5. Became("user", InStack(s))
      BY <1>1, <2>2, <2>3, <2>4, Becoming
    <2> QED
      BY <2>2, <2>5
  <1>4. UserStart => Todo("user") = {} /\ Became("user", {"startWait", "start"})
    <2>1. {"startWait", "start"} \subseteq Duty("user") /\ Rank("startWait") < Rank("start")
      BY DEF Duty, Starts, Rank, Signals
    <2> QED
      BY <1>1, <1>2, <2>1, IdleTodo DEF UserStart
  <1>5. UserStop => /\ Todo("user") = {}
                    /\ \/ out.reconnecting /\ UNCHANGED out /\ Became("user", {"forceStop"})
                       \/ /\ ~out.reconnecting /\ ~out.stopping
                          /\ out' = [out EXCEPT !.stopping = TRUE]
                          /\ Became("user", {"cancelRetry", "rtmpStop"})
    <2>1. {"cancelRetry", "rtmpStop"} \subseteq Duty("user") /\ Rank("cancelRetry") < Rank("rtmpStop")
          /\ "cancelRetry" \in Stops
      BY DEF Duty, Stops, Rank, Signals
    <2>2. UserStop => Todo("user") = {}
      BY <1>1, IdleTodo DEF UserStop
    <2>3. UserStop /\ out.reconnecting => UNCHANGED out /\ Became("user", {"forceStop"})
      BY <1>3 DEF UserStop
    <2>4. UserStop /\ ~out.reconnecting => /\ ~out.stopping
                                           /\ out' = [out EXCEPT !.stopping = TRUE]
                                           /\ Became("user", {"cancelRetry", "rtmpStop"})
      BY <1>2, <2>1 DEF UserStop
    <2> QED
      BY <2>2, <2>3, <2>4
  <1>6. UserForceStop => Todo("user") = {} /\ Became("user", {"forceStop"})
    BY <1>1, <1>3, IdleTodo DEF UserForceStop
  <1>7. EncodeError => Todo("encoder") = {} /\ Became("encoder", {"forceStop", "nullPacket"})
    <2>1. {"forceStop", "nullPacket"} \subseteq Duty("encoder") /\ Rank("forceStop") < Rank("nullPacket")
          /\ "forceStop" \in Stops
      BY DEF Duty, Stops, Rank, Signals
    <2> QED
      BY <1>1, <1>2, <2>1, IdleTodo DEF EncodeError
  <1>8. Packet \/ UNCHANGED vars => Stacks' /\ \A u \in Threads : Todo(u)' = Todo(u)
    BY Staying DEF Packet, vars
  <1> QED
    BY <1>4, <1>5, <1>6, <1>7, <1>8

-----------------------------------------------------------------------------
(* Types. *)
OutType(m) == [active : BOOLEAN, dataActive : BOOLEAN, stopping : BOOLEAN,
               reconnecting : BOOLEAN, reconnectStop : BOOLEAN, reconnectThread : BOOLEAN,
               ending : BOOLEAN, retries : 0..m, stopCode : Codes]
RtmpType == [connecting : BOOLEAN, active : BOOLEAN, stopEvent : BOOLEAN, stopNow : BOOLEAN,
             disconnected : BOOLEAN, encodeError : BOOLEAN, sem : Nat, packets : 0..MaxPackets]
OutOK   == out \in OutType(plan.retryMax)
RtmpOK  == rtmp \in RtmpType
FrontOK == /\ phase \in {"off", "on", "stopping"} /\ told \in Seq(Codes)
           /\ cause \subseteq plan.faults \cup {"user"} /\ plan \in PlanType
Shape   == OutOK /\ RtmpOK /\ encoding \subseteq Encoders /\ FrontOK
Threaded == Stacks /\ Handles /\ detached \subseteq Spawned

LEMMA TypeParts == TypeInv <=> Shape /\ Threaded
  <1>1. Stacks => \A t \in Threads : \A i \in DOMAIN code[t] : code[t][i] \in Steps
    <2> SUFFICES ASSUME Stacks, NEW t \in Threads, NEW i \in DOMAIN code[t] PROVE code[t][i] \in Steps
      OBVIOUS
    <2>1. code[t] \in Seq(Steps)
      BY DEF Stacks
    <2> QED
      BY <2>1
  <1> QED
    BY <1>1 DEF TypeInv, TypeOK, Shape, Threaded, OutOK, RtmpOK, FrontOK, Handles, OutType, RtmpType

LEMMA Pools ==
    /\ Kinds = {"connect", "send", "reconnect", "end"}
    /\ Pool["connect"] = Connectors /\ Pool["send"] = Senders
    /\ Pool["reconnect"] = Retriers /\ Pool["end"] = Enders
    /\ Threads = Connectors \cup Senders \cup Retriers \cup Enders \cup {"user", "encoder"}
    /\ Spawned = Connectors \cup Senders \cup Retriers \cup Enders
    /\ \A k, m \in Kinds : \A t \in Pool[k] : t \in Pool[m] => k = m
    /\ \A k \in Kinds : /\ Pool[k] \subseteq Spawned /\ Pool[k] \subseteq Threads
                        /\ "user" \notin Pool[k] /\ "encoder" \notin Pool[k] /\ None \notin Pool[k]
  <1>1. /\ Kinds = {"connect", "send", "reconnect", "end"}
        /\ Pool["connect"] = Connectors /\ Pool["send"] = Senders
        /\ Pool["reconnect"] = Retriers /\ Pool["end"] = Enders
    BY DEF Kinds, Pool, Connectors, Senders, Retriers, Enders
  <1>2. Spawned = Connectors \cup Senders \cup Retriers \cup Enders
    BY <1>1 DEF Spawned
  <1>3. \A k, m \in Kinds : \A t \in Pool[k] : t \in Pool[m] => k = m
    BY <1>1 DEF Connectors, Senders, Retriers, Enders
  <1>4. \A k \in Kinds : "user" \notin Pool[k] /\ "encoder" \notin Pool[k] /\ None \notin Pool[k]
    BY <1>1 DEF Connectors, Senders, Retriers, Enders, None
  <1>5. Threads = Connectors \cup Senders \cup Retriers \cup Enders \cup {"user", "encoder"}
    BY <1>2 DEF Threads
  <1> QED
    BY <1>1, <1>2, <1>3, <1>4, <1>5

LEMMA HandlesWent ==
    ASSUME Handles, UNCHANGED handle, NEW t \in Threads, NEW h, NEW S, Went(t, h, S)
    PROVE  Handles'
  <1>1. \A u \in Threads : Todo(u)' # {} => Todo(u) # {}
    BY DEF Went, Least
  <1> QED
    BY <1>1, Pools DEF Handles

LEMMA HandlesForked ==
    ASSUME Handles, NEW t \in Threads, NEW h, NEW S, NEW k \in Kinds, NEW n \in Pool[k], NEW E,
           Forked(t, h, S, n, E), handle' = [handle EXCEPT ![k] = n]
    PROVE  Handles'
  <1>1. \A u \in Threads \ {n} : Todo(u)' # {} => Todo(u) # {}
    BY DEF Forked, Least
  <1>2. handle'[k] = n /\ \A m \in Kinds \ {k} : handle'[m] = handle[m]
    BY DEF Handles
  <1>3. \A m \in Kinds : handle'[m] \in Pool[m] \cup {None}
    BY <1>2 DEF Handles
  <1>4. ASSUME NEW m \in Kinds, NEW u \in Pool[m], Todo(u)' # {}
        PROVE  handle'[m] # None
    <2>1. CASE m = k
      BY <1>2, <2>1, Pools
    <2>2. CASE m # k
      <3>1. u \in Threads /\ u # n
        BY <2>2, Pools
      <3> QED
        BY <1>1, <1>2, <1>4, <2>2, <3>1 DEF Handles
    <2> QED
      BY <2>1, <2>2
  <1>5. handle' \in [Kinds -> Spawned \cup {None}]
    BY Pools DEF Handles
  <1> QED
    BY <1>3, <1>4, <1>5 DEF Handles

LEMMA HandlesStay ==
    ASSUME Handles, UNCHANGED handle, \A u \in Spawned : Todo(u)' # {} => Todo(u) # {}
    PROVE  Handles'
  BY Pools DEF Handles

LEMMA HandlesBecame ==
    ASSUME Handles, UNCHANGED handle, NEW t \in Threads, NEW S, Became(t, S),
           t \in {"user", "encoder"} \/ Todo(t) # {}
    PROVE  Handles'
  <1>1. \A u \in Spawned : u \in Threads /\ u \notin {"user", "encoder"}
    BY Pools DEF Connectors, Senders, Retriers, Enders
  <1>2. \A u \in Spawned : Todo(u)' # {} => Todo(u) # {}
    BY <1>1 DEF Became
  <1> QED
    BY <1>2, HandlesStay

LEMMA ThreadedWent ==
    ASSUME Threaded, UNCHANGED <<handle, detached>>, NEW t \in Threads, NEW h, NEW S, Went(t, h, S)
    PROVE  Threaded'
  BY HandlesWent DEF Threaded, Went

LEMMA ThreadedForked ==
    ASSUME Threaded, NEW t \in Threads, NEW h, NEW S, NEW k \in Kinds, NEW n \in Pool[k], NEW E,
           Forked(t, h, S, n, E), handle' = [handle EXCEPT ![k] = n], detached' = detached \ {n}
    PROVE  Threaded'
  <1>1. Handles /\ detached \subseteq Spawned
    BY DEF Threaded
  <1>2. Stacks' /\ detached' \subseteq Spawned
    BY <1>1 DEF Forked
  <1>3. Handles'
    BY <1>1, HandlesForked
  <1> QED
    BY <1>2, <1>3 DEF Threaded

LEMMA ThreadedBecame ==
    ASSUME Threaded, UNCHANGED <<handle, detached>>, NEW t \in Threads, NEW S, Became(t, S),
           t \in {"user", "encoder"} \/ Todo(t) # {}
    PROVE  Threaded'
  BY HandlesBecame DEF Threaded, Became

LEMMA ThreadedStays ==
    ASSUME Threaded, UNCHANGED <<handle, detached>>, Stacks', \A u \in Threads : Todo(u)' = Todo(u)
    PROVE  Threaded'
  <1>1. \A u \in Spawned : Todo(u)' # {} => Todo(u) # {}
    BY DEF Threads
  <1> QED
    BY <1>1, HandlesStay DEF Threaded

(* The handle a thread detaches is its own kind's. *)
LEMMA OwnHandle ==
    ASSUME Threaded, NEW t \in Threads, NEW h, Least(t, h)
    PROVE  /\ h \in RetrySteps => handle["reconnect"] \in Spawned
           /\ h \in ConnectSteps => handle["connect"] \in Spawned
           /\ h \in SendSteps => handle["send"] \in Spawned
  <1>1. h \in Duty(t) /\ Todo(t) # {}
    BY DEF Least
  <1> QED
    BY <1>1, Duties, Pools DEF Threaded, Handles

LEMMA Spending ==
    ASSUME FrontOK, NEW what \in {"start", "stop", "fault"}, Spend(what)
    PROVE  /\ plan' \in PlanType /\ plan'.retryMax = plan.retryMax /\ plan'.patient = plan.patient
           /\ plan'.faults = plan.faults
           /\ plan'[what] = plan[what] - 1 /\ plan[what] > 0
           /\ what # "start" => plan'.start = plan.start
  BY DEF FrontOK, Spend, PlanType

LEMMA Failing ==
    ASSUME FrontOK, NEW who \in {"server", "encoder", "settings"}, Fails(who)
    PROVE  /\ plan' \in PlanType /\ plan'.retryMax = plan.retryMax /\ plan'.patient = plan.patient
           /\ plan'.faults = plan.faults /\ cause' = cause \cup {who}
           /\ plan'.start = plan.start /\ cause' \subseteq plan'.faults \cup {"user"}
  BY Spending DEF FrontOK, Fails

(* What a step does not touch keeps its type. *)
LEMMA ShapeSame ==
    /\ Shape /\ UNCHANGED <<front, rtmp, encoding>> /\ out' \in OutType(plan.retryMax) => Shape'
    /\ Shape /\ UNCHANGED <<front, out, encoding>> /\ rtmp' \in RtmpType => Shape'
    /\ Shape /\ UNCHANGED <<front, out, rtmp>> /\ encoding' \subseteq Encoders => Shape'
    /\ Shape /\ UNCHANGED <<front, out, rtmp, encoding>> => Shape'
  BY DEF Shape, OutOK, RtmpOK, FrontOK, front

LEMMA ShapeFails ==
    ASSUME Shape, NEW who \in {"server", "encoder", "settings"}, Fails(who),
           UNCHANGED <<out, encoding, phase, told>>, rtmp' \in RtmpType
    PROVE  Shape'
  <1>1. FrontOK /\ out \in OutType(plan.retryMax) /\ encoding \subseteq Encoders
    BY DEF Shape, OutOK
  <1>2. plan'.retryMax = plan.retryMax /\ plan' \in PlanType /\ cause' \subseteq plan'.faults \cup {"user"}
    BY <1>1, Failing
  <1> QED
    BY <1>1, <1>2 DEF Shape, OutOK, RtmpOK, FrontOK

LEMMA RtmpSteps ==
    ASSUME rtmp \in RtmpType
    PROVE  /\ \A b \in BOOLEAN :
                  /\ [rtmp EXCEPT !.connecting = b] \in RtmpType
                  /\ [rtmp EXCEPT !.active = b] \in RtmpType
                  /\ [rtmp EXCEPT !.stopNow = b] \in RtmpType
                  /\ [rtmp EXCEPT !.stopNow = b, !.stopEvent = TRUE,
                                  !.sem = IF b THEN @ + 1 ELSE @] \in RtmpType
           /\ [rtmp EXCEPT !.sem = 0, !.active = TRUE] \in RtmpType
           /\ [rtmp EXCEPT !.packets = 0, !.stopEvent = FALSE] \in RtmpType
           /\ [rtmp EXCEPT !.packets = 0] \in RtmpType
           /\ [[rtmp EXCEPT !.packets = 0] EXCEPT !.disconnected = FALSE, !.encodeError = FALSE] \in RtmpType
           /\ [rtmp EXCEPT !.encodeError = TRUE, !.sem = @ + 1] \in RtmpType
           /\ rtmp.sem > 0 => /\ [rtmp EXCEPT !.sem = @ - 1] \in RtmpType
                              /\ Taken \in RtmpType
                              /\ [Taken EXCEPT !.disconnected = TRUE] \in RtmpType
           /\ rtmp.packets < MaxPackets =>
                  [rtmp EXCEPT !.packets = @ + 1, !.sem = @ + 1] \in RtmpType
  <1> USE LifecycleAssumption
  <1>1. \A b \in BOOLEAN :
            /\ [rtmp EXCEPT !.connecting = b] \in RtmpType
            /\ [rtmp EXCEPT !.active = b] \in RtmpType
            /\ [rtmp EXCEPT !.stopNow = b] \in RtmpType
    BY DEF RtmpType
  <1>2. /\ rtmp.sem \in Nat /\ rtmp.packets \in 0 .. MaxPackets /\ 0 \in 0 .. MaxPackets
        /\ rtmp.sem + 1 \in Nat /\ (rtmp.sem > 0 => rtmp.sem - 1 \in Nat)
        /\ (rtmp.packets < MaxPackets => rtmp.packets + 1 \in 0 .. MaxPackets)
        /\ (IF rtmp.packets > 0 THEN rtmp.packets - 1 ELSE 0) \in 0 .. MaxPackets
    BY DEF RtmpType
  <1>3. ASSUME NEW b \in BOOLEAN, NEW n \in Nat
        PROVE  [rtmp EXCEPT !.stopNow = b, !.stopEvent = TRUE, !.sem = n] \in RtmpType
    BY <1>3 DEF RtmpType
  <1>4. ASSUME NEW n \in Nat
        PROVE  [rtmp EXCEPT !.sem = n, !.active = TRUE] \in RtmpType
    BY <1>4 DEF RtmpType
  <1>5. ASSUME NEW n \in Nat
        PROVE  [rtmp EXCEPT !.encodeError = TRUE, !.sem = n] \in RtmpType
    BY <1>5 DEF RtmpType
  <1>6. ASSUME NEW n \in Nat
        PROVE  [rtmp EXCEPT !.sem = n] \in RtmpType
    BY <1>6 DEF RtmpType
  <1>7. ASSUME NEW n \in Nat, NEW m \in 0 .. MaxPackets
        PROVE  [rtmp EXCEPT !.sem = n, !.packets = m] \in RtmpType
    BY <1>7 DEF RtmpType
  <1>8. ASSUME NEW n \in Nat, NEW m \in 0 .. MaxPackets
        PROVE  [rtmp EXCEPT !.packets = m, !.sem = n] \in RtmpType
    BY <1>8 DEF RtmpType
  <1>9. ASSUME NEW n \in Nat, NEW m \in 0 .. MaxPackets
        PROVE  [[rtmp EXCEPT !.sem = n, !.packets = m] EXCEPT !.disconnected = TRUE] \in RtmpType
    <2> DEFINE r == [rtmp EXCEPT !.sem = n, !.packets = m]
    <2>1. r \in RtmpType
      BY <1>7
    <2> HIDE DEF r
    <2>2. [r EXCEPT !.disconnected = TRUE] \in RtmpType
      BY <2>1 DEF RtmpType
    <2> QED
      BY <2>2 DEF r
  <1>10. [rtmp EXCEPT !.packets = 0] \in RtmpType
    BY <1>2 DEF RtmpType
  <1>11. [rtmp EXCEPT !.packets = 0, !.stopEvent = FALSE] \in RtmpType
    BY <1>2 DEF RtmpType
  <1>12. [[rtmp EXCEPT !.packets = 0] EXCEPT !.disconnected = FALSE, !.encodeError = FALSE] \in RtmpType
    <2> DEFINE r == [rtmp EXCEPT !.packets = 0]
    <2>1. r \in RtmpType
      BY <1>10
    <2> HIDE DEF r
    <2>2. [r EXCEPT !.disconnected = FALSE, !.encodeError = FALSE] \in RtmpType
      BY <2>1 DEF RtmpType
    <2> QED
      BY <2>2 DEF r
  <1>13. \A b \in BOOLEAN : [rtmp EXCEPT !.stopNow = b, !.stopEvent = TRUE,
                                         !.sem = IF b THEN @ + 1 ELSE @] \in RtmpType
    BY <1>2, <1>3
  <1>14. ASSUME rtmp.sem > 0
         PROVE  /\ [rtmp EXCEPT !.sem = @ - 1] \in RtmpType
                /\ Taken \in RtmpType
                /\ [Taken EXCEPT !.disconnected = TRUE] \in RtmpType
    BY <1>2, <1>6, <1>7, <1>9, <1>14 DEF Taken
  <1>15. rtmp.packets < MaxPackets => [rtmp EXCEPT !.packets = @ + 1, !.sem = @ + 1] \in RtmpType
    BY <1>2, <1>8
  <1>16. [rtmp EXCEPT !.sem = 0, !.active = TRUE] \in RtmpType
    BY <1>4
  <1>17. [rtmp EXCEPT !.encodeError = TRUE, !.sem = @ + 1] \in RtmpType
    BY <1>2, <1>5
  <1> QED
    BY <1>1, <1>10, <1>11, <1>12, <1>13, <1>14, <1>15, <1>16, <1>17

LEMMA SharedShape ==
    ASSUME Shape, NEW t \in Threads, Shared(t)
    PROVE  Shape'
  <1>1. /\ out \in OutType(plan.retryMax) /\ plan.retryMax \in Nat /\ told \in Seq(Codes)
        /\ plan \in PlanType /\ out.stopCode \in Codes
    BY DEF Shape, OutOK, FrontOK, PlanType, OutType
  <1>2. ASSUME EmitStop, UNCHANGED <<rtmp, encoding, cause, plan>>, out' \in OutType(plan.retryMax)
        PROVE  Shape'
    BY <1>1, <1>2 DEF Shape, OutOK, RtmpOK, FrontOK, EmitStop
  <1>3. ASSUME NEW c \in Codes, SignalStop(t, c) PROVE Shape'
    <2>1. out' \in OutType(plan.retryMax) /\ UNCHANGED <<front, rtmp, encoding>>
      BY <1>1, <1>3 DEF SignalStop, OutType
    <2> QED
      BY <2>1, ShapeSame
  <1>4. ASSUME EndCaptureInactive(t) PROVE Shape'
    <2>1. CASE EmitStop
      <3>1. CASE out' = [out EXCEPT !.stopCode = "SUCCESS", !.stopping = FALSE]
        <4>1. out' \in OutType(plan.retryMax) /\ UNCHANGED <<rtmp, encoding, cause, plan>>
          BY <1>1, <1>4, <3>1, SignalNames DEF EndCaptureInactive, OutType
        <4> QED
          BY <1>2, <2>1, <4>1
      <3>2. CASE UNCHANGED <<phase, told, out>>
        <4>1. UNCHANGED <<front, out, rtmp, encoding>>
          BY <1>4, <3>2 DEF EndCaptureInactive, front
        <4> QED
          BY <4>1, ShapeSame
      <3> QED
        BY <1>4, <3>1, <3>2 DEF EndCaptureInactive
    <2>2. CASE ~EmitStop
      <3>1. UNCHANGED <<front, out, rtmp, encoding>>
        BY <1>4, <2>2 DEF EndCaptureInactive, front
      <3> QED
        BY <3>1, ShapeSame
    <2> QED
      BY <2>1, <2>2
  <1>5. ASSUME EndCaptureBegin(t) \/ EndCaptureJoin(t) \/ ReconnectSpawn(t) PROVE Shape'
    <2>1. UNCHANGED <<front, out, rtmp, encoding>>
      BY <1>5 DEF EndCaptureBegin, EndCaptureJoin, ReconnectSpawn
    <2> QED
      BY <2>1, ShapeSame
  <1>6. ASSUME EndCaptureClear(t) PROVE Shape'
    <2>1. out' \in OutType(plan.retryMax) /\ UNCHANGED <<front, rtmp, encoding>>
      BY <1>1, <1>6 DEF EndCaptureClear, OutType
    <2> QED
      BY <2>1, ShapeSame
  <1>7. ASSUME EndCaptureSpawn(t) PROVE Shape'
    <2>1. out' \in OutType(plan.retryMax) /\ UNCHANGED <<front, rtmp, encoding>>
      BY <1>1, <1>7 DEF EndCaptureSpawn, OutType
    <2> QED
      BY <2>1, ShapeSame
  <1>8. ASSUME EndCaptureSignal(t) PROVE Shape'
    <2>1. EmitStop /\ out' = [out EXCEPT !.stopCode = "SUCCESS"] /\ UNCHANGED <<rtmp, encoding, cause, plan>>
      BY <1>8 DEF EndCaptureSignal
    <2>2. out' \in OutType(plan.retryMax)
      BY <1>1, <2>1, SignalNames DEF OutType
    <2> QED
      BY <1>2, <2>1, <2>2
  <1>9. ASSUME Reconnect(t) PROVE Shape'
    <2> DEFINE tried == IF out.reconnecting THEN out.retries ELSE 0
    <2>1. UNCHANGED <<front, rtmp, encoding>> /\ tried \in 0 .. plan.retryMax
          /\ (tried < plan.retryMax => tried + 1 \in 0 .. plan.retryMax)
      BY <1>1, <1>9 DEF Reconnect, OutType
    <2>2. CASE out' = [out EXCEPT !.reconnecting = FALSE]
      <3>1. out' \in OutType(plan.retryMax)
        BY <1>1, <2>2 DEF OutType
      <3> QED
        BY <2>1, <3>1, ShapeSame
    <2>3. CASE out' = [out EXCEPT !.retries = tried, !.stopCode = "DISCONNECTED", !.reconnecting = FALSE]
      <3> HIDE DEF tried
      <3>1. out' \in OutType(plan.retryMax)
        BY <1>1, <2>1, <2>3, SignalNames DEF OutType
      <3> QED
        BY <2>1, <3>1, ShapeSame
    <2>4. CASE /\ tried < plan.retryMax
               /\ out' = [out EXCEPT !.retries = tried + 1, !.stopCode = "DISCONNECTED",
                                     !.reconnecting = TRUE,
                                     !.reconnectStop = IF out.reconnecting THEN @ ELSE FALSE]
      <3> HIDE DEF tried
      <3>1. out' \in OutType(plan.retryMax)
        BY <1>1, <2>1, <2>4, SignalNames DEF OutType
      <3> QED
        BY <2>1, <3>1, ShapeSame
    <2> QED
      BY <1>9, <2>2, <2>3, <2>4 DEF Reconnect
  <1> QED
    BY <1>3, <1>4, <1>5, <1>6, <1>7, <1>8, <1>9 DEF Shared

LEMMA OutOnly ==
    ASSUME Shape, UNCHANGED <<front, rtmp, encoding>>,
           \/ UNCHANGED out
           \/ \E b \in BOOLEAN : \/ out' = [out EXCEPT !.active = b]
                                 \/ out' = [out EXCEPT !.dataActive = b]
                                 \/ out' = [out EXCEPT !.stopping = b]
                                 \/ out' = [out EXCEPT !.ending = b]
                                 \/ out' = [out EXCEPT !.reconnecting = b]
                                 \/ out' = [out EXCEPT !.reconnectStop = b]
                                 \/ out' = [out EXCEPT !.reconnectThread = b]
    PROVE  Shape'
  <1>1. out \in OutType(plan.retryMax)
    BY DEF Shape, OutOK
  <1>2. out' \in OutType(plan.retryMax)
    BY <1>1 DEF OutType
  <1> QED
    BY <1>2, ShapeSame

LEMMA EndShape ==
    ASSUME Shape, NEW t \in Threads, EndThread(t)
    PROVE  Shape'
  <1>1. CASE StopEncoders(t)
    BY <1>1, ShapeSame DEF StopEncoders
  <1>2. CASE Deactivate(t) \/ SignalStopped(t) \/ EndThreadDone(t)
    BY <1>2, OutOnly DEF Deactivate, SignalStopped, EndThreadDone
  <1> QED
    BY <1>1, <1>2 DEF EndThread

LEMMA RetryShape ==
    ASSUME Shape, NEW t \in Threads, RetryThread(t)
    PROVE  Shape'
  <1>1. CASE RetryBegin(t) \/ RetryDone(t)
    BY <1>1, OutOnly DEF RetryBegin, RetryDone
  <1>2. CASE RetryWait(t)
    BY <1>2, OutOnly DEF RetryWait
  <1>3. CASE RetryEnd(t)
    BY <1>3, OutOnly DEF RetryEnd
  <1> QED
    BY <1>1, <1>2, <1>3 DEF RetryThread

LEMMA StartShape ==
    ASSUME Shape, NEW t \in Threads, Start(t)
    PROVE  Shape'
  <1>1. CASE StartWait(t)
    <2>1. out \in OutType(plan.retryMax)
      BY DEF Shape, OutOK
    <2>2. out' \in OutType(plan.retryMax) /\ UNCHANGED <<front, rtmp, encoding>>
      BY <1>1, <2>1, SignalNames DEF StartWait, OutType
    <2> QED
      BY <2>2, ShapeSame
  <1>2. CASE StartCheck(t)
    <2>1. UNCHANGED <<out, rtmp, encoding, told>>
      BY <1>2 DEF StartCheck
    <2>2. CASE Fails("settings") /\ phase' = IF t = "user" THEN "off" ELSE phase
      <3>1. FrontOK /\ out \in OutType(plan.retryMax) /\ encoding \subseteq Encoders /\ rtmp \in RtmpType
        BY DEF Shape, OutOK, RtmpOK
      <3>2. plan'.retryMax = plan.retryMax /\ plan' \in PlanType /\ cause' \subseteq plan'.faults \cup {"user"}
        BY <2>2, <3>1, Failing
      <3> QED
        BY <2>1, <2>2, <3>1, <3>2 DEF Shape, OutOK, RtmpOK, FrontOK
    <2>3. CASE UNCHANGED <<cause, plan>> /\ phase' \in {phase, "off"}
      BY <2>1, <2>3 DEF Shape, OutOK, RtmpOK, FrontOK
    <2> QED
      BY <1>2, <2>2, <2>3 DEF StartCheck
  <1>3. CASE StartConnect(t)
    BY <1>3, ShapeSame, RtmpSteps DEF StartConnect, Shape, RtmpOK
  <1> QED
    BY <1>1, <1>2, <1>3 DEF Start

LEMMA ConnectShape ==
    ASSUME Shape, NEW t \in Threads, ConnectThread(t)
    PROVE  Shape'
  <1>1. rtmp \in RtmpType
    BY DEF Shape, RtmpOK
  <1>2. ASSUME InitConnect(t) \/ TryConnect(t) \/ SendMetaData(t) PROVE Shape'
    <2>1. rtmp' \in RtmpType
      BY <1>1, <1>2, RtmpSteps DEF InitConnect, TryConnect, SendMetaData
    <2>2. /\ UNCHANGED <<out, encoding, phase, told>>
          /\ UNCHANGED <<cause, plan>> \/ Fails("settings") \/ Fails("server")
      BY <1>2 DEF InitConnect, TryConnect, SendMetaData
    <2>3. CASE UNCHANGED <<cause, plan>>
      BY <2>1, <2>2, <2>3, ShapeSame DEF front
    <2> QED
      BY <2>1, <2>2, <2>3, ShapeFails
  <1>3. ASSUME BeginCapture(t) PROVE Shape'
    <2>1. CASE out.active
      BY <1>3, <2>1, ShapeSame DEF BeginCapture
    <2>2. CASE ~out.active
      <3>1. out' = [out EXCEPT !.dataActive = TRUE] /\ encoding' = Encoders /\ UNCHANGED <<front, rtmp>>
        BY <1>3, <2>2 DEF BeginCapture
      <3>2. out \in OutType(plan.retryMax) /\ FrontOK
        BY DEF Shape, OutOK
      <3>3. out' \in OutType(plan.retryMax)
        BY <3>1, <3>2 DEF OutType
      <3> QED
        BY <3>1, <3>2, <3>3 DEF Shape, OutOK, RtmpOK, FrontOK, front
    <2> QED
      BY <2>1, <2>2
  <1>4. ASSUME BeginActive(t) \/ BeginSignal(t) PROVE Shape'
    BY <1>4, OutOnly DEF BeginActive, BeginSignal
  <1>5. ASSUME ConnectDetach(t) \/ ConnectDone(t) PROVE Shape'
    <2>1. rtmp' \in RtmpType /\ UNCHANGED <<front, out, encoding>>
      BY <1>1, <1>5, RtmpSteps DEF ConnectDetach, ConnectDone
    <2> QED
      BY <2>1, ShapeSame
  <1> QED
    BY <1>2, <1>3, <1>4, <1>5 DEF ConnectThread

LEMMA SendShape ==
    ASSUME Shape, NEW t \in Threads, SendThread(t)
    PROVE  Shape'
  <1>1. rtmp \in RtmpType
    BY DEF Shape, RtmpOK
  <1>2. ASSUME SendFinish(t) \/ SendPacket(t) PROVE Shape'
    <2>1. rtmp' \in RtmpType /\ UNCHANGED <<front, out, encoding>>
      BY <1>1, <1>2, RtmpSteps DEF SendFinish, SendPacket
    <2> QED
      BY <2>1, ShapeSame
  <1>3. ASSUME SendFail(t) PROVE Shape'
    <2>1. rtmp' \in RtmpType /\ Fails("server") /\ UNCHANGED <<out, encoding, phase, told>>
      BY <1>1, <1>3, RtmpSteps DEF SendFail
    <2> QED
      BY <2>1, ShapeFails
  <1>4. ASSUME SendEnd(t) PROVE Shape'
    BY <1>4, OutOnly DEF SendEnd
  <1>5. ASSUME SendCleanUp(t) PROVE Shape'
    <2>1. rtmp' \in RtmpType /\ UNCHANGED <<front, out, encoding>>
      BY <1>1, <1>5, RtmpSteps DEF SendCleanUp
    <2> QED
      BY <2>1, ShapeSame
  <1> QED
    BY <1>2, <1>3, <1>4, <1>5 DEF SendThread

LEMMA StopShape ==
    ASSUME Shape, NEW t \in Threads, Stop(t)
    PROVE  Shape'
  <1>1. rtmp \in RtmpType /\ out \in OutType(plan.retryMax)
    BY DEF Shape, RtmpOK, OutOK
  <1>2. ASSUME ForceStop(t) PROVE Shape'
    <2>1. out' \in OutType(plan.retryMax) /\ UNCHANGED <<front, rtmp, encoding>>
      BY <1>1, <1>2, SignalNames DEF ForceStop, OutType
    <2> QED
      BY <2>1, ShapeSame
  <1>3. ASSUME CancelRetry(t) \/ JoinRetry(t) \/ RtmpStop(t) PROVE Shape'
    BY <1>3, OutOnly DEF CancelRetry, JoinRetry, RtmpStop
  <1>4. ASSUME RtmpSignal(t) PROVE Shape'
    <2>1. At(t, "rtmpSignalNow") \in BOOLEAN
      BY DEF At
    <2>2. rtmp' \in RtmpType /\ UNCHANGED <<front, out, encoding>>
      BY <1>1, <1>4, <2>1, RtmpSteps DEF RtmpSignal
    <2> QED
      BY <2>2, ShapeSame
  <1> QED
    BY <1>2, <1>3, <1>4 DEF Stop

LEMMA FrontShape ==
    ASSUME Shape, UserStart \/ UserStop \/ UserForceStop \/ Packet \/ EncodeError
                  \/ (\E t \in Threads : NullPacket(t)) \/ UNCHANGED vars
    PROVE  Shape'
  <1>1. rtmp \in RtmpType /\ out \in OutType(plan.retryMax) /\ FrontOK
    BY DEF Shape, RtmpOK, OutOK
  <1>2. ASSUME UserStart PROVE Shape'
    <2>1. plan' \in PlanType /\ plan'.retryMax = plan.retryMax /\ plan'.faults = plan.faults
      BY <1>1, <1>2, Spending DEF UserStart
    <2> QED
      BY <1>2, <2>1 DEF UserStart, Shape, OutOK, RtmpOK, FrontOK
  <1>3. ASSUME UserStop \/ UserForceStop PROVE Shape'
    <2>1. plan' \in PlanType /\ plan'.retryMax = plan.retryMax /\ plan'.faults = plan.faults
      BY <1>1, <1>3, Spending DEF UserStop, UserForceStop
    <2>2. out' \in OutType(plan.retryMax)
      BY <1>1, <1>3 DEF UserStop, UserForceStop, OutType
    <2>3. /\ phase' = "stopping" /\ cause' = cause \cup {"user"}
          /\ UNCHANGED <<rtmp, encoding, told>>
      BY <1>3 DEF UserStop, UserForceStop
    <2> QED
      BY <2>1, <2>2, <2>3 DEF Shape, OutOK, RtmpOK, FrontOK
  <1>4. ASSUME Packet PROVE Shape'
    <2>1. rtmp' \in RtmpType /\ UNCHANGED <<front, out, encoding>>
      BY <1>1, <1>4, RtmpSteps DEF Packet
    <2> QED
      BY <2>1, ShapeSame
  <1>5. ASSUME EncodeError PROVE Shape'
    BY <1>1, <1>5, ShapeFails DEF EncodeError
  <1>6. ASSUME NEW t \in Threads, NullPacket(t) PROVE Shape'
    <2>1. rtmp' \in RtmpType /\ encoding' \subseteq encoding /\ UNCHANGED <<front, out>>
      BY <1>1, <1>6, RtmpSteps DEF NullPacket
    <2> QED
      BY <2>1 DEF Shape, OutOK, RtmpOK, FrontOK, front
  <1>7. ASSUME UNCHANGED vars PROVE Shape'
    BY <1>7, ShapeSame DEF vars
  <1> QED
    BY <1>2, <1>3, <1>4, <1>5, <1>6, <1>7

LEMMA ShapeStep == Shape /\ [Next]_vars => Shape'
  BY SharedShape, EndShape, RetryShape, StartShape, ConnectShape, SendShape, StopShape, FrontShape
     DEF Next, Step

LEMMA ThreadedWentGone ==
    ASSUME Threaded, UNCHANGED handle, NEW k \in Kinds, handle[k] \in Spawned,
           detached' \in {detached, detached \cup {handle[k]}},
           NEW t \in Threads, NEW h, NEW S, Went(t, h, S)
    PROVE  Threaded'
  BY HandlesWent DEF Threaded, Went

LEMMA ThreadedStep == Threaded /\ [Next]_vars => Threaded'
  <1> SUFFICES ASSUME Threaded, [Next]_vars PROVE Threaded'
    OBVIOUS
  <1>1. Stacks
    BY DEF Threaded
  <1>2. ASSUME NEW t \in Threads, Shared(t) PROVE Threaded'
    <2>1. ASSUME NEW c \in Codes, SignalStop(t, c) PROVE Threaded'
      BY <1>1, <2>1, SharedMoves, ThreadedWent DEF SignalStop
    <2>2. ASSUME EndCaptureInactive(t) PROVE Threaded'
      BY <1>1, <2>2, SharedMoves, ThreadedWent DEF EndCaptureInactive
    <2>3. ASSUME EndCaptureBegin(t) PROVE Threaded'
      BY <1>1, <2>3, SharedMoves, ThreadedWent DEF EndCaptureBegin
    <2>4. ASSUME EndCaptureClear(t) PROVE Threaded'
      BY <1>1, <2>4, SharedMoves, ThreadedWent DEF EndCaptureClear
    <2>5. ASSUME EndCaptureJoin(t) PROVE Threaded'
      BY <1>1, <2>5, SharedMoves, ThreadedWent DEF EndCaptureJoin
    <2>6. ASSUME EndCaptureSpawn(t) PROVE Threaded'
      <3>1. "end" \in Kinds /\ Pool["end"] = Enders
        BY Pools
      <3> QED
        BY <1>1, <2>6, <3>1, SharedMoves, ThreadedForked
    <2>7. ASSUME EndCaptureSignal(t) PROVE Threaded'
      BY <1>1, <2>7, SharedMoves, ThreadedWent DEF EndCaptureSignal
    <2>8. ASSUME Reconnect(t) PROVE Threaded'
      BY <1>1, <2>8, SharedMoves, ThreadedWent DEF Reconnect
    <2>9. ASSUME ReconnectSpawn(t) PROVE Threaded'
      <3>1. "reconnect" \in Kinds /\ Pool["reconnect"] = Retriers
        BY Pools
      <3> QED
        BY <1>1, <2>9, <3>1, SharedMoves, ThreadedForked
    <2> QED
      BY <1>2, <2>1, <2>2, <2>3, <2>4, <2>5, <2>6, <2>7, <2>8, <2>9 DEF Shared
  <1>3. ASSUME NEW t \in Threads, EndThread(t) PROVE Threaded'
    BY <1>1, <1>3, EndMoves, ThreadedWent
       DEF EndThread, StopEncoders, Deactivate, SignalStopped, EndThreadDone
  <1>4. ASSUME NEW t \in Threads, RetryThread(t) PROVE Threaded'
    <2>1. ASSUME RetryBegin(t) PROVE Threaded'
      BY <1>1, <2>1, RetryMoves, ThreadedWent DEF RetryBegin
    <2>2. ASSUME RetryWait(t) PROVE Threaded'
      BY <1>1, <2>2, RetryMoves, ThreadedWent DEF RetryWait
    <2>3. ASSUME RetryEnd(t) PROVE Threaded'
      <3>1. Went(t, "retryEnd", {"retryDone"})
        BY <1>1, <2>3, RetryMoves
      <3>2. "reconnect" \in Kinds /\ handle["reconnect"] \in Spawned
        BY <3>1, OwnHandle, Pools DEF Went, RetrySteps
      <3>3. detached' \in {detached, detached \cup {handle["reconnect"]}} /\ UNCHANGED handle
        BY <2>3 DEF RetryEnd
      <3> QED
        BY <3>1, <3>2, <3>3, ThreadedWentGone
    <2>4. ASSUME RetryDone(t) PROVE Threaded'
      BY <1>1, <2>4, RetryMoves, ThreadedWent DEF RetryDone
    <2> QED
      BY <1>4, <2>1, <2>2, <2>3, <2>4 DEF RetryThread
  <1>5. ASSUME NEW t \in Threads, Start(t) PROVE Threaded'
    <2>1. ASSUME StartWait(t) PROVE Threaded'
      BY <1>1, <2>1, StartMoves, ThreadedWent DEF StartWait
    <2>2. ASSUME StartCheck(t) PROVE Threaded'
      BY <1>1, <2>2, StartMoves, ThreadedWent DEF StartCheck
    <2>3. ASSUME StartConnect(t) PROVE Threaded'
      <3>1. "connect" \in Kinds /\ Pool["connect"] = Connectors
        BY Pools
      <3> QED
        BY <1>1, <2>3, <3>1, StartMoves, ThreadedForked
    <2> QED
      BY <1>5, <2>1, <2>2, <2>3 DEF Start
  <1>6. ASSUME NEW t \in Threads, ConnectThread(t) PROVE Threaded'
    <2>1. ASSUME InitConnect(t) PROVE Threaded'
      <3>1. CASE Went(t, "initConnect", {})
        BY <2>1, <3>1, ThreadedWent DEF InitConnect
      <3>2. CASE Least(t, "initConnect") /\ Became(t, {"signalBadPath"})
        <4>1. Todo(t) # {} /\ UNCHANGED <<handle, detached>>
          BY <2>1, <3>2 DEF Least, InitConnect
        <4> QED
          BY <3>2, <4>1, ThreadedBecame
      <3> QED
        BY <1>1, <2>1, <3>1, <3>2, ConnectMoves
    <2>2. ASSUME TryConnect(t) PROVE Threaded'
      <3>1. CASE \E n \in Senders :
                     /\ Forked(t, "connect", {"metaData"}, n, {"sendWait"})
                     /\ handle' = [handle EXCEPT !["send"] = n] /\ detached' = detached \ {n}
        <4>1. "send" \in Kinds /\ Pool["send"] = Senders
          BY Pools
        <4> QED
          BY <3>1, <4>1, ThreadedForked
      <3>2. CASE /\ UNCHANGED <<rtmp, handle, detached>>
                 /\ Went(t, "connect", {"signalConnectFailed", "connectDetach", "connectDone"})
        BY <3>2, ThreadedWent
      <3> QED
        BY <1>1, <2>2, <3>1, <3>2, ConnectMoves
    <2>3. ASSUME SendMetaData(t) PROVE Threaded'
      BY <1>1, <2>3, ConnectMoves, ThreadedWent DEF SendMetaData
    <2>4. ASSUME BeginCapture(t) PROVE Threaded'
      BY <1>1, <2>4, ConnectMoves, ThreadedWent DEF BeginCapture
    <2>5. ASSUME BeginActive(t) PROVE Threaded'
      BY <1>1, <2>5, ConnectMoves, ThreadedWent DEF BeginActive
    <2>6. ASSUME BeginSignal(t) PROVE Threaded'
      BY <1>1, <2>6, ConnectMoves, ThreadedWent DEF BeginSignal
    <2>7. ASSUME ConnectDetach(t) PROVE Threaded'
      <3>1. Went(t, "connectDetach", {})
        BY <1>1, <2>7, ConnectMoves
      <3>2. "connect" \in Kinds /\ handle["connect"] \in Spawned
        BY <3>1, OwnHandle, Pools DEF Went, ConnectSteps
      <3>3. detached' \in {detached, detached \cup {handle["connect"]}} /\ UNCHANGED handle
        BY <2>7 DEF ConnectDetach
      <3> QED
        BY <3>1, <3>2, <3>3, ThreadedWentGone
    <2>8. ASSUME ConnectDone(t) PROVE Threaded'
      BY <1>1, <2>8, ConnectMoves, ThreadedWent DEF ConnectDone
    <2> QED
      BY <1>6, <2>1, <2>2, <2>3, <2>4, <2>5, <2>6, <2>7, <2>8 DEF ConnectThread
  <1>7. ASSUME NEW t \in Threads, SendThread(t) PROVE Threaded'
    <2>1. ASSUME SendFinish(t) PROVE Threaded'
      BY <1>1, <2>1, SendMoves, ThreadedWent DEF SendFinish
    <2>2. ASSUME SendPacket(t) PROVE Threaded'
      BY <1>1, <2>2, SendMoves, ThreadedStays DEF SendPacket
    <2>3. ASSUME SendFail(t) PROVE Threaded'
      BY <1>1, <2>3, SendMoves, ThreadedWent DEF SendFail
    <2>4. ASSUME SendEnd(t) PROVE Threaded'
      <3>1. PICK S : Went(t, "sendEnd", S)
        BY <1>1, <2>4, SendMoves
      <3>2. "send" \in Kinds /\ handle["send"] \in Spawned
        BY <3>1, OwnHandle, Pools DEF Went, SendSteps
      <3>3. detached' \in {detached, detached \cup {handle["send"]}} /\ UNCHANGED handle
        BY <2>4 DEF SendEnd
      <3> QED
        BY <3>1, <3>2, <3>3, ThreadedWentGone
    <2>5. ASSUME SendCleanUp(t) PROVE Threaded'
      BY <1>1, <2>5, SendMoves, ThreadedWent DEF SendCleanUp
    <2> QED
      BY <1>7, <2>1, <2>2, <2>3, <2>4, <2>5 DEF SendThread
  <1>8. ASSUME NEW t \in Threads, Stop(t) PROVE Threaded'
    <2>1. UNCHANGED <<handle, detached>>
      BY <1>8 DEF Stop, ForceStop, CancelRetry, JoinRetry, RtmpStop, RtmpSignal
    <2>2. \E h : \E S : Went(t, h, S)
      <3>1. ASSUME ForceStop(t) \/ JoinRetry(t) PROVE \E h : \E S : Went(t, h, S)
        BY <1>1, <3>1, StopMoves
      <3>2. ASSUME CancelRetry(t) \/ RtmpStop(t) PROVE \E h : \E S : Went(t, h, S)
        BY <1>1, <3>2, StopMoves
      <3>3. ASSUME RtmpSignal(t) PROVE \E h : \E S : Went(t, h, S)
        BY <1>1, <3>3, StopMoves
      <3> QED
        BY <1>8, <3>1, <3>2, <3>3 DEF Stop
    <2> QED
      BY <2>1, <2>2, ThreadedWent
  <1>9. ASSUME NEW t \in Threads, NullPacket(t) PROVE Threaded'
    BY <1>1, <1>9, StopMoves, ThreadedWent DEF NullPacket
  <1>10. ASSUME UserStart \/ UserStop \/ UserForceStop \/ EncodeError PROVE Threaded'
    <2>1. UNCHANGED <<handle, detached>> /\ "user" \in Threads /\ "encoder" \in Threads
      BY <1>10 DEF UserStart, UserStop, UserForceStop, EncodeError, Threads
    <2>2. \E t \in {"user", "encoder"} : \E S : Became(t, S)
      BY <1>1, <1>10, FrontMoves
    <2> QED
      BY <2>1, <2>2, ThreadedBecame
  <1>11. ASSUME Packet \/ UNCHANGED vars PROVE Threaded'
    BY <1>1, <1>11, FrontMoves, ThreadedStays DEF Packet, vars
  <1> QED
    BY <1>2, <1>3, <1>4, <1>5, <1>6, <1>7, <1>8, <1>9, <1>10, <1>11 DEF Next, Step

LEMMA TypeInit == Init => TypeInv
  <1> SUFFICES ASSUME Init PROVE TypeInv
    OBVIOUS
  <1>1. plan \in PlanType /\ plan.retryMax \in Nat
    BY LifecycleAssumption DEF Init, PlanType
  <1>2. Shape
    BY <1>1, LifecycleAssumption, SignalNames
       DEF Init, Shape, OutOK, RtmpOK, FrontOK, OutType, RtmpType
  <1>3. Stacks /\ \A t \in Threads : Todo(t) = {}
    BY Words DEF Init, Stacks, Todo
  <1>4. Handles
    BY <1>3, Pools DEF Init, Handles
  <1> QED
    BY <1>2, <1>3, <1>4, TypeParts DEF Init, Threaded

LEMMA TypeStep == TypeInv /\ [Next]_vars => TypeInv'
  <1>1. TypeInv' <=> Shape' /\ Threaded'
    BY TypeParts, PTL
  <1> QED
    BY <1>1, TypeParts, ShapeStep, ThreadedStep

(* The two structures and the stacks keep their shape.  *)
THEOREM LifecycleTypes == Spec => []TypeOK
  <1>1. TypeInv /\ [Next]_vars => TypeInv'
    BY TypeStep
  <1>2. TypeInv => TypeOK
    BY DEF TypeInv
  <1> QED
    BY <1>1, <1>2, TypeInit, PTL DEF Spec

-----------------------------------------------------------------------------
(* Sessions one after the other, without retries: a frontend that waits for *)
(* the threads of the last session before it starts again.                  *)
YoungSteps  == {"initConnect", "connect", "metaData", "beginCapture", "beginActive"}
EndingSteps == {"endClear", "endJoin", "endSpawn", "stopEncoders", "deactivate"}
Reconnects  == {"endCaptureQuietly", "reconnect", "reconnectSpawn"}
Watched     == YoungSteps \cup EndingSteps \cup Reconnects \cup Starts

Young(t)  == \E x \in YoungSteps : x \in Todo(t)
Ending(t) == \E x \in EndingSteps : x \in Todo(t)
Starting  == \E x \in Starts : x \in Todo("user")

(* Nothing of a retry is pending. *)
NoRetry ==
    /\ plan.retryMax = 0 /\ ~out.reconnecting
    /\ \A t \in Retriers : Todo(t) = {}
    /\ \A t \in Threads : \A x \in Reconnects : x \notin Todo(t)

(* What is left of a connect thread that may still begin a capture. *)
Ladder == \A c \in Connectors : Young(c) =>
    Todo(c) \in {{"initConnect", "connect"}, {"connect"}, {"metaData"},
                 {"beginCapture", "connectDetach", "connectDone"},
                 {"beginActive", "beginSignal", "connectDetach", "connectDone"}}

(* A connect thread begins a capture alone, after the last one has ended. *)
YoungAlone == \A c \in Connectors : Young(c) =>
    /\ ~out.active
    /\ \A t \in Threads : ~Ending(t)
    /\ \A d \in Connectors : Young(d) => d = c

BeganData == \A c \in Connectors : "beginActive" \in Todo(c) => out.dataActive

(* While the frontend starts the output, at most the end of the last capture *)
(* goes on.                                                                  *)
StartingAlone == Starting =>
    /\ Todo("user") \subseteq Starts
    /\ \A t \in Connectors \cup Senders : Todo(t) = {}
    /\ "startConnect" \in Todo("user") => ~out.active
    /\ ~out.active => \A t \in Threads : ~Ending(t)
    /\ \A t, u \in Threads : Ending(t) /\ Ending(u) => t = u
    /\ \A t \in Threads : Ending(t) => t = "encoder" \/ ~out.dataActive
    /\ \A t \in Threads : "endSpawn" \in Todo(t) /\ "endClear" \notin Todo(t) => ~out.dataActive

(* The encoders are stopped before the output is made inactive. *)
StoppedFirst == \A t \in Threads :
    "deactivate" \in Todo(t) /\ "stopEncoders" \notin Todo(t) => encoding = {}

Hooked == encoding # {} /\ ~out.active => \E c \in Connectors : "beginActive" \in Todo(c)

PatientInv == /\ plan.patient /\ NoRetry /\ Ladder /\ YoungAlone /\ BeganData /\ StartingAlone
              /\ StoppedFirst /\ Hooked

(* A step that touches nothing PatientInv looks at. *)
Calm == /\ \A u \in Threads : \A x \in Watched : x \in Todo(u)' <=> x \in Todo(u)
        /\ \A u \in Connectors : Young(u) => Todo(u)' = Todo(u)
        /\ \A u \in Connectors \cup Senders \cup Retriers : Todo(u) = {} => Todo(u)' = {}
        /\ Starting /\ Todo("user") \subseteq Starts => Todo("user")' \subseteq Starts

Untouched == /\ out'.active = out.active /\ out'.dataActive = out.dataActive
             /\ ~out'.reconnecting
             /\ plan'.patient = plan.patient /\ plan'.retryMax = plan.retryMax

LEMMA CalmParts ==
    ASSUME Calm
    PROVE  /\ \A u \in Threads : (Young(u)' <=> Young(u)) /\ (Ending(u)' <=> Ending(u))
           /\ Starting' <=> Starting
  <1>1. "user" \in Threads
    BY Pools
  <1>2. \A u \in Threads : Young(u)' <=> Young(u)
    BY DEF Calm, Watched, Young
  <1>3. \A u \in Threads : Ending(u)' <=> Ending(u)
    BY DEF Calm, Watched, Ending
  <1>4. Starting' <=> Starting
    BY <1>1 DEF Calm, Watched, Starting
  <1> QED
    BY <1>2, <1>3, <1>4

LEMMA PatientCalm ==
    ASSUME PatientInv, Calm, Untouched, encoding' \subseteq encoding
    PROVE  PatientInv'
  <1>1. /\ \A u \in Threads : (Young(u)' <=> Young(u)) /\ (Ending(u)' <=> Ending(u))
        /\ Starting' <=> Starting
    BY CalmParts
  <1>2. Connectors \cup Senders \cup Retriers \subseteq Threads /\ "user" \in Threads
    BY Pools
  <1>3. NoRetry'
    BY <1>2 DEF PatientInv, NoRetry, Calm, Untouched, Watched
  <1>4. Ladder'
    BY <1>1, <1>2 DEF PatientInv, Ladder, Calm
  <1>5. YoungAlone'
    BY <1>1, <1>2 DEF PatientInv, YoungAlone, Untouched
  <1>6. BeganData'
    BY <1>2 DEF PatientInv, BeganData, Untouched, Calm, Watched, YoungSteps
  <1>7. StartingAlone'
    <2>1. SUFFICES ASSUME Starting PROVE StartingAlone'
      BY <1>1 DEF StartingAlone
    <2>2. /\ Todo("user")' \subseteq Starts
          /\ \A t \in Connectors \cup Senders : Todo(t)' = {}
      BY <2>1 DEF PatientInv, StartingAlone, Calm
    <2>3. /\ ~out.active => \A t \in Threads : ~Ending(t)
          /\ \A t, u \in Threads : Ending(t) /\ Ending(u) => t = u
          /\ \A t \in Threads : Ending(t) => t = "encoder" \/ ~out.dataActive
      BY <2>1 DEF PatientInv, StartingAlone
    <2>4. /\ ~out'.active => \A t \in Threads : ~Ending(t)'
          /\ \A t, u \in Threads : Ending(t)' /\ Ending(u)' => t = u
          /\ \A t \in Threads : Ending(t)' => t = "encoder" \/ ~out'.dataActive
      BY <1>1, <2>3 DEF Untouched
    <2>5. /\ "startConnect" \in Todo("user")' => ~out'.active
          /\ \A t \in Threads : "endSpawn" \in Todo(t)' /\ "endClear" \notin Todo(t)' => ~out'.dataActive
      BY <1>2, <2>1 DEF PatientInv, StartingAlone, Calm, Untouched, Watched, Starts, EndingSteps
    <2> QED
      BY <2>2, <2>4, <2>5 DEF StartingAlone
  <1>8. StoppedFirst'
    BY DEF PatientInv, StoppedFirst, Calm, Watched, EndingSteps
  <1>9. Hooked'
    BY <1>2 DEF PatientInv, Hooked, Calm, Untouched, Watched, YoungSteps
  <1>10. plan'.patient
    BY DEF PatientInv, Untouched
  <1> QED
    BY <1>3, <1>4, <1>5, <1>6, <1>7, <1>8, <1>9, <1>10 DEF PatientInv

(* The head of a young connect thread, and what is left below it. *)
LEMMA LadderHead ==
    ASSUME Ladder, NEW c \in Connectors, Young(c), NEW h, Least(c, h)
    PROVE  /\ h \in YoungSteps
           /\ h = "initConnect" => Todo(c) = {"initConnect", "connect"}
           /\ h = "connect" => Todo(c) = {"connect"}
           /\ h = "metaData" => Todo(c) = {"metaData"}
           /\ h = "beginCapture" => Todo(c) = {"beginCapture", "connectDetach", "connectDone"}
           /\ h = "beginActive" => Todo(c) = {"beginActive", "beginSignal", "connectDetach", "connectDone"}
  <1>1. /\ Rank("initConnect") = 10 /\ Rank("connect") = 11 /\ Rank("metaData") = 11
        /\ Rank("beginCapture") = 8 /\ Rank("connectDetach") = 9 /\ Rank("connectDone") = 10
        /\ Rank("beginActive") = 6 /\ Rank("beginSignal") = 7
    BY DEF Rank, Signals
  <1>2. h \in Todo(c) /\ \A x \in Todo(c) \ {h} : Rank(h) < Rank(x)
    BY DEF Least
  <1>3. Todo(c) \in {{"initConnect", "connect"}, {"connect"}, {"metaData"},
                     {"beginCapture", "connectDetach", "connectDone"},
                     {"beginActive", "beginSignal", "connectDetach", "connectDone"}}
    BY DEF Ladder
  <1>4. CASE Todo(c) = {"initConnect", "connect"}
    BY <1>1, <1>2, <1>4 DEF YoungSteps
  <1>5. CASE Todo(c) = {"connect"} \/ Todo(c) = {"metaData"}
    BY <1>2, <1>5 DEF YoungSteps
  <1>6. CASE Todo(c) = {"beginCapture", "connectDetach", "connectDone"}
    BY <1>1, <1>2, <1>6 DEF YoungSteps
  <1>7. CASE Todo(c) = {"beginActive", "beginSignal", "connectDetach", "connectDone"}
    BY <1>1, <1>2, <1>7 DEF YoungSteps
  <1> QED
    BY <1>3, <1>4, <1>5, <1>6, <1>7

LEMMA CalmWent ==
    ASSUME PatientInv, NEW t \in Threads, NEW h, NEW S, Went(t, h, S),
           h \notin Watched, S \cap Watched = {}
    PROVE  Calm
  <1>1. Least(t, h) /\ \A u \in Threads : Todo(u)' = IF u = t THEN S \cup (Todo(t) \ {h}) ELSE Todo(u)
    BY DEF Went
  <1>2. Connectors \cup Senders \cup Retriers \subseteq Threads /\ "user" \in Threads
    BY Pools
  <1>3. \A u \in Threads : \A x \in Watched : x \in Todo(u)' <=> x \in Todo(u)
    BY <1>1
  <1>4. \A u \in Connectors : Young(u) => Todo(u)' = Todo(u)
    <2>1. Ladder /\ YoungSteps \subseteq Watched
      BY DEF PatientInv, Watched
    <2>2. t \in Connectors => ~Young(t)
      BY <1>1, <2>1, LadderHead
    <2> QED
      BY <1>1, <1>2, <2>2
  <1>5. \A u \in Connectors \cup Senders \cup Retriers : Todo(u) = {} => Todo(u)' = {}
    BY <1>1, <1>2 DEF Least
  <1>6. Starting /\ Todo("user") \subseteq Starts => Todo("user")' \subseteq Starts
    BY <1>1, <1>2 DEF Least, Watched
  <1> QED
    BY <1>3, <1>4, <1>5, <1>6 DEF Calm

LEMMA CalmBecame ==
    ASSUME NEW t \in {"user", "encoder"}, Todo(t) = {}, NEW S, Became(t, S), S \cap Watched = {}
    PROVE  Calm
  <1>1. \A u \in Threads : Todo(u)' = IF u = t THEN S ELSE Todo(u)
    BY DEF Became
  <1>2. \A u \in Connectors \cup Senders \cup Retriers : u \in Threads /\ u # t
    BY Pools DEF Connectors, Senders, Retriers
  <1>3. "user" \in Threads /\ (Starting => t # "user")
    BY Pools DEF Starting
  <1> QED
    BY <1>1, <1>2, <1>3 DEF Calm

LEMMA CalmSame ==
    ASSUME \A u \in Threads : Todo(u)' = Todo(u)
    PROVE  Calm
  BY Pools DEF Calm

(* What a step leaves to the other threads. *)
LEMMA OthersWent ==
    ASSUME NEW t \in Threads, NEW h, NEW S, Went(t, h, S)
    PROVE  /\ \A u \in Threads \ {t} : /\ Todo(u)' = Todo(u)
                                       /\ (Young(u)' <=> Young(u)) /\ (Ending(u)' <=> Ending(u))
           /\ Todo(t)' = S \cup (Todo(t) \ {h})
           /\ t # "user" => (Starting' <=> Starting)
  BY Pools DEF Went, Young, Ending, Starting

LEMMA OthersForked ==
    ASSUME NEW t \in Threads, NEW h, NEW S, NEW n \in Threads, NEW E, Forked(t, h, S, n, E)
    PROVE  /\ \A u \in Threads \ {t, n} : /\ Todo(u)' = Todo(u)
                                          /\ (Young(u)' <=> Young(u)) /\ (Ending(u)' <=> Ending(u))
           /\ Todo(t)' = S \cup (Todo(t) \ {h}) /\ Todo(n)' = E /\ Todo(n) = {} /\ n # t
           /\ "user" \notin {t, n} => (Starting' <=> Starting)
  BY Pools DEF Forked, Young, Ending, Starting

(* Which threads hold which steps. *)
LEMMA Owners ==
    ASSUME Threaded, NEW t \in Threads
    PROVE  /\ Young(t) => t \in Connectors
           /\ \A x \in EndSteps : x \in Todo(t) => t \in Enders
           /\ \A x \in Calls : x \in Todo(t) => t \in {"user", "encoder"} \cup Connectors \cup Senders
           /\ \A x \in Starts : x \in Todo(t) => t \in {"user"} \cup Retriers
           /\ \A x \in RetrySteps : x \in Todo(t) => t \in Retriers
  <1>1. \A x \in Todo(t) : x \in Duty(t)
    BY DEF Threaded, Stacks
  <1>2. YoungSteps \subseteq ConnectSteps
    BY DEF YoungSteps, ConnectSteps
  <1> QED
    BY <1>1, <1>2, Duties DEF Young

LEMMA Unwatched ==
    \A x \in Signals \cup Stops \cup SendSteps
             \cup {"endCapture", "endSignal", "stopped", "ended", "beginSignal", "connectDetach",
                   "connectDone", "nullPacket"} : x \notin Watched
  BY DEF Signals, Stops, SendSteps, Watched, YoungSteps, EndingSteps, Reconnects, Starts

LEMMA PatientPlan ==
    ASSUME Shape, PatientInv, UNCHANGED <<plan>> \/ \E what \in {"start", "stop", "fault"} : Spend(what)
    PROVE  plan'.patient = plan.patient /\ plan'.retryMax = plan.retryMax
  BY Spending DEF Shape

LEMMA StopWent ==
    ASSUME Stacks, NEW t \in Threads, Stop(t)
    PROVE  \E h \in Stops : \E S : Went(t, h, S) /\ S \subseteq Stops \cup Signals
  <1>1. /\ {} \subseteq Stops /\ {"cancelRetry", "rtmpStopNow"} \subseteq Stops
        /\ {"joinRetry"} \subseteq Stops /\ {"rtmpSignalNow"} \subseteq Stops
        /\ {"rtmpSignal"} \subseteq Stops /\ {"signalSuccess"} \subseteq Signals
        /\ "forceStop" \in Stops /\ "cancelRetry" \in Stops /\ "joinRetry" \in Stops
        /\ "rtmpStop" \in Stops /\ "rtmpStopNow" \in Stops
        /\ "rtmpSignal" \in Stops /\ "rtmpSignalNow" \in Stops
    BY DEF Stops, Signals
  <1>2. CASE ForceStop(t)
    <2>1. Went(t, "forceStop", {"cancelRetry", "rtmpStopNow"})
      BY <1>2, StopMoves
    <2> QED
      BY <1>1, <2>1
  <1>3. CASE CancelRetry(t)
    <2>1. Went(t, "cancelRetry", {"joinRetry"}) \/ Went(t, "cancelRetry", {})
      BY <1>3, StopMoves
    <2> QED
      BY <1>1, <2>1
  <1>4. CASE JoinRetry(t)
    <2>1. Went(t, "joinRetry", {})
      BY <1>4, StopMoves
    <2> QED
      BY <1>1, <2>1
  <1>5. CASE RtmpStop(t)
    <2>1. \/ Went(t, "rtmpStopNow", {"rtmpSignalNow"})
          \/ Went(t, "rtmpStop", {"rtmpSignal"})
          \/ Went(t, "rtmpStop", {})
      BY <1>5, StopMoves
    <2> QED
      BY <1>1, <2>1
  <1>6. CASE RtmpSignal(t)
    <2>1. PICK h \in {"rtmpSignal", "rtmpSignalNow"}, S \in {{}, {"signalSuccess"}} : Went(t, h, S)
      BY <1>6, StopMoves
    <2> QED
      BY <1>1, <2>1
  <1> QED
    BY <1>2, <1>3, <1>4, <1>5, <1>6 DEF Stop

(* Steps after which PatientInv holds because they touch none of it. *)
LEMMA PatientQuiet ==
    ASSUME Shape, Threaded, PatientInv, NEW t \in Threads,
           \/ \E c \in Codes : SignalStop(t, c)
           \/ EndCaptureInactive(t) \/ EndCaptureSignal(t) \/ SignalStopped(t) \/ EndThreadDone(t)
           \/ BeginSignal(t) \/ ConnectDetach(t) \/ ConnectDone(t) \/ SendThread(t) \/ Stop(t)
           \/ NullPacket(t)
    PROVE  PatientInv'
  <1>1. Stacks /\ out \in OutType(plan.retryMax) /\ ~out.reconnecting
    BY DEF Threaded, Shape, OutOK, PatientInv, NoRetry
  <1>2. ASSUME NEW h, NEW S, Went(t, h, S), h \notin Watched, S \cap Watched = {}, Untouched,
               encoding' \subseteq encoding
        PROVE  PatientInv'
    BY <1>2, CalmWent, PatientCalm
  <1>3. ASSUME NEW c \in Codes, SignalStop(t, c) PROVE PatientInv'
    <2>1. ~CanReconnect(c)
      BY DEF CanReconnect, PatientInv, NoRetry
    <2>2. Went(t, SignalStopOf[c], {"endCapture"})
      BY <1>1, <1>3, <2>1, SharedMoves
    <2>3. Untouched /\ encoding' = encoding
      BY <1>1, <1>3, <2>1 DEF SignalStop, Untouched, OutType, front
    <2>4. SignalStopOf[c] \notin Watched /\ {"endCapture"} \cap Watched = {}
      BY SignalNames, Unwatched
    <2> QED
      BY <1>2, <2>2, <2>3, <2>4
  <1>4. ASSUME EndCaptureInactive(t) PROVE PatientInv'
    <2>1. ~At(t, "endCaptureQuietly")
      BY <1>1, AtLeast DEF Least, PatientInv, NoRetry, Reconnects
    <2>2. At(t, "endCapture") /\ Went(t, "endCapture", {})
      BY <1>1, <1>4, <2>1, SharedMoves DEF EndCaptureInactive
    <2>3. Untouched /\ encoding' = encoding
      BY <1>1, <1>4, <2>1 DEF EndCaptureInactive, Untouched, OutType
    <2>4. "endCapture" \notin Watched
      BY Unwatched
    <2> QED
      BY <1>2, <2>2, <2>3, <2>4
  <1>5. ASSUME EndCaptureSignal(t) PROVE PatientInv'
    <2>1. Went(t, "endSignal", {}) /\ "endSignal" \notin Watched
      BY <1>1, <1>5, SharedMoves, Unwatched
    <2>2. Untouched /\ encoding' = encoding
      BY <1>1, <1>5 DEF EndCaptureSignal, Untouched, OutType
    <2> QED
      BY <1>2, <2>1, <2>2
  <1>6. ASSUME SignalStopped(t) \/ EndThreadDone(t) PROVE PatientInv'
    <2>1. PICK h \in {"stopped", "ended"} : Went(t, h, {})
      BY <1>1, <1>6, EndMoves
    <2>2. Untouched /\ encoding' = encoding
      BY <1>1, <1>6 DEF SignalStopped, EndThreadDone, Untouched, OutType, front
    <2>3. h \notin Watched
      BY Unwatched
    <2> QED
      BY <1>2, <2>1, <2>2, <2>3
  <1>7. ASSUME BeginSignal(t) \/ ConnectDetach(t) \/ ConnectDone(t) PROVE PatientInv'
    <2>1. PICK h \in {"beginSignal", "connectDetach", "connectDone"} : Went(t, h, {})
      BY <1>1, <1>7, ConnectMoves
    <2>2. Untouched /\ encoding' = encoding
      BY <1>1, <1>7 DEF BeginSignal, ConnectDetach, ConnectDone, Untouched, OutType, front
    <2>3. h \notin Watched
      BY Unwatched
    <2> QED
      BY <1>2, <2>1, <2>2, <2>3
  <1>8. ASSUME SendThread(t) PROVE PatientInv'
    <2>1. Untouched /\ encoding' = encoding
      <3>1. UNCHANGED <<out, encoding>> /\ (UNCHANGED plan \/ Spend("fault"))
        BY <1>8 DEF SendThread, SendFinish, SendPacket, SendFail, SendEnd, SendCleanUp, Fails, front
      <3> QED
        BY <1>1, <3>1, PatientPlan DEF Untouched
    <2>2. CASE SendPacket(t)
      BY <1>1, <2>1, <2>2, SendMoves, CalmSame, PatientCalm
    <2>3. CASE ~SendPacket(t)
      <3>1. \E h \in SendSteps : \E S : /\ Went(t, h, S)
                                       /\ S \subseteq Signals \cup SendSteps \cup {"endCapture"}
        <4>1. CASE SendFinish(t) \/ SendFail(t)
          BY <1>1, <4>1, SendMoves DEF SendSteps
        <4>2. CASE SendEnd(t)
          <5>1. \E S : Went(t, "sendEnd", S) /\ S \subseteq Signals \cup SendSteps \cup {"endCapture"}
            BY <1>1, <4>2, SendMoves DEF SendSteps, Signals
          <5> QED
            BY <5>1 DEF SendSteps
        <4>3. CASE SendCleanUp(t)
          BY <1>1, <4>3, SendMoves DEF SendSteps
        <4> QED
          BY <1>8, <2>3, <4>1, <4>2, <4>3 DEF SendThread
      <3> PICK h \in SendSteps : \E S : /\ Went(t, h, S)
                                        /\ S \subseteq Signals \cup SendSteps \cup {"endCapture"}
        BY <3>1
      <3>2. PICK S : Went(t, h, S) /\ S \subseteq Signals \cup SendSteps \cup {"endCapture"}
        OBVIOUS
      <3>3. h \notin Watched /\ S \cap Watched = {}
        BY <3>2, Unwatched
      <3> QED
        BY <1>2, <2>1, <3>2, <3>3
    <2> QED
      BY <2>2, <2>3
  <1>9. ASSUME Stop(t) PROVE PatientInv'
    <2>1. Untouched /\ encoding' = encoding
      <3>1. UNCHANGED <<encoding, plan>>
        BY <1>9 DEF Stop, ForceStop, CancelRetry, JoinRetry, RtmpStop, RtmpSignal, front
      <3>2. CASE ForceStop(t)
        BY <1>1, <3>1, <3>2 DEF ForceStop, OutType, Untouched
      <3>3. CASE ~ForceStop(t)
        <4>1. UNCHANGED out
          BY <1>1, <1>9, <3>3 DEF Stop, CancelRetry, JoinRetry, RtmpStop, RtmpSignal
        <4> QED
          BY <1>1, <3>1, <4>1 DEF Untouched
      <3> QED
        BY <3>1, <3>2, <3>3
    <2>2. \E h \in Stops : \E S : Went(t, h, S) /\ S \subseteq Stops \cup Signals
      BY <1>1, <1>9, StopWent
    <2> PICK h \in Stops : \E S : Went(t, h, S) /\ S \subseteq Stops \cup Signals
      BY <2>2
    <2>3. PICK S : Went(t, h, S) /\ S \subseteq Stops \cup Signals
      OBVIOUS
    <2>4. h \notin Watched /\ S \cap Watched = {}
      BY <2>3, Unwatched
    <2> QED
      BY <1>2, <2>1, <2>3, <2>4
  <1>10. ASSUME NullPacket(t) PROVE PatientInv'
    <2>1. Went(t, "nullPacket", {}) /\ "nullPacket" \notin Watched
      BY <1>1, <1>10, StopMoves, Unwatched
    <2>2. Untouched /\ encoding' \subseteq encoding
      BY <1>1, <1>10 DEF NullPacket, Untouched, front
    <2> QED
      BY <1>2, <2>1, <2>2
  <1> QED
    BY <1>3, <1>4, <1>5, <1>6, <1>7, <1>8, <1>9, <1>10

LEMMA PatientQuietFront ==
    ASSUME Shape, Threaded, PatientInv,
           UserStop \/ UserForceStop \/ Packet \/ EncodeError \/ UNCHANGED vars
    PROVE  PatientInv'
  <1>1. Stacks /\ out \in OutType(plan.retryMax) /\ ~out.reconnecting
    BY DEF Threaded, Shape, OutOK, PatientInv, NoRetry
  <1>2. Untouched /\ encoding' = encoding
    <2>1. /\ UNCHANGED plan \/ Spend("stop") \/ Spend("fault")
          /\ encoding' = encoding
          /\ UNCHANGED out \/ out' = [out EXCEPT !.stopping = TRUE]
      BY DEF UserStop, UserForceStop, Packet, EncodeError, vars, front, Fails
    <2>2. out'.active = out.active /\ out'.dataActive = out.dataActive /\ ~out'.reconnecting
      BY <1>1, <2>1 DEF OutType
    <2> QED
      BY <2>1, <2>2, PatientPlan DEF Untouched
  <1>3. Calm
    <2>1. CASE Packet \/ UNCHANGED vars
      BY <1>1, <2>1, FrontMoves, CalmSame
    <2>2. CASE UserStop \/ UserForceStop \/ EncodeError
      <3>1. \E t \in {"user", "encoder"} : \E S :
                Todo(t) = {} /\ Became(t, S) /\ S \subseteq Stops \cup {"nullPacket"}
        <4>1. /\ {"forceStop"} \subseteq Stops \cup {"nullPacket"}
              /\ {"cancelRetry", "rtmpStop"} \subseteq Stops \cup {"nullPacket"}
              /\ {"forceStop", "nullPacket"} \subseteq Stops \cup {"nullPacket"}
          BY DEF Stops
        <4> QED
          BY <1>1, <2>2, <4>1, FrontMoves
      <3> PICK t \in {"user", "encoder"} : \E S :
              Todo(t) = {} /\ Became(t, S) /\ S \subseteq Stops \cup {"nullPacket"}
        BY <3>1
      <3>2. PICK S : Todo(t) = {} /\ Became(t, S) /\ S \subseteq Stops \cup {"nullPacket"}
        OBVIOUS
      <3>3. S \cap Watched = {}
        BY <3>2, Unwatched
      <3> QED
        BY <3>2, <3>3, CalmBecame
    <2> QED
      BY <2>1, <2>2
  <1> QED
    BY <1>2, <1>3, PatientCalm

LEMMA NoRetryWent ==
    ASSUME NoRetry, NEW t \in Threads, NEW h, NEW S, Went(t, h, S), S \cap Reconnects = {},
           ~out'.reconnecting, plan'.retryMax = plan.retryMax
    PROVE  NoRetry'
  <1>1. \A u \in Retriers : u # t /\ u \in Threads
    BY Pools DEF NoRetry, Went, Least
  <1> QED
    BY <1>1 DEF NoRetry, Went

LEMMA NoRetryForked ==
    ASSUME NoRetry, NEW t \in Threads, NEW h, NEW S, NEW n \in Threads \ Retriers, NEW E,
           Forked(t, h, S, n, E), S \cap Reconnects = {}, E \cap Reconnects = {},
           ~out'.reconnecting, plan'.retryMax = plan.retryMax
    PROVE  NoRetry'
  <1>1. \A u \in Retriers : u # t /\ u # n /\ u \in Threads
    BY Pools DEF NoRetry, Forked, Least
  <1> QED
    BY <1>1 DEF NoRetry, Forked

LEMMA PatientEndBegin ==
    ASSUME Shape, Threaded, PatientInv, NEW t \in Threads, EndCaptureBegin(t)
    PROVE  PatientInv'
  <1> DEFINE S == {"endClear", "endJoin", "endSpawn", "endSignal"}
  <1>1. Went(t, "endCapture", S)
    <2>1. ~Went(t, "endCaptureQuietly", {"endClear", "endJoin", "endSpawn"})
      BY DEF Went, Least, PatientInv, NoRetry, Reconnects
    <2> QED
      BY <2>1, SharedMoves DEF Threaded
  <1>2. out.active /\ out.dataActive /\ UNCHANGED <<out, encoding, plan>>
    BY DEF EndCaptureBegin, front
  <1>3. /\ "endCapture" \in Todo(t) /\ Todo(t)' = S \cup (Todo(t) \ {"endCapture"})
        /\ \A u \in Threads \ {t} : /\ Todo(u)' = Todo(u)
                                    /\ (Young(u)' <=> Young(u)) /\ (Ending(u)' <=> Ending(u))
    BY <1>1, OthersWent DEF Went, Least
  <1>4. Connectors \cup Senders \subseteq Threads /\ "user" \in Threads
    BY Pools
  <1>5. t \in {"user", "encoder"} \cup Connectors \cup Senders
    BY <1>3, Owners DEF Calls
  <1>6. \A x \in YoungSteps \cup Starts \cup EndSteps : x \notin S /\ x # "endCapture"
    BY DEF YoungSteps, Starts, EndSteps
  <1>7. \A c \in Connectors : ~Young(c) /\ ~Young(c)'
    <2>1. \A c \in Connectors : ~Young(c)
      BY <1>2 DEF PatientInv, YoungAlone
    <2>2. Young(t)' => Young(t)
      BY <1>3, <1>6 DEF Young
    <2> QED
      BY <1>3, <1>4, <2>1, <2>2
  <1> HIDE DEF S
  <1>8. NoRetry'
    <2>1. S \cap Reconnects = {}
      BY DEF S, Reconnects
    <2> QED
      BY <1>1, <1>2, <2>1, NoRetryWent DEF PatientInv, NoRetry
  <1>9. Ladder' /\ YoungAlone' /\ BeganData'
    <2>1. \A c \in Connectors : "beginActive" \notin Todo(c)'
      BY <1>7 DEF Young, YoungSteps
    <2> QED
      BY <1>7, <2>1 DEF Ladder, YoungAlone, BeganData
  <1>10. StartingAlone'
    <2> SUFFICES ASSUME Starting' PROVE StartingAlone'
      BY DEF StartingAlone
    <2>1. t # "user" /\ Starting
      <3>1. CASE t = "user"
        <4>1. Starting
          BY <1>3, <1>6, <3>1 DEF Starting
        <4>2. "endCapture" \notin Starts
          BY DEF Starts
        <4> QED
          BY <1>3, <3>1, <4>1, <4>2 DEF PatientInv, StartingAlone
      <3>2. CASE t # "user"
        BY <1>3, <1>4, <3>2 DEF Starting
      <3> QED
        BY <3>1, <3>2
    <2>2. t = "encoder"
      BY <1>3, <1>5, <2>1 DEF PatientInv, StartingAlone
    <2>3. /\ Todo("user")' \subseteq Starts
          /\ \A u \in Connectors \cup Senders : Todo(u)' = {}
          /\ "startConnect" \notin Todo("user")'
      <3>1. \A u \in Connectors \cup Senders : u # t
        BY <1>3, <2>1 DEF PatientInv, StartingAlone
      <3> QED
        BY <1>2, <1>3, <1>4, <2>1, <3>1 DEF PatientInv, StartingAlone
    <2>4. \A u \in Threads \ {t} : ~Ending(u)
      BY <1>2, <2>1, <2>2 DEF PatientInv, StartingAlone
    <2>5. \A u \in Threads : Ending(u)' => u = t
      BY <1>3, <2>4
    <2>6. \A u \in Threads : "endSpawn" \in Todo(u)' => "endClear" \in Todo(u)'
      <3>1. "endClear" \in Todo(t)'
        BY <1>3 DEF S
      <3>2. \A u \in Threads \ {t} : "endSpawn" \notin Todo(u)
        BY <2>4 DEF Ending, EndingSteps
      <3> QED
        BY <1>3, <3>1, <3>2
    <2> QED
      BY <1>2, <2>2, <2>3, <2>5, <2>6 DEF StartingAlone
  <1>11. StoppedFirst'
    <2>1. "deactivate" \in EndSteps /\ "stopEncoders" \in EndSteps
      BY DEF EndSteps
    <2> QED
      BY <1>2, <1>3, <1>6, <2>1 DEF PatientInv, StoppedFirst
  <1>12. Hooked' /\ plan'.patient
    BY <1>2 DEF Hooked, PatientInv
  <1> QED
    BY <1>8, <1>9, <1>10, <1>11, <1>12 DEF PatientInv

(* The end of a capture goes on: endClear, endJoin, stopEncoders. *)
LEMMA PatientEndOn ==
    ASSUME Shape, Threaded, PatientInv, NEW t \in Threads,
           EndCaptureClear(t) \/ EndCaptureJoin(t) \/ StopEncoders(t)
    PROVE  PatientInv'
  <1>1. PICK h \in {"endClear", "endJoin", "stopEncoders"} :
            /\ Went(t, h, {})
            /\ h = "endClear" => out'.dataActive = FALSE
            /\ h = "stopEncoders" => encoding' = {}
    <2>1. Stacks /\ out \in OutType(plan.retryMax)
      BY DEF Threaded, Shape, OutOK
    <2>2. ASSUME EndCaptureClear(t) PROVE Went(t, "endClear", {}) /\ out'.dataActive = FALSE
      BY <2>1, <2>2, SharedMoves DEF EndCaptureClear, OutType
    <2>3. ASSUME EndCaptureJoin(t) PROVE Went(t, "endJoin", {})
      BY <2>1, <2>3, SharedMoves
    <2>4. ASSUME StopEncoders(t) PROVE Went(t, "stopEncoders", {}) /\ encoding' = {}
      BY <2>1, <2>4, EndMoves DEF StopEncoders
    <2> QED
      BY <2>2, <2>3, <2>4
  <1>2. /\ out'.active = out.active /\ (out'.dataActive => out.dataActive) /\ ~out'.reconnecting
        /\ UNCHANGED plan /\ encoding' \subseteq encoding
    BY DEF EndCaptureClear, EndCaptureJoin, StopEncoders, front, Shape, OutOK, OutType, PatientInv, NoRetry
  <1>3. /\ h \in Todo(t) /\ Todo(t)' = Todo(t) \ {h}
        /\ \A x \in Todo(t) \ {h} : Rank(h) < Rank(x)
        /\ \A u \in Threads \ {t} : /\ Todo(u)' = Todo(u)
                                    /\ (Young(u)' <=> Young(u)) /\ (Ending(u)' <=> Ending(u))
    BY <1>1, OthersWent DEF Went, Least
  <1>4. Connectors \cup Senders \subseteq Threads /\ "user" \in Threads
    BY Pools
  <1>5. Ending(t) /\ h \notin YoungSteps \cup Starts \cup Reconnects
    BY <1>3 DEF Ending, EndingSteps, YoungSteps, Starts, Reconnects
  <1>6. \A c \in Connectors : ~Young(c) /\ ~Young(c)'
    <2>1. \A c \in Connectors : ~Young(c)
      BY <1>5 DEF PatientInv, YoungAlone
    <2>2. Young(t)' => Young(t)
      BY <1>3 DEF Young
    <2> QED
      BY <1>3, <1>4, <2>1, <2>2
  <1>7. \A u \in Threads : Todo(u)' \subseteq Todo(u) /\ (Ending(u)' => Ending(u))
    BY <1>3 DEF Ending
  <1>8. NoRetry'
    BY <1>1, <1>2, NoRetryWent DEF PatientInv
  <1>9. Ladder' /\ YoungAlone' /\ BeganData'
    <2>1. \A c \in Connectors : "beginActive" \notin Todo(c)'
      BY <1>6 DEF Young, YoungSteps
    <2> QED
      BY <1>6, <2>1 DEF Ladder, YoungAlone, BeganData
  <1>10. StartingAlone'
    <2> SUFFICES ASSUME Starting' PROVE StartingAlone'
      BY DEF StartingAlone
    <2>1. Starting
      BY <1>4, <1>7 DEF Starting
    <2>2. /\ Todo("user")' \subseteq Starts
          /\ \A u \in Connectors \cup Senders : Todo(u)' = {}
          /\ "startConnect" \in Todo("user")' => ~out'.active
      BY <1>2, <1>4, <1>7, <2>1 DEF PatientInv, StartingAlone
    <2>3. /\ ~out.active => \A u \in Threads : ~Ending(u)
          /\ \A u, v \in Threads : Ending(u) /\ Ending(v) => u = v
          /\ \A u \in Threads : Ending(u) => u = "encoder" \/ ~out.dataActive
      BY <2>1 DEF PatientInv, StartingAlone
    <2>4. /\ ~out'.active => \A u \in Threads : ~Ending(u)'
          /\ \A u, v \in Threads : Ending(u)' /\ Ending(v)' => u = v
          /\ \A u \in Threads : Ending(u)' => u = "encoder" \/ ~out'.dataActive
      BY <1>2, <1>7, <2>3
    <2>5. \A u \in Threads : "endSpawn" \in Todo(u)' /\ "endClear" \notin Todo(u)' => ~out'.dataActive
      <3>1. CASE h = "endClear"
        BY <1>1, <3>1
      <3>2. CASE h # "endClear"
        <4>1. \A u \in Threads : "endClear" \notin Todo(u)' => "endClear" \notin Todo(u)
          BY <1>3, <3>2
        <4> QED
          BY <1>2, <1>7, <2>1, <4>1 DEF PatientInv, StartingAlone
      <3> QED
        BY <3>1, <3>2
    <2> QED
      BY <2>2, <2>4, <2>5 DEF StartingAlone
  <1>11. StoppedFirst'
    <2>1. CASE h = "stopEncoders"
      BY <1>1, <2>1 DEF StoppedFirst
    <2>2. CASE h # "stopEncoders"
      <3>1. \A u \in Threads : "stopEncoders" \notin Todo(u)' => "stopEncoders" \notin Todo(u)
        BY <1>3, <2>2
      <3> QED
        BY <1>2, <1>7, <3>1 DEF PatientInv, StoppedFirst
    <2> QED
      BY <2>1, <2>2
  <1>12. Hooked' /\ plan'.patient
    <2>1. \A c \in Connectors : "beginActive" \notin Todo(c)
      BY <1>6 DEF Young, YoungSteps
    <2> QED
      BY <1>2, <2>1 DEF Hooked, PatientInv
  <1> QED
    BY <1>8, <1>9, <1>10, <1>11, <1>12 DEF PatientInv

LEMMA PatientEndSpawn ==
    ASSUME Shape, Threaded, PatientInv, NEW t \in Threads, EndCaptureSpawn(t)
    PROVE  PatientInv'
  <1>1. PICK n \in Enders : Forked(t, "endSpawn", {}, n, EndSteps)
    BY SharedMoves DEF Threaded
  <1>2. /\ out'.active = out.active /\ out'.dataActive = out.dataActive /\ ~out'.reconnecting
        /\ UNCHANGED <<encoding, plan>>
    BY DEF EndCaptureSpawn, front, Shape, OutOK, OutType, PatientInv, NoRetry
  <1>3. Connectors \cup Senders \subseteq Threads /\ "user" \in Threads /\ n \in Threads
        /\ n \notin Connectors \cup Senders \cup Retriers \cup {"user", "encoder"}
    BY Pools DEF Enders, Connectors, Senders, Retriers
  <1>4. /\ "endSpawn" \in Todo(t) /\ Todo(t)' = Todo(t) \ {"endSpawn"}
        /\ \A x \in Todo(t) \ {"endSpawn"} : Rank("endSpawn") < Rank(x)
        /\ Todo(n)' = EndSteps /\ Todo(n) = {} /\ n # t
        /\ \A u \in Threads \ {t, n} : /\ Todo(u)' = Todo(u)
                                       /\ (Young(u)' <=> Young(u)) /\ (Ending(u)' <=> Ending(u))
    <2>1. /\ "endSpawn" \in Todo(t)
          /\ \A x \in Todo(t) \ {"endSpawn"} : Rank("endSpawn") < Rank(x)
      BY <1>1 DEF Forked, Least
    <2>2. /\ Todo(t)' = {} \cup (Todo(t) \ {"endSpawn"})
          /\ Todo(n)' = EndSteps /\ Todo(n) = {} /\ n # t
          /\ \A u \in Threads \ {t, n} : /\ Todo(u)' = Todo(u)
                                         /\ (Young(u)' <=> Young(u)) /\ (Ending(u)' <=> Ending(u))
      BY <1>1, <1>3, OthersForked
    <2> QED
      BY <2>1, <2>2
  <1>5. Ending(t) /\ "endClear" \notin Todo(t) /\ "endJoin" \notin Todo(t)
    <2>1. Rank("endClear") = 1 /\ Rank("endJoin") = 2 /\ Rank("endSpawn") = 3
      BY DEF Rank
    <2> QED
      BY <1>4, <2>1 DEF Ending, EndingSteps
  <1>6. \A x \in EndSteps : x \notin Todo(t)
    BY <1>4, Owners DEF Calls, Enders, Connectors, Senders
  <1>7. \A c \in Connectors : ~Young(c) /\ ~Young(c)'
    <2>1. \A c \in Connectors : ~Young(c)
      BY <1>5 DEF PatientInv, YoungAlone
    <2>2. Young(t)' => Young(t)
      BY <1>4 DEF Young
    <2> QED
      BY <1>3, <1>4, <2>1, <2>2
  <1>8. ~Ending(t)'
    BY <1>4, <1>5, <1>6 DEF Ending, EndingSteps, EndSteps
  <1>9. NoRetry'
    <2>1. n \in Threads \ Retriers /\ EndSteps \cap Reconnects = {}
      BY <1>3 DEF EndSteps, Reconnects
    <2> QED
      BY <1>1, <1>2, <2>1, NoRetryForked DEF PatientInv
  <1>10. Ladder' /\ YoungAlone' /\ BeganData'
    <2>1. \A c \in Connectors : "beginActive" \notin Todo(c)'
      BY <1>7 DEF Young, YoungSteps
    <2> QED
      BY <1>7, <2>1 DEF Ladder, YoungAlone, BeganData
  <1>11. StartingAlone'
    <2> SUFFICES ASSUME Starting' PROVE StartingAlone'
      BY DEF StartingAlone
    <2>1. Starting
      BY <1>3, <1>4 DEF Starting
    <2>2. /\ Todo("user")' \subseteq Starts
          /\ \A u \in Connectors \cup Senders : Todo(u)' = {}
          /\ "startConnect" \in Todo("user")' => ~out'.active
      <3>1. \A u \in Connectors \cup Senders \cup {"user"} : Todo(u)' \subseteq Todo(u)
        BY <1>3, <1>4
      <3> QED
        BY <1>2, <2>1, <3>1 DEF PatientInv, StartingAlone
    <2>3. out.active /\ ~out.dataActive /\ \A u \in Threads : Ending(u) => u = t
      BY <1>4, <1>5, <2>1 DEF PatientInv, StartingAlone
    <2>4. \A u \in Threads : Ending(u)' => u = n
      BY <1>4, <1>8, <2>3
    <2> QED
      BY <1>2, <2>2, <2>3, <2>4 DEF StartingAlone
  <1>12. StoppedFirst'
    <2>1. "stopEncoders" \in Todo(n)' /\ "deactivate" \notin Todo(t)'
      BY <1>4, <1>6 DEF EndSteps
    <2> QED
      BY <1>2, <1>4, <2>1 DEF PatientInv, StoppedFirst
  <1>13. Hooked' /\ plan'.patient
    <2>1. \A c \in Connectors : "beginActive" \notin Todo(c)
      BY <1>7 DEF Young, YoungSteps
    <2> QED
      BY <1>2, <2>1 DEF Hooked, PatientInv
  <1> QED
    BY <1>9, <1>10, <1>11, <1>12, <1>13 DEF PatientInv

LEMMA PatientDeactivate ==
    ASSUME Shape, Threaded, PatientInv, NEW t \in Threads, Deactivate(t)
    PROVE  PatientInv'
  <1>1. Went(t, "deactivate", {})
    BY EndMoves DEF Threaded
  <1>2. /\ out'.active = FALSE /\ out'.dataActive = out.dataActive /\ ~out'.reconnecting
        /\ UNCHANGED <<encoding, plan>>
    BY DEF Deactivate, front, Shape, OutOK, OutType, PatientInv, NoRetry
  <1>3. Connectors \cup Senders \subseteq Threads /\ "user" \in Threads
    BY Pools
  <1>4. /\ "deactivate" \in Todo(t) /\ Todo(t)' = Todo(t) \ {"deactivate"}
        /\ \A x \in Todo(t) \ {"deactivate"} : Rank("deactivate") < Rank(x)
        /\ \A u \in Threads \ {t} : /\ Todo(u)' = Todo(u)
                                    /\ (Young(u)' <=> Young(u)) /\ (Ending(u)' <=> Ending(u))
    BY <1>1, OthersWent DEF Went, Least
  <1>5. Ending(t) /\ "stopEncoders" \notin Todo(t)
    <2>1. Rank("stopEncoders") = 8 /\ Rank("deactivate") = 9
      BY DEF Rank, Signals
    <2> QED
      BY <1>4, <2>1 DEF Ending, EndingSteps
  <1>6. encoding = {}
    BY <1>4, <1>5 DEF PatientInv, StoppedFirst
  <1>7. \A x \in Calls : x \notin Todo(t)
    BY <1>4, Owners DEF EndSteps, Enders, Connectors, Senders
  <1>8. ~Ending(t)'
    BY <1>4, <1>5, <1>7 DEF Ending, EndingSteps, Calls
  <1>9. \A c \in Connectors : ~Young(c) /\ ~Young(c)'
    <2>1. \A c \in Connectors : ~Young(c)
      BY <1>5 DEF PatientInv, YoungAlone
    <2>2. Young(t)' => Young(t)
      BY <1>4 DEF Young
    <2> QED
      BY <1>3, <1>4, <2>1, <2>2
  <1>10. NoRetry'
    BY <1>1, <1>2, NoRetryWent DEF PatientInv
  <1>11. Ladder' /\ YoungAlone' /\ BeganData'
    <2>1. \A c \in Connectors : "beginActive" \notin Todo(c)'
      BY <1>9 DEF Young, YoungSteps
    <2> QED
      BY <1>9, <2>1 DEF Ladder, YoungAlone, BeganData
  <1>12. StartingAlone'
    <2> SUFFICES ASSUME Starting' PROVE StartingAlone'
      BY DEF StartingAlone
    <2>1. Starting
      BY <1>3, <1>4 DEF Starting
    <2>2. /\ Todo("user")' \subseteq Starts
          /\ \A u \in Connectors \cup Senders : Todo(u)' = {}
      <3>1. \A u \in Connectors \cup Senders \cup {"user"} : Todo(u)' \subseteq Todo(u)
        BY <1>3, <1>4
      <3> QED
        BY <2>1, <3>1 DEF PatientInv, StartingAlone
    <2>3. \A u \in Threads : Ending(u) => u = t
      BY <1>5, <2>1 DEF PatientInv, StartingAlone
    <2>4. \A u \in Threads : ~Ending(u)'
      BY <1>4, <1>8, <2>3
    <2>5. \A u \in Threads : "endSpawn" \notin Todo(u)'
      BY <2>4 DEF Ending, EndingSteps
    <2> QED
      BY <1>2, <2>2, <2>4, <2>5 DEF StartingAlone
  <1>13. StoppedFirst' /\ Hooked' /\ plan'.patient
    BY <1>2, <1>6 DEF StoppedFirst, Hooked, PatientInv
  <1> QED
    BY <1>10, <1>11, <1>12, <1>13 DEF PatientInv

(* obs_output_actual_start, up to the connect thread. *)
LEMMA PatientStartOn ==
    ASSUME Shape, Threaded, PatientInv, NEW t \in Threads, StartWait(t) \/ StartCheck(t)
    PROVE  PatientInv'
  <1>1. PICK h \in {"startWait", "start"}, S \in {{}, {"startConnect"}} :
            Went(t, h, S) /\ (S # {} => ~out.active)
    BY StartMoves DEF Threaded
  <1>2. /\ out'.active = out.active /\ out'.dataActive = out.dataActive /\ ~out'.reconnecting
        /\ UNCHANGED encoding /\ plan'.patient = plan.patient /\ plan'.retryMax = plan.retryMax
    <2>1. out \in OutType(plan.retryMax) /\ ~out.reconnecting
      BY DEF Shape, OutOK, PatientInv, NoRetry
    <2>2. UNCHANGED encoding /\ (UNCHANGED plan \/ Spend("fault"))
      BY DEF StartWait, StartCheck, Fails, front
    <2>3. out'.active = out.active /\ out'.dataActive = out.dataActive /\ ~out'.reconnecting
      BY <2>1 DEF StartWait, StartCheck, OutType
    <2> QED
      BY <2>2, <2>3, PatientPlan
  <1>3. Connectors \cup Senders \subseteq Threads /\ "user" \in Threads
    BY Pools
  <1>4. /\ h \in Todo(t) /\ Todo(t)' = S \cup (Todo(t) \ {h})
        /\ \A u \in Threads \ {t} : /\ Todo(u)' = Todo(u)
                                    /\ (Young(u)' <=> Young(u)) /\ (Ending(u)' <=> Ending(u))
    BY <1>1, OthersWent DEF Went, Least
  <1>5. t = "user" /\ Starting
    <2>1. h \in Starts
      BY DEF Starts
    <2> QED
      BY <1>4, <2>1, Owners DEF PatientInv, NoRetry, Starting
  <1>6. /\ \A u \in Threads : (Young(u)' <=> Young(u)) /\ (Ending(u)' <=> Ending(u))
        /\ \A c \in Connectors : Todo(c)' = Todo(c)
    <2>1. h \notin YoungSteps \cup EndingSteps /\ S \cap (YoungSteps \cup EndingSteps) = {}
      BY DEF YoungSteps, EndingSteps
    <2>2. (Young(t)' <=> Young(t)) /\ (Ending(t)' <=> Ending(t))
      BY <1>4, <2>1 DEF Young, Ending
    <2>3. \A c \in Connectors : c # t
      BY <1>5 DEF Connectors
    <2> QED
      BY <1>3, <1>4, <2>2, <2>3
  <1>7. NoRetry'
    <2>1. S \cap Reconnects = {}
      BY DEF Reconnects
    <2> QED
      BY <1>1, <1>2, <2>1, NoRetryWent DEF PatientInv
  <1>8. Ladder' /\ YoungAlone' /\ BeganData'
    <2>1. Ladder'
      BY <1>3, <1>6 DEF PatientInv, Ladder
    <2>2. YoungAlone'
      BY <1>2, <1>3, <1>6 DEF PatientInv, YoungAlone
    <2>3. BeganData'
      BY <1>2, <1>6 DEF PatientInv, BeganData
    <2> QED
      BY <2>1, <2>2, <2>3
  <1>9. StartingAlone'
    <2>1. Todo("user")' \subseteq Starts
      BY <1>4, <1>5 DEF PatientInv, StartingAlone, Starts
    <2>2. \A u \in Connectors \cup Senders : Todo(u)' = {}
      <3>1. \A u \in Connectors \cup Senders : u # t
        BY <1>5 DEF Connectors, Senders
      <3> QED
        BY <1>3, <1>4, <1>5, <3>1 DEF PatientInv, StartingAlone
    <2>3. "startConnect" \in Todo("user")' => ~out'.active
      BY <1>1, <1>2, <1>4, <1>5 DEF PatientInv, StartingAlone
    <2>4. /\ ~out.active => \A u \in Threads : ~Ending(u)
          /\ \A u, v \in Threads : Ending(u) /\ Ending(v) => u = v
          /\ \A u \in Threads : Ending(u) => u = "encoder" \/ ~out.dataActive
      BY <1>5 DEF PatientInv, StartingAlone
    <2>5. /\ ~out'.active => \A u \in Threads : ~Ending(u)'
          /\ \A u, v \in Threads : Ending(u)' /\ Ending(v)' => u = v
          /\ \A u \in Threads : Ending(u)' => u = "encoder" \/ ~out'.dataActive
      BY <1>2, <1>6, <2>4
    <2>6. \A u \in Threads : "endSpawn" \in Todo(u)' /\ "endClear" \notin Todo(u)' => ~out'.dataActive
      <3>1. \A u \in Threads : /\ ("endSpawn" \in Todo(u)' <=> "endSpawn" \in Todo(u))
                               /\ ("endClear" \in Todo(u)' <=> "endClear" \in Todo(u))
        BY <1>4
      <3> QED
        BY <1>2, <1>5, <3>1 DEF PatientInv, StartingAlone
    <2> QED
      BY <2>1, <2>2, <2>3, <2>5, <2>6 DEF StartingAlone
  <1>10. StoppedFirst'
    <2>1. \A u \in Threads : /\ ("deactivate" \in Todo(u)' <=> "deactivate" \in Todo(u))
                             /\ ("stopEncoders" \in Todo(u)' <=> "stopEncoders" \in Todo(u))
      BY <1>4
    <2> QED
      BY <1>2, <2>1 DEF PatientInv, StoppedFirst
  <1>11. Hooked' /\ plan'.patient
    BY <1>2, <1>6 DEF Hooked, PatientInv
  <1> QED
    BY <1>7, <1>8, <1>9, <1>10, <1>11 DEF PatientInv

LEMMA PatientStartConnect ==
    ASSUME Shape, Threaded, PatientInv, NEW t \in Threads, StartConnect(t)
    PROVE  PatientInv'
  <1> DEFINE E == {"initConnect", "connect"}
  <1>1. PICK c \in Connectors : Forked(t, "startConnect", {}, c, E)
    BY StartMoves DEF Threaded
  <1>2. UNCHANGED <<out, encoding, plan>>
    BY DEF StartConnect, front
  <1>3. Connectors \cup Senders \cup Retriers \subseteq Threads /\ "user" \in Threads /\ c \in Threads
        /\ c # "user" /\ c \notin Retriers
    BY Pools DEF Connectors, Retriers
  <1>4. /\ "startConnect" \in Todo(t)
        /\ \A x \in Todo(t) \ {"startConnect"} : Rank("startConnect") < Rank(x)
    BY <1>1 DEF Forked, Least
  <1>5. /\ Todo(t)' = Todo(t) \ {"startConnect"}
        /\ Todo(c)' = E /\ Todo(c) = {} /\ c # t
        /\ \A u \in Threads \ {t, c} : /\ Todo(u)' = Todo(u)
                                       /\ (Young(u)' <=> Young(u)) /\ (Ending(u)' <=> Ending(u))
    <2>1. Todo(t)' = {} \cup (Todo(t) \ {"startConnect"})
      BY <1>1, <1>3, OthersForked
    <2> QED
      BY <1>1, <1>3, <2>1, OthersForked
  <1>6. t = "user" /\ Starting
    BY <1>4, Owners DEF Starts, PatientInv, NoRetry, Starting
  <1>7. /\ ~out.active /\ (\A u \in Threads : ~Ending(u)) /\ Todo("user") \subseteq Starts
        /\ \A u \in Connectors \cup Senders : Todo(u) = {}
    BY <1>4, <1>6 DEF PatientInv, StartingAlone
  <1>8. ~Starting'
    <2>1. Rank("startConnect") = 6 /\ Rank("start") = 6 /\ Rank("startWait") = 5
      BY DEF Rank, Signals
    <2>2. Todo("user")' = {}
      BY <1>4, <1>5, <1>6, <1>7, <2>1 DEF Starts
    <2> QED
      BY <2>2 DEF Starting
  <1>9. \A u \in Threads : ~Ending(u)'
    <2>1. ~Ending(t)' /\ ~Ending(c)'
      BY <1>5, <1>7 DEF Ending, EndingSteps
    <2> QED
      BY <1>5, <1>7, <2>1
  <1>10. \A d \in Connectors : Young(d)' => d = c
    <2>1. \A d \in Connectors \ {c} : d # t /\ d \in Threads /\ ~Young(d)
      BY <1>3, <1>6, <1>7 DEF Connectors, Young
    <2> QED
      BY <1>5, <2>1
  <1>11. NoRetry'
    <2>1. c \in Threads \ Retriers /\ {} \cap Reconnects = {} /\ E \cap Reconnects = {}
      BY <1>3 DEF Reconnects
    <2>2. ~out'.reconnecting /\ plan'.retryMax = plan.retryMax
      BY <1>2 DEF PatientInv, NoRetry
    <2> QED
      BY <1>1, <2>1, <2>2, NoRetryForked DEF PatientInv
  <1>12. Ladder' /\ YoungAlone' /\ BeganData'
    <2>1. \A d \in Connectors : "beginActive" \notin Todo(d)'
      BY <1>5, <1>10 DEF Young, YoungSteps
    <2> QED
      BY <1>2, <1>5, <1>7, <1>9, <1>10, <2>1 DEF Ladder, YoungAlone, BeganData
  <1>13. StoppedFirst'
    BY <1>9 DEF StoppedFirst, Ending, EndingSteps
  <1>14. Hooked'
    <2>1. \A d \in Connectors : "beginActive" \notin Todo(d)
      BY <1>7
    <2> QED
      BY <1>2, <2>1 DEF PatientInv, Hooked
  <1> QED
    BY <1>2, <1>8, <1>11, <1>12, <1>13, <1>14 DEF PatientInv, StartingAlone

(* A step of a connect thread that may still begin a capture: what it has   *)
(* left, L, keeps to the ladder.                                            *)
LEMMA PatientYoung ==
    ASSUME Shape, Threaded, PatientInv, NEW t \in Connectors, Young(t), NEW L,
           \A u \in Connectors \cup Enders \cup Retriers \cup {"user", "encoder"} :
               Todo(u)' = IF u = t THEN L ELSE Todo(u),
           \A u \in Senders : Todo(u)' \in {Todo(u), {"sendWait"}},
           \A x \in EndingSteps \cup Reconnects : x \notin L,
           Young(t)' => L \in {{"initConnect", "connect"}, {"connect"}, {"metaData"},
                               {"beginCapture", "connectDetach", "connectDone"},
                               {"beginActive", "beginSignal", "connectDetach", "connectDone"}},
           Young(t)' => ~out'.active,
           "beginActive" \in L => out'.dataActive,
           ~out'.reconnecting, plan'.patient, plan'.retryMax = 0,
           encoding' # {} /\ ~out'.active => "beginActive" \in L
    PROVE  PatientInv'
  <1>1. t \in Threads /\ "user" \in Threads /\ t # "user" /\ t \notin Retriers
        /\ Threads = Connectors \cup Senders \cup Enders \cup Retriers \cup {"user", "encoder"}
        /\ \A u \in Senders : u \notin Connectors
    BY Pools DEF Connectors, Senders, Retriers
  <1>2. /\ ~out.active
        /\ \A u \in Threads : ~Ending(u)
        /\ \A d \in Connectors : Young(d) => d = t
    BY DEF PatientInv, YoungAlone
  <1>3. ~Starting
    BY DEF PatientInv, StartingAlone, Young
  <1>4. \A u \in Threads \ {t} : Todo(u)' \in {Todo(u), {"sendWait"}}
    BY <1>1
  <1>5. \A u \in Threads : ~Ending(u)'
    <2>1. ~Ending(t)'
      BY <1>1 DEF Ending
    <2>2. ASSUME NEW u \in Threads \ {t} PROVE ~Ending(u)'
      BY <1>2, <1>4 DEF Ending, EndingSteps
    <2> QED
      BY <2>1, <2>2
  <1>6. \A d \in Connectors : Young(d)' => d = t
    BY <1>2 DEF Young
  <1>7. ~Starting'
    BY <1>1, <1>3 DEF Starting
  <1>8. NoRetry'
    <2>1. \A u \in Retriers : Todo(u)' = {}
      BY <1>1 DEF PatientInv, NoRetry
    <2>2. \A u \in Threads : \A x \in Reconnects : x \notin Todo(u)'
      <3>1. \A x \in Reconnects : x \notin Todo(t)'
        BY <1>1
      <3>2. \A u \in Threads \ {t} : \A x \in Reconnects : x \notin Todo(u)'
        BY <1>4 DEF PatientInv, NoRetry, Reconnects
      <3> QED
        BY <3>1, <3>2
    <2> QED
      BY <2>1, <2>2 DEF NoRetry
  <1>9. Ladder'
    BY <1>6 DEF Ladder
  <1>10. YoungAlone'
    BY <1>5, <1>6 DEF YoungAlone
  <1>11. BeganData'
    <2>1. \A d \in Connectors \ {t} : "beginActive" \notin Todo(d)'
      BY <1>6 DEF Young, YoungSteps
    <2> QED
      BY <2>1 DEF BeganData
  <1>12. StartingAlone' /\ StoppedFirst' /\ Hooked'
    BY <1>5, <1>7 DEF StartingAlone, StoppedFirst, Hooked, Ending, EndingSteps
  <1> QED
    BY <1>8, <1>9, <1>10, <1>11, <1>12 DEF PatientInv

(* connect_thread *)
LEMMA PatientConnect ==
    ASSUME Shape, Threaded, PatientInv, NEW t \in Threads,
           InitConnect(t) \/ TryConnect(t) \/ SendMetaData(t) \/ BeginCapture(t) \/ BeginActive(t)
    PROVE  PatientInv'
  <1> DEFINE Ladders == {{"initConnect", "connect"}, {"connect"}, {"metaData"},
                         {"beginCapture", "connectDetach", "connectDone"},
                         {"beginActive", "beginSignal", "connectDetach", "connectDone"}}
  <1>1. Stacks /\ out \in OutType(plan.retryMax) /\ ~out.reconnecting /\ plan.patient /\ plan.retryMax = 0
        /\ Ladder
    BY DEF Threaded, Shape, OutOK, PatientInv, NoRetry
  <1>2. ASSUME NEW h \in YoungSteps, Least(t, h)
        PROVE  t \in Connectors /\ Young(t) /\ ~out.active /\ ("beginActive" \notin Todo(t) => encoding = {})
    <2>1. Young(t) /\ t \in Connectors
      BY <1>2, Owners DEF Least, Young
    <2>2. ~out.active /\ \A d \in Connectors : Young(d) => d = t
      BY <2>1 DEF PatientInv, YoungAlone
    <2>3. \A d \in Connectors : "beginActive" \in Todo(d) => d = t
      BY <2>2 DEF Young, YoungSteps
    <2> QED
      BY <2>1, <2>2, <2>3 DEF PatientInv, Hooked
  <1>3. ASSUME NEW h \in YoungSteps, NEW S, Went(t, h, S)
        PROVE  /\ \A u \in Connectors \cup Enders \cup Retriers \cup {"user", "encoder"} :
                      Todo(u)' = IF u = t THEN S \cup (Todo(t) \ {h}) ELSE Todo(u)
               /\ \A u \in Senders : Todo(u)' \in {Todo(u), {"sendWait"}}
    <2>1. t \in Connectors
      BY <1>2, <1>3 DEF Went
    <2>2. \A u \in Senders : u # t
      BY <2>1 DEF Connectors, Senders
    <2> QED
      BY <1>3, <2>2, Pools DEF Went
  <1>4. ASSUME NEW h \in {"initConnect", "connect", "metaData"}, NEW L,
               t \in Connectors, Young(t), Least(t, h), "beginActive" \notin Todo(t),
               \A u \in Connectors \cup Enders \cup Retriers \cup {"user", "encoder"} :
                   Todo(u)' = IF u = t THEN L ELSE Todo(u),
               \A u \in Senders : Todo(u)' \in {Todo(u), {"sendWait"}},
               L \in {{"connect"}, {"metaData"}, {"beginCapture", "connectDetach", "connectDone"},
                      {"signalBadPath"}, {"signalConnectFailed", "connectDetach", "connectDone"},
                      {"signalDisconnected", "connectDetach", "connectDone"}},
               UNCHANGED <<out, encoding>>, UNCHANGED plan \/ Spend("fault")
        PROVE  PatientInv'
    <2>1. plan'.patient /\ plan'.retryMax = 0
      BY <1>1, <1>4, PatientPlan
    <2>2. \A x \in EndingSteps \cup Reconnects : x \notin L
      BY <1>4 DEF EndingSteps, Reconnects
    <2>3. Young(t)' => L \in Ladders
      <3>1. t \in Threads /\ Todo(t)' = L
        BY <1>4
      <3> QED
        BY <1>4, <3>1 DEF Young, YoungSteps
    <2>4. ~out.active /\ encoding = {} /\ "beginActive" \notin L
      BY <1>2, <1>4 DEF YoungSteps
    <2> QED
      BY <1>1, <1>4, <2>1, <2>2, <2>3, <2>4, PatientYoung
  <1>5. ASSUME InitConnect(t) PROVE PatientInv'
    <2>1. UNCHANGED <<out, encoding>> /\ (UNCHANGED plan \/ Spend("fault"))
      BY <1>5 DEF InitConnect, Fails
    <2>2. Least(t, "initConnect") /\ "initConnect" \in YoungSteps
      <3>1. At(t, "initConnect")
        BY <1>5 DEF InitConnect
      <3> QED
        BY <1>1, <3>1, AtLeast DEF YoungSteps
    <2>3. t \in Connectors /\ Young(t)
      BY <1>2, <2>2
    <2>4. Todo(t) = {"initConnect", "connect"}
      BY <1>1, <2>2, <2>3, LadderHead
    <2>5. CASE Went(t, "initConnect", {})
      <3>1. {} \cup (Todo(t) \ {"initConnect"}) = {"connect"}
        BY <2>4
      <3>2. /\ \A u \in Connectors \cup Enders \cup Retriers \cup {"user", "encoder"} :
                   Todo(u)' = IF u = t THEN {"connect"} ELSE Todo(u)
            /\ \A u \in Senders : Todo(u)' \in {Todo(u), {"sendWait"}}
        BY <1>3, <2>2, <2>5, <3>1
      <3> QED
        BY <1>4, <2>1, <2>2, <2>3, <2>4, <3>2
    <2>6. CASE Became(t, {"signalBadPath"})
      <3>1. \A u \in Senders : u # t
        BY <2>3 DEF Connectors, Senders
      <3>2. /\ \A u \in Connectors \cup Enders \cup Retriers \cup {"user", "encoder"} :
                   Todo(u)' = IF u = t THEN {"signalBadPath"} ELSE Todo(u)
            /\ \A u \in Senders : Todo(u)' \in {Todo(u), {"sendWait"}}
        BY <2>6, <3>1, Pools DEF Became
      <3> QED
        BY <1>4, <2>1, <2>2, <2>3, <2>4, <3>2
    <2> QED
      BY <1>1, <1>5, <2>5, <2>6, ConnectMoves
  <1>6. ASSUME TryConnect(t) PROVE PatientInv'
    <2>1. UNCHANGED <<out, encoding>> /\ (UNCHANGED plan \/ Spend("fault"))
      BY <1>6 DEF TryConnect, Fails
    <2>2. Least(t, "connect") /\ "connect" \in YoungSteps
      <3>1. At(t, "connect")
        BY <1>6 DEF TryConnect
      <3> QED
        BY <1>1, <3>1, AtLeast DEF YoungSteps
    <2>3. t \in Connectors /\ Young(t)
      BY <1>2, <2>2
    <2>4. Todo(t) = {"connect"}
      BY <1>1, <2>2, <2>3, LadderHead
    <2>5. CASE \E n \in Senders : Forked(t, "connect", {"metaData"}, n, {"sendWait"})
      <3>1. PICK n \in Senders : Forked(t, "connect", {"metaData"}, n, {"sendWait"})
        BY <2>5
      <3>2. {"metaData"} \cup (Todo(t) \ {"connect"}) = {"metaData"}
        BY <2>4
      <3>3. \A u \in Threads : Todo(u)' = IF u = t THEN {"metaData"} \cup (Todo(t) \ {"connect"})
                                          ELSE IF u = n THEN {"sendWait"} ELSE Todo(u)
        BY <3>1 DEF Forked
      <3>4. n \notin Connectors \cup Enders \cup Retriers \cup {"user", "encoder"} /\ t \notin Senders
        BY <2>3 DEF Senders, Connectors, Enders, Retriers
      <3>5. /\ \A u \in Connectors \cup Enders \cup Retriers \cup {"user", "encoder"} :
                   Todo(u)' = IF u = t THEN {"metaData"} ELSE Todo(u)
            /\ \A u \in Senders : Todo(u)' \in {Todo(u), {"sendWait"}}
        BY <3>2, <3>3, <3>4, Pools
      <3> QED
        BY <1>4, <2>1, <2>2, <2>3, <2>4, <3>5
    <2>6. CASE Went(t, "connect", {"signalConnectFailed", "connectDetach", "connectDone"})
      <3> DEFINE L == {"signalConnectFailed", "connectDetach", "connectDone"}
      <3>1. L \cup (Todo(t) \ {"connect"}) = L
        BY <2>4
      <3>2. /\ \A u \in Connectors \cup Enders \cup Retriers \cup {"user", "encoder"} :
                   Todo(u)' = IF u = t THEN L ELSE Todo(u)
            /\ \A u \in Senders : Todo(u)' \in {Todo(u), {"sendWait"}}
        BY <1>3, <2>2, <2>6, <3>1
      <3> QED
        BY <1>4, <2>1, <2>2, <2>3, <2>4, <3>2
    <2> QED
      BY <1>1, <1>6, <2>5, <2>6, ConnectMoves
  <1>7. ASSUME SendMetaData(t) PROVE PatientInv'
    <2>1. UNCHANGED <<out, encoding>> /\ (UNCHANGED plan \/ Spend("fault"))
      BY <1>7 DEF SendMetaData, Fails
    <2>2. Least(t, "metaData") /\ "metaData" \in YoungSteps
      <3>1. At(t, "metaData")
        BY <1>7 DEF SendMetaData
      <3> QED
        BY <1>1, <3>1, AtLeast DEF YoungSteps
    <2>3. t \in Connectors /\ Young(t)
      BY <1>2, <2>2
    <2>4. Todo(t) = {"metaData"}
      BY <1>1, <2>2, <2>3, LadderHead
    <2>5. PICK L \in {{"beginCapture", "connectDetach", "connectDone"},
                      {"signalDisconnected", "connectDetach", "connectDone"}} : Went(t, "metaData", L)
      BY <1>1, <1>7, ConnectMoves
    <2>6. L \cup (Todo(t) \ {"metaData"}) = L
      BY <2>4
    <2>7. /\ \A u \in Connectors \cup Enders \cup Retriers \cup {"user", "encoder"} :
                 Todo(u)' = IF u = t THEN L ELSE Todo(u)
          /\ \A u \in Senders : Todo(u)' \in {Todo(u), {"sendWait"}}
      BY <1>3, <2>2, <2>5, <2>6
    <2> QED
      BY <1>4, <2>1, <2>2, <2>3, <2>4, <2>7
  <1>8. ASSUME BeginCapture(t) PROVE PatientInv'
    <2> DEFINE L == {"beginActive", "beginSignal", "connectDetach", "connectDone"}
    <2>1. Least(t, "beginCapture") /\ "beginCapture" \in YoungSteps
      <3>1. At(t, "beginCapture")
        BY <1>8 DEF BeginCapture
      <3> QED
        BY <1>1, <3>1, AtLeast DEF YoungSteps
    <2>2. t \in Connectors /\ Young(t) /\ ~out.active
      BY <1>2, <2>1
    <2>3. Todo(t) = {"beginCapture", "connectDetach", "connectDone"}
      BY <1>1, <2>1, <2>2, LadderHead
    <2>4. /\ out' = [out EXCEPT !.dataActive = TRUE] /\ UNCHANGED plan
          /\ Went(t, "beginCapture", {"beginActive", "beginSignal"})
      BY <1>1, <1>8, <2>2, ConnectMoves DEF BeginCapture, front
    <2>5. {"beginActive", "beginSignal"} \cup (Todo(t) \ {"beginCapture"}) = L
      BY <2>3
    <2>6. /\ \A u \in Connectors \cup Enders \cup Retriers \cup {"user", "encoder"} :
                 Todo(u)' = IF u = t THEN L ELSE Todo(u)
          /\ \A u \in Senders : Todo(u)' \in {Todo(u), {"sendWait"}}
      BY <1>3, <2>1, <2>4, <2>5
    <2>7. ~out'.active /\ out'.dataActive /\ ~out'.reconnecting
      BY <1>1, <2>2, <2>4 DEF OutType
    <2>8. (\A x \in EndingSteps \cup Reconnects : x \notin L) /\ "beginActive" \in L
      BY DEF EndingSteps, Reconnects
    <2> HIDE DEF L
    <2>9. L \in Ladders
      BY DEF L
    <2> QED
      BY <1>1, <2>2, <2>4, <2>6, <2>7, <2>8, <2>9, PatientYoung
  <1>9. ASSUME BeginActive(t) PROVE PatientInv'
    <2> DEFINE L == {"beginSignal", "connectDetach", "connectDone"}
    <2>1. Least(t, "beginActive") /\ "beginActive" \in YoungSteps
      <3>1. At(t, "beginActive")
        BY <1>9 DEF BeginActive
      <3> QED
        BY <1>1, <3>1, AtLeast DEF YoungSteps
    <2>2. t \in Connectors /\ Young(t)
      BY <1>2, <2>1
    <2>3. Todo(t) = {"beginActive", "beginSignal", "connectDetach", "connectDone"}
      BY <1>1, <2>1, <2>2, LadderHead
    <2>4. /\ out'.active /\ ~out'.reconnecting /\ UNCHANGED <<encoding, plan>>
          /\ Went(t, "beginActive", {})
      BY <1>1, <1>9, ConnectMoves DEF BeginActive, front, OutType
    <2>5. {} \cup (Todo(t) \ {"beginActive"}) = L
      BY <2>3
    <2>6. /\ \A u \in Connectors \cup Enders \cup Retriers \cup {"user", "encoder"} :
                 Todo(u)' = IF u = t THEN L ELSE Todo(u)
          /\ \A u \in Senders : Todo(u)' \in {Todo(u), {"sendWait"}}
      BY <1>3, <2>1, <2>4, <2>5
    <2>7. ~Young(t)'
      BY <2>2, <2>6 DEF Young, YoungSteps
    <2>8. (\A x \in EndingSteps \cup Reconnects : x \notin L) /\ "beginActive" \notin L
      BY DEF EndingSteps, Reconnects
    <2> HIDE DEF L
    <2> QED
      BY <1>1, <2>2, <2>4, <2>6, <2>7, <2>8, PatientYoung
  <1> QED
    BY <1>5, <1>6, <1>7, <1>8, <1>9

(* obs_output_start *)
LEMMA PatientUserStart ==
    ASSUME Shape, Threaded, PatientInv, UserStart
    PROVE  PatientInv'
  <1>1. /\ \A u \in Threads : Todo(u)' = IF u = "user" THEN {"startWait", "start"} ELSE Todo(u)
    BY FrontMoves DEF Threaded, Became
  <1>2. UNCHANGED <<out, encoding>> /\ plan'.patient /\ plan'.retryMax = 0
    <2>1. UNCHANGED <<out, encoding>> /\ Spend("start")
      BY DEF UserStart
    <2> QED
      BY <2>1, PatientPlan DEF PatientInv, NoRetry
  <1>3. \A u \in Connectors \cup Senders \cup Enders \cup {"encoder"} : u \in Threads /\ u # "user" /\ Todo(u) = {}
    <2>1. \A u \in Connectors \cup Senders \cup Enders \cup {"encoder"} : Idle(u)
      BY DEF UserStart, Settled, PatientInv, Connectors, Senders, Enders
    <2>2. \A u \in Connectors \cup Senders \cup Enders \cup {"encoder"} : u \in Threads /\ u # "user"
      BY Pools DEF Connectors, Senders, Enders
    <2> QED
      BY <2>1, <2>2, IdleTodo DEF Threaded
  <1>4. \A u \in Retriers : u # "user" /\ u \in Threads /\ Todo(u) = {}
    BY Pools DEF PatientInv, NoRetry, Retriers
  <1>5. Todo("user")' = {"startWait", "start"} /\ \A u \in Threads \ {"user"} : Todo(u)' = {}
    BY <1>1, <1>3, <1>4, Pools
  <1>6. \A u \in Threads : ~Ending(u)' /\ ~Young(u)'
    BY <1>5 DEF Ending, Young, EndingSteps, YoungSteps
  <1>7. NoRetry'
    <2>1. \A u \in Threads : \A x \in Reconnects : x \notin Todo(u)'
      BY <1>5 DEF Reconnects
    <2> QED
      BY <1>2, <1>4, <1>5, <2>1 DEF NoRetry, PatientInv
  <1>8. Ladder' /\ YoungAlone' /\ BeganData' /\ StoppedFirst'
    <2>1. \A c \in Connectors : ~Young(c)' /\ "beginActive" \notin Todo(c)'
      BY <1>3, <1>5, <1>6
    <2>2. \A u \in Threads : "deactivate" \notin Todo(u)'
      BY <1>5
    <2> QED
      BY <2>1, <2>2 DEF Ladder, YoungAlone, BeganData, StoppedFirst
  <1>9. StartingAlone'
    <2>1. \A u \in Connectors \cup Senders : Todo(u)' = {}
      BY <1>3, <1>5
    <2>2. Todo("user")' \subseteq Starts /\ "startConnect" \notin Todo("user")'
      BY <1>5 DEF Starts
    <2>3. \A u \in Threads : "endSpawn" \notin Todo(u)'
      BY <1>5
    <2> QED
      BY <1>6, <2>1, <2>2, <2>3 DEF StartingAlone
  <1>10. Hooked'
    BY <1>2, <1>3 DEF PatientInv, Hooked
  <1> QED
    BY <1>2, <1>7, <1>8, <1>9, <1>10 DEF PatientInv

(* Without retries, no step of one is taken. *)
LEMMA RetriesNever ==
    ASSUME Threaded, NoRetry, NEW t \in Threads
    PROVE  ~Reconnect(t) /\ ~ReconnectSpawn(t) /\ ~RetryThread(t)
  <1>1. ~Reconnect(t) /\ ~ReconnectSpawn(t)
    BY AtLeast DEF Threaded, NoRetry, Reconnects, Reconnect, ReconnectSpawn, Least
  <1>2. ASSUME NEW x \in RetrySteps, At(t, x) PROVE FALSE
    BY <1>2, AtLeast, Owners DEF Threaded, NoRetry, Least
  <1>3. ~RetryThread(t)
    BY <1>2 DEF RetryThread, RetryBegin, RetryWait, RetryEnd, RetryDone, RetrySteps
  <1> QED
    BY <1>1, <1>3

LEMMA PatientStep ==
    ASSUME Shape, Threaded, PatientInv, [Next]_vars
    PROVE  PatientInv'
  <1>1. ASSUME NEW t \in Threads, Shared(t) PROVE PatientInv'
    <2>1. ~Reconnect(t) /\ ~ReconnectSpawn(t)
      BY RetriesNever DEF PatientInv
    <2>2. ASSUME NEW c \in Codes, SignalStop(t, c) PROVE PatientInv'
      BY <2>2, PatientQuiet
    <2>3. ASSUME EndCaptureInactive(t) \/ EndCaptureSignal(t) PROVE PatientInv'
      BY <2>3, PatientQuiet
    <2> QED
      BY <1>1, <2>1, <2>2, <2>3, PatientEndBegin, PatientEndOn, PatientEndSpawn DEF Shared
  <1>2. ASSUME NEW t \in Threads, EndThread(t) PROVE PatientInv'
    <2>1. ASSUME SignalStopped(t) \/ EndThreadDone(t) PROVE PatientInv'
      BY <2>1, PatientQuiet
    <2> QED
      BY <1>2, <2>1, PatientEndOn, PatientDeactivate DEF EndThread
  <1>3. ASSUME NEW t \in Threads, RetryThread(t) PROVE PatientInv'
    BY <1>3, RetriesNever DEF PatientInv
  <1>4. ASSUME NEW t \in Threads, Start(t) PROVE PatientInv'
    BY <1>4, PatientStartOn, PatientStartConnect DEF Start
  <1>5. ASSUME NEW t \in Threads, ConnectThread(t) PROVE PatientInv'
    <2>1. ASSUME BeginSignal(t) \/ ConnectDetach(t) \/ ConnectDone(t) PROVE PatientInv'
      BY <2>1, PatientQuiet
    <2> QED
      BY <1>5, <2>1, PatientConnect DEF ConnectThread
  <1>6. ASSUME NEW t \in Threads, SendThread(t) \/ Stop(t) \/ NullPacket(t) PROVE PatientInv'
    BY <1>6, PatientQuiet
  <1>7. ASSUME UserStop \/ UserForceStop \/ Packet \/ EncodeError \/ UNCHANGED vars PROVE PatientInv'
    BY <1>7, PatientQuietFront
  <1> QED
    BY <1>1, <1>2, <1>3, <1>4, <1>5, <1>6, <1>7, PatientUserStart DEF Next, Step

(* The plan of a session is not changed, its budget is. *)
LEMMA PlanSpent ==
    [Next]_vars => \/ UNCHANGED plan \/ Spend("stop") \/ Spend("fault")
                   \/ UserStart /\ Spend("start")
  <1> SUFFICES ASSUME [Next]_vars
               PROVE  \/ UNCHANGED plan \/ Spend("stop") \/ Spend("fault")
                      \/ UserStart /\ Spend("start")
    OBVIOUS
  <1>1. ASSUME NEW t \in Threads, Shared(t) \/ EndThread(t) \/ RetryThread(t)
        PROVE  UNCHANGED plan
    BY <1>1 DEF Shared, SignalStop, EndCaptureInactive, EndCaptureBegin, EndCaptureClear,
                EndCaptureJoin, EndCaptureSpawn, EndCaptureSignal, Reconnect, ReconnectSpawn,
                EndThread, StopEncoders, Deactivate, SignalStopped, EndThreadDone,
                RetryThread, RetryBegin, RetryWait, RetryEnd, RetryDone, front
  <1>2. ASSUME NEW t \in Threads, Start(t) \/ SendThread(t) \/ Stop(t) \/ NullPacket(t)
        PROVE  UNCHANGED plan \/ Spend("fault")
    BY <1>2 DEF Start, StartWait, StartCheck, StartConnect, Fails, front, NullPacket,
                SendThread, SendFinish, SendPacket, SendFail, SendEnd, SendCleanUp,
                Stop, ForceStop, CancelRetry, JoinRetry, RtmpStop, RtmpSignal
  <1>3. ASSUME NEW t \in Threads, ConnectThread(t) PROVE UNCHANGED plan \/ Spend("fault")
    BY <1>3 DEF ConnectThread, InitConnect, TryConnect, SendMetaData, BeginCapture, BeginActive,
                BeginSignal, ConnectDetach, ConnectDone, Fails, front
  <1>4. ASSUME UserStop \/ UserForceStop \/ Packet \/ EncodeError \/ UNCHANGED vars
        PROVE  UNCHANGED plan \/ Spend("stop") \/ Spend("fault")
    BY <1>4 DEF UserStop, UserForceStop, Packet, EncodeError, Fails, vars, front
  <1>5. UserStart => Spend("start")
    BY DEF UserStart
  <1> QED
    BY <1>1, <1>2, <1>3, <1>4, <1>5 DEF Next, Step

LEMMA PatientInit ==
    ASSUME Init, plan.patient, plan.retryMax = 0
    PROVE  PatientInv
  <1>1. \A t \in Threads : Todo(t) = {}
    BY Words DEF Init, Todo
  <1>2. Connectors \cup Senders \cup Retriers \subseteq Threads /\ "user" \in Threads
    BY Pools
  <1>3. (\A t \in Threads : ~Young(t) /\ ~Ending(t)) /\ ~Starting
    BY <1>1, <1>2 DEF Young, Ending, Starting
  <1>4. ~out.reconnecting /\ encoding = {}
    BY DEF Init
  <1> QED
    BY <1>1, <1>2, <1>3, <1>4
       DEF PatientInv, NoRetry, Ladder, YoungAlone, BeganData, StartingAlone, StoppedFirst, Hooked

LEMMA PatientKept ==
    /\ Init => (plan.patient /\ plan.retryMax = 0 => PatientInv)
    /\ Shape /\ Threaded /\ (plan.patient /\ plan.retryMax = 0 => PatientInv) /\ [Next]_vars
           => (plan.patient /\ plan.retryMax = 0 => PatientInv)'
  <1>1. Shape /\ [Next]_vars => plan'.patient = plan.patient /\ plan'.retryMax = plan.retryMax
    <2> SUFFICES ASSUME Shape, [Next]_vars
                 PROVE  plan'.patient = plan.patient /\ plan'.retryMax = plan.retryMax
      OBVIOUS
    <2>1. UNCHANGED plan \/ Spend("stop") \/ Spend("fault") \/ Spend("start")
      BY PlanSpent
    <2> QED
      BY <2>1, Spending DEF Shape
  <1> QED
    BY <1>1, PatientInit, PatientStep

(* end_data_capture_thread stops the encoders of the capture it ends, and no *)
(* other: in any number of sessions whose frontend waits for the threads of  *)
(* the last one, and which are not retried, encoders are hooked only for an  *)
(* output that is active or is just about to be.                             *)
THEOREM NoOrphans == Spec => [](plan.patient /\ plan.retryMax = 0 => NoOrphanEncoders)
  <1> DEFINE P == plan.patient /\ plan.retryMax = 0
  <1>1. Init => Shape /\ Threaded
    BY TypeInit, TypeParts
  <1>2. PatientInv /\ Threaded => NoOrphanEncoders
    <2> SUFFICES ASSUME PatientInv, Threaded, encoding # {}, ~out.active
                 PROVE  out.dataActive /\ \E t \in Threads : Pending(t, {"beginActive"})
      BY DEF NoOrphanEncoders
    <2>1. PICK c \in Connectors : "beginActive" \in Todo(c)
      BY DEF PatientInv, Hooked
    <2>2. c \in Threads /\ Pending(c, {"beginActive"})
      BY <2>1, Pools DEF Todo, InStack, Pending
    <2> QED
      BY <2>1, <2>2 DEF PatientInv, BeganData
  <1>3. (Shape /\ Threaded) /\ [Next]_vars => (Shape /\ Threaded)'
    BY ShapeStep, ThreadedStep
  <1> QED
    BY <1>1, <1>2, <1>3, PatientKept, PTL DEF Spec

-----------------------------------------------------------------------------
(* One session without retries: any number of stops and failures. *)
OneSession == plan.start <= 1 /\ plan.retryMax = 0

(* The session has not begun, or the frontend is at its start. *)
Fresh == plan.start > 0 \/ Starting

Blank ==
    /\ ~out.active /\ ~out.dataActive /\ ~out.stopping /\ ~out.ending /\ out.stopCode = "SUCCESS"
    /\ ~rtmp.active /\ ~rtmp.stopEvent /\ ~rtmp.encodeError /\ rtmp.packets = 0
    /\ encoding = {} /\ cause = {} /\ told = <<>>
    /\ \A k \in Kinds : handle[k] = None

(* Nothing has happened to the output before its start. *)
FreshBlank == Fresh =>
    /\ Blank
    /\ \A t \in Threads \ {"user"} : Todo(t) = {}
    /\ plan.start > 0 => phase = "off" /\ Todo("user") = {}
    /\ Starting => phase # "off" /\ Todo("user") \subseteq Starts

(* No kind of thread is started twice. *)
OneEach == \A k \in Kinds : \A t \in Pool[k] : Todo(t) # {} => handle[k] = t

(* What is left of the send thread. *)
Clearing == {"endClear", "endJoin", "endSpawn"}
SendLadder == \A s \in Senders :
    /\ "sendWait" \in Todo(s) => Todo(s) = {"sendWait"}
    /\ "sendEnd" \in Todo(s) => Todo(s) = {"sendEnd"}
    /\ (\E x \in Clearing : x \in Todo(s)) => \A x \in Signals \cup {"endCapture"} : x \notin Todo(s)

(* Whoever has one of these pending has found no connection in progress. *)
Late == Signals \cup Clearing \cup {"endCapture", "endSignal", "rtmpSignal", "rtmpSignalNow"}

(* The connect thread, up to the moment the output is active: a stop waits  *)
(* for it, and nothing can fail but itself.                                 *)
Undisturbed(c) ==
    /\ rtmp.connecting /\ c \notin detached
    /\ ~out.active /\ ~rtmp.stopEvent /\ rtmp.packets = 0 /\ handle["end"] = None
    /\ \A s \in Senders : Todo(s) \subseteq {"sendWait"}
    /\ \A t \in Threads : \A x \in Late : x \notin Todo(t)
    /\ \A x \in {"initConnect", "connect"} : x \in Todo(c) => handle["send"] = None
    /\ "connect" \notin Todo(c) => rtmp.active /\ \E s \in Senders : "sendWait" \in Todo(s)
    /\ "beginActive" \notin Todo(c) =>
           ~out.dataActive /\ encoding = {} /\ Todo("encoder") = {} /\ phase # "off"

YoungQuiet == \A c \in Connectors : Young(c) => Undisturbed(c)

(* Of all threads that signal a stop only the send thread ends a capture. *)
Foreign == \A t \in Threads \ Senders :
    /\ \A x \in Signals \cup {"endCapture"} : x \in Todo(t) => ~out.dataActive
    /\ \A x \in Clearing : x \notin Todo(t)

(* The send thread lives as long as there is a capture to end. *)
Keepers == Signals \cup {"sendWait", "sendEnd", "endCapture", "endClear"}
Kept == /\ handle["send"] = None => ~rtmp.active
        /\ ~rtmp.active => ~out.dataActive
        /\ out.dataActive => \E s \in Senders : \E x \in Keepers : x \in Todo(s)

Begun == out.dataActive /\ ~out.active => \E c \in Connectors : "beginActive" \in Todo(c)

(* The capture is ended once. *)
EndOnce == /\ handle["end"] = None => ~out.ending
           /\ handle["end"] # None =>
                  ~out.dataActive /\ \A t \in Threads : \A x \in Clearing : x \notin Todo(t)

OneInv == /\ OneSession /\ NoRetry /\ ~out.reconnectThread
          /\ FreshBlank /\ OneEach /\ Ladder /\ SendLadder /\ YoungQuiet /\ Foreign /\ Kept /\ Begun
          /\ EndOnce

Blamed == ~(cause \subseteq {"server"} \/ cause \subseteq {"settings"})

EmittingSteps == Signals \cup Clearing \cup {"endCapture", "endSignal"}
Emitting(t) == \E x \in EmittingSteps : x \in Todo(t)

Who == [DISCONNECTED |-> "server", CONNECT_FAILED |-> "server", ENCODE_ERROR |-> "encoder",
        BAD_PATH |-> "settings"]

(* A code is nowhere to be seen unless its cause has come about. *)
Unheard == \A c \in DOMAIN Who : Who[c] \notin cause =>
    /\ out.stopCode # c /\ \A i \in DOMAIN told : told[i] # c
    /\ \A t \in Threads : SignalStopOf[c] \notin Todo(t)

Sources == /\ "encoder" \notin cause => ~rtmp.encodeError /\ Todo("encoder") = {}
           /\ \A s \in Senders : "sendEnd" \in Todo(s) => rtmp.stopEvent \/ "server" \in cause

(* Without a stop by the frontend or an encoder error one thread at most    *)
(* signals a stop, and it has a code to signal.                             *)
Alone ==
    /\ Todo("user") \subseteq Starts /\ ~rtmp.stopEvent
    /\ \A i \in DOMAIN told : told[i] # "SUCCESS"
    /\ \A t \in Threads : "signalSuccess" \notin Todo(t)
    /\ "server" \notin cause => \A s \in Senders : Todo(s) \subseteq {"sendWait"}
    /\ \A s \in Senders : "sendEnd" \in Todo(s) => \A t \in Threads : ~Emitting(t)
    /\ \A t \in Threads : Emitting(t) => cause # {}
    /\ \A t, u \in Threads : Emitting(t) /\ Emitting(u) => t = u
    /\ \A t \in Threads : Emitting(t) /\ (\A x \in Signals : x \notin Todo(t)) => out.stopCode # "SUCCESS"
    /\ cause # {} => ~Starting /\ (\A c \in Connectors : ~Young(c)) 
    /\ cause # {} => \A s \in Senders : "sendWait" \in Todo(s) => rtmp.packets = 0 /\ ~out.active

BlameInv == Unheard /\ Sources /\ (~Blamed => Alone)

(* Thread t has done a step, and gets no steps but those of S. *)
Moved(t, S) == /\ \A u \in Threads \ {t} : Todo(u)' = Todo(u)
               /\ \A x \in Todo(t)' : x \in Todo(t) \/ x \in S

(* A step of a session that has begun, which starts no thread. *)
Inside(t, S) ==
    /\ Moved(t, S) /\ S \cap (Starts \cup Reconnects) = {}
    /\ Todo(t) # {} \/ t \in {"user", "encoder"}
    /\ t \notin Retriers /\ ~Fresh
    /\ UNCHANGED handle /\ plan'.start = plan.start /\ plan'.retryMax = plan.retryMax
    /\ ~out'.reconnecting /\ ~out'.reconnectThread

LEMMA WentMoved ==
    ASSUME NEW t \in Threads, NEW h, NEW S, Went(t, h, S)
    PROVE  Moved(t, S) /\ h \in Todo(t) /\ Todo(t)' = S \cup (Todo(t) \ {h})
  BY DEF Went, Least, Moved

LEMMA NotFresh ==
    ASSUME OneInv, NEW t \in Threads, NEW h, h \in Todo(t), h \notin Starts
    PROVE  ~Fresh
  <1> SUFFICES ASSUME Fresh PROVE FALSE
    OBVIOUS
  <1>1. t = "user"
    BY DEF OneInv, FreshBlank
  <1> QED
    BY <1>1 DEF OneInv, FreshBlank, Fresh

LEMMA StillBegun ==
    ASSUME NEW t \in Threads, NEW S, Moved(t, S), S \cap Starts = {}, ~Fresh, plan'.start = plan.start
    PROVE  ~Fresh'
  <1>1. "user" \in Threads
    BY Pools
  <1>2. Starting' => Starting
    BY <1>1 DEF Moved, Starting
  <1> QED
    BY <1>2 DEF Fresh

LEMMA OneBasics ==
    ASSUME OneInv, NEW t \in Threads, NEW S, Inside(t, S)
    PROVE  OneSession' /\ NoRetry' /\ ~out'.reconnectThread /\ FreshBlank' /\ OneEach'
  <1>1. Retriers \subseteq Threads
    BY Pools
  <1>2. OneSession' /\ ~out'.reconnectThread
    BY DEF OneInv, OneSession, Inside
  <1>3. NoRetry'
    <2>1. \A u \in Retriers : Todo(u)' = {}
      BY <1>1 DEF OneInv, NoRetry, Inside, Moved
    <2>2. \A u \in Threads : \A x \in Reconnects : x \notin Todo(u)'
      BY DEF OneInv, NoRetry, Inside, Moved
    <2> QED
      BY <1>2, <2>1, <2>2 DEF NoRetry, OneSession, Inside
  <1>4. FreshBlank'
    <2>1. ~Fresh'
      BY StillBegun DEF Inside
    <2> QED
      BY <2>1 DEF FreshBlank
  <1>5. OneEach'
    <2> SUFFICES ASSUME NEW k \in Kinds, NEW u \in Pool[k], Todo(u)' # {} PROVE handle'[k] = u
      BY DEF OneEach, Pool
    <2>1. u \in Threads /\ u \notin {"user", "encoder"}
      BY Pools
    <2>2. Todo(u) # {}
      BY <2>1 DEF Inside, Moved
    <2> QED
      BY <2>2 DEF OneInv, OneEach, Inside
  <1> QED
    BY <1>2, <1>3, <1>4, <1>5

(* There is one connect thread, and one send thread. *)
LEMMA OneOfAKind ==
    ASSUME OneInv
    PROVE  /\ \A c, d \in Connectors : Young(c) /\ Todo(d) # {} => d = c
           /\ \A s, u \in Senders : Todo(s) # {} /\ Todo(u) # {} => u = s
           /\ \A c \in Connectors : Todo(c) # {} => handle["connect"] = c
           /\ \A s \in Senders : Todo(s) # {} => handle["send"] = s
           /\ \A e \in Enders : Todo(e) # {} => handle["end"] = e
  <1>1. /\ \A c \in Connectors : Todo(c) # {} => handle["connect"] = c
        /\ \A s \in Senders : Todo(s) # {} => handle["send"] = s
        /\ \A e \in Enders : Todo(e) # {} => handle["end"] = e
    BY Pools DEF OneInv, OneEach
  <1>2. \A c \in Connectors : Young(c) => Todo(c) # {}
    BY DEF Young
  <1> QED
    BY <1>1, <1>2

(* When no connect thread has the beginning of a capture ahead of it. *)
NoYoung == \A c \in Connectors : ~Young(c)

LEMMA NoYoungKept ==
    ASSUME NoYoung, NEW t \in Threads, NEW S, Moved(t, S), S \cap YoungSteps = {}
    PROVE  NoYoung'
  <1>1. Connectors \subseteq Threads
    BY Pools
  <1> QED
    BY <1>1 DEF NoYoung, Young, Moved

LEMMA NoYoungParts ==
    ASSUME NoYoung
    PROVE  Ladder /\ YoungQuiet /\ ((out.dataActive => out.active) => Begun)
  BY DEF NoYoung, Ladder, YoungQuiet, Begun

LEMMA NoYoungData ==
    ASSUME OneInv, NoYoung
    PROVE  out.dataActive => out.active
  <1>1. \A c \in Connectors : "beginActive" \notin Todo(c)
    BY DEF NoYoung, Young, YoungSteps
  <1> QED
    BY <1>1 DEF OneInv, Begun

LEMMA LateNoYoung ==
    ASSUME OneInv, NEW t \in Threads, NEW h \in Late, h \in Todo(t)
    PROVE  NoYoung
  BY DEF OneInv, YoungQuiet, Undisturbed, NoYoung

(* A step of a thread that is no send thread, after or apart from the       *)
(* connection: what it leaves of the invariant.                             *)
LEMMA OneOther ==
    ASSUME OneInv, NEW t \in Threads \ Senders, NEW S, Inside(t, S),
           S \cap Clearing = {},
           (\E x \in Signals \cup {"endCapture"} : x \in S) => ~out.dataActive,
           out'.dataActive = out.dataActive, rtmp'.active = rtmp.active,
           out'.ending => out.ending
    PROVE  SendLadder' /\ Foreign' /\ Kept' /\ EndOnce'
  <1>1. Senders \subseteq Threads /\ \A s \in Senders : Todo(s)' = Todo(s)
    <2>1. Senders \subseteq Threads
      BY Pools
    <2> QED
      BY <2>1 DEF Inside, Moved
  <1>2. SendLadder'
    BY <1>1 DEF OneInv, SendLadder
  <1>3. Foreign'
    <2>1. \A u \in Threads : \A x \in Clearing : x \in Todo(u)' => x \in Todo(u)
      BY DEF Inside, Moved
    <2>2. \A u \in Threads \ Senders : \A x \in Signals \cup {"endCapture"} :
              x \in Todo(u)' => x \in Todo(u) \/ ~out.dataActive
      BY DEF Inside, Moved
    <2> QED
      BY <2>1, <2>2 DEF OneInv, Foreign
  <1>4. Kept'
    <2>1. UNCHANGED handle
      BY DEF Inside
    <2> QED
      BY <1>1, <2>1 DEF OneInv, Kept
  <1>5. EndOnce'
    <2>1. \A u \in Threads : \A x \in Clearing : x \in Todo(u)' => x \in Todo(u)
      BY DEF Inside, Moved
    <2>2. UNCHANGED handle
      BY DEF Inside
    <2> QED
      BY <2>1, <2>2 DEF OneInv, EndOnce
  <1> QED
    BY <1>2, <1>3, <1>4, <1>5

(* The same without a connect thread that is at work: all of the invariant. *)
LEMMA OneLater ==
    ASSUME OneInv, NEW t \in Threads \ Senders, NEW S, Inside(t, S), NoYoung',
           S \cap Clearing = {},
           (\E x \in Signals \cup {"endCapture"} : x \in S) => ~out.dataActive,
           out'.dataActive = out.dataActive, rtmp'.active = rtmp.active,
           out'.ending => out.ending, out'.dataActive => out'.active
    PROVE  OneInv'
  <1>1. OneSession' /\ NoRetry' /\ ~out'.reconnectThread /\ FreshBlank' /\ OneEach'
    BY OneBasics
  <1>2. SendLadder' /\ Foreign' /\ Kept' /\ EndOnce'
    BY OneOther
  <1>3. Ladder' /\ YoungQuiet' /\ Begun'
    BY DEF NoYoung, Ladder, YoungQuiet, Begun
  <1> QED
    BY <1>1, <1>2, <1>3 DEF OneInv

(* A step of the send thread, once the connection is made. *)
LEMMA OneSender ==
    ASSUME OneInv, NEW s \in Senders, NEW S, Inside(s, S), NoYoung, S \cap YoungSteps = {},
           "sendWait" \notin Todo(s)',
           "sendEnd" \in Todo(s)' => Todo(s)' = {"sendEnd"},
           (\E x \in Clearing : x \in Todo(s)') =>
               handle["end"] = None /\ \A x \in Signals \cup {"endCapture"} : x \notin Todo(s)',
           out'.dataActive => out.dataActive /\ rtmp'.active /\ \E x \in Keepers : x \in Todo(s)',
           rtmp'.active => rtmp.active, out'.active = out.active, out'.ending = out.ending
    PROVE  OneInv'
  <1>1. OneSession' /\ NoRetry' /\ ~out'.reconnectThread /\ FreshBlank' /\ OneEach'
    <2>1. s \in Threads
      BY Pools
    <2> QED
      BY <2>1, OneBasics
  <1>2. \A u \in Threads : u # s => Todo(u)' = Todo(u)
    BY DEF Inside, Moved
  <1>3. Senders \subseteq Threads /\ UNCHANGED handle
    BY Pools DEF Inside
  <1>4. Ladder' /\ YoungQuiet' /\ Begun'
    <2>1. NoYoung'
      BY <1>3, NoYoungKept DEF Inside
    <2>2. out'.dataActive => out'.active
      BY NoYoungData
    <2> QED
      BY <2>1, <2>2 DEF NoYoung, Ladder, YoungQuiet, Begun
  <1>5. SendLadder'
    BY <1>2, <1>3 DEF OneInv, SendLadder
  <1>6. Foreign'
    BY <1>2 DEF OneInv, Foreign
  <1>7. Kept'
    BY <1>3 DEF OneInv, Kept
  <1>8. EndOnce'
    BY <1>2, <1>3 DEF OneInv, EndOnce
  <1> QED
    BY <1>1, <1>4, <1>5, <1>6, <1>7, <1>8 DEF OneInv

(* A state in which only the frontend is at work. *)
Untroubled ==
    /\ \A t \in Threads \ {"user"} : Todo(t) = {}
    /\ Todo("user") \subseteq Starts
    /\ ~out.active /\ ~out.dataActive /\ ~out.ending /\ ~rtmp.active
    /\ \A k \in Kinds : handle[k] = None

LEMMA UntroubledParts ==
    Untroubled => /\ OneEach /\ Ladder /\ SendLadder /\ YoungQuiet /\ Foreign /\ Kept /\ Begun
                  /\ EndOnce /\ NoYoung
  <1> SUFFICES ASSUME Untroubled
               PROVE  /\ OneEach /\ Ladder /\ SendLadder /\ YoungQuiet /\ Foreign /\ Kept /\ Begun
                      /\ EndOnce /\ NoYoung
    OBVIOUS
  <1>1. \A t \in Threads \ {"user"} : Todo(t) = {}
    BY DEF Untroubled
  <1>2. NoYoung /\ \A c \in Connectors : Todo(c) = {}
    <2>1. \A c \in Connectors : c \in Threads \ {"user"}
      BY Pools DEF Connectors
    <2> QED
      BY <1>1, <2>1 DEF NoYoung, Young
  <1>3. Ladder /\ YoungQuiet /\ Begun
    BY <1>2 DEF Untroubled, NoYoung, Ladder, YoungQuiet, Begun
  <1>4. OneEach
    <2>1. \A k \in Kinds : \A t \in Pool[k] : t \in Threads \ {"user"}
      BY Pools
    <2> QED
      BY <1>1, <2>1 DEF OneEach
  <1>5. \A t \in Threads : \A x \in Clearing \cup Signals \cup {"endCapture"} : x \notin Todo(t)
    <2>1. \A x \in Clearing \cup Signals \cup {"endCapture"} : x \notin Starts
      BY DEF Clearing, Signals, Starts
    <2> QED
      BY <1>1, <2>1 DEF Untroubled
  <1>6. SendLadder
    <2>1. \A s \in Senders : s \in Threads \ {"user"}
      BY Pools DEF Senders
    <2> QED
      BY <1>1, <2>1 DEF SendLadder
  <1>7. Foreign /\ EndOnce
    BY <1>5 DEF Foreign, EndOnce, Untroubled
  <1>8. Kept
    BY Pools DEF Kept, Untroubled
  <1> QED
    BY <1>2, <1>3, <1>4, <1>6, <1>7, <1>8

LEMMA UntroubledNext ==
    Untroubled' => /\ OneEach' /\ Ladder' /\ SendLadder' /\ YoungQuiet' /\ Foreign' /\ Kept' /\ Begun'
                   /\ EndOnce'
  BY UntroubledParts, PTL

LEMMA FreshUntroubled ==
    ASSUME Shape, OneInv, Fresh
    PROVE  /\ Untroubled /\ Blank /\ (Starting => plan.start = 0 /\ phase # "off")
           /\ plan.start > 0 => plan.start = 1 /\ Todo("user") = {}
  <1>1. FreshBlank /\ plan.start <= 1 /\ plan.start \in Nat
    BY DEF OneInv, OneSession, Shape, FrontOK, PlanType
  <1>2. Starting => ~(plan.start > 0)
    BY <1>1 DEF FreshBlank, Fresh, Starting
  <1> QED
    BY <1>1, <1>2 DEF FreshBlank, Fresh, Untroubled, Blank

(* What a step of the start does not touch. *)
LEMMA StartSame ==
    ASSUME Shape, OneInv, Fresh, NEW T, T \cap Reconnects = {}, T \subseteq Starts,
           \A u \in Threads : Todo(u)' = IF u = "user" THEN T ELSE Todo(u),
           UNCHANGED <<rtmp, encoding, handle>>, UNCHANGED out,
           plan'.start = 0, plan'.retryMax = plan.retryMax,
           T # {} => UNCHANGED cause /\ told' = <<>> /\ phase' # "off"
    PROVE  OneInv'
  <1>1. Untroubled /\ Blank
    BY FreshUntroubled
  <1>2. "user" \in Threads /\ Retriers \subseteq Threads /\ "user" \notin Retriers
    BY Pools DEF Retriers
  <1>3. Untroubled'
    BY <1>1, <1>2 DEF Untroubled
  <1>4. OneSession' /\ NoRetry' /\ ~out'.reconnectThread
    <2>1. NoRetry'
      BY <1>2 DEF OneInv, NoRetry
    <2> QED
      BY <2>1 DEF OneInv, OneSession
  <1>5. FreshBlank'
    <2> SUFFICES ASSUME Fresh' PROVE FreshBlank'
      BY DEF FreshBlank
    <2>1. T # {}
      BY <1>2 DEF Fresh, Starting
    <2>2. Blank'
      BY <1>1, <2>1 DEF Blank
    <2> QED
      BY <1>2, <1>3, <2>1, <2>2 DEF FreshBlank, Untroubled
  <1> QED
    BY <1>3, <1>4, <1>5, UntroubledNext DEF OneInv

LEMMA OneUserStart ==
    ASSUME Shape, Threaded, OneInv, UserStart
    PROVE  OneInv'
  <1>1. Became("user", {"startWait", "start"})
    BY FrontMoves DEF Threaded
  <1>2. /\ plan'.start = plan.start - 1 /\ plan'.retryMax = plan.retryMax /\ plan.start > 0
        /\ plan.start \in Nat
    BY Spending DEF UserStart, Shape, FrontOK, PlanType
  <1>3. Fresh /\ plan'.start = 0
    BY <1>2 DEF Fresh, OneInv, OneSession
  <1>4. Blank
    BY <1>3, FreshUntroubled
  <1>5. /\ UNCHANGED <<rtmp, encoding, handle, out>> /\ told' = <<>> /\ cause' = {} /\ phase' # "off"
    BY DEF UserStart
  <1>6. UNCHANGED cause
    BY <1>4, <1>5 DEF Blank
  <1>7. {"startWait", "start"} \cap Reconnects = {} /\ {"startWait", "start"} \subseteq Starts
    BY DEF Reconnects, Starts
  <1>8. \A u \in Threads : Todo(u)' = IF u = "user" THEN {"startWait", "start"} ELSE Todo(u)
    BY <1>1 DEF Became
  <1> QED
    BY <1>2, <1>3, <1>5, <1>6, <1>7, <1>8, StartSame

LEMMA OneStartOn ==
    ASSUME Shape, Threaded, OneInv, NEW t \in Threads, StartWait(t) \/ StartCheck(t)
    PROVE  OneInv'
  <1>1. \E h \in {"startWait", "start"} : \E S \in {{}, {"startConnect"}} : Went(t, h, S)
    BY StartMoves DEF Threaded
  <1>2. PICK h \in {"startWait", "start"}, S \in {{}, {"startConnect"}} : Went(t, h, S)
    BY <1>1
  <1>3. h \in Todo(t) /\ Todo(t)' = S \cup (Todo(t) \ {h}) /\ Moved(t, S)
        /\ \A x \in Todo(t) \ {h} : Rank(h) < Rank(x)
    BY <1>2, WentMoved DEF Went, Least
  <1>4. t = "user" /\ Starting /\ "user" \in Threads
    <2>1. h \in Starts
      BY DEF Starts
    <2> QED
      BY <1>3, <2>1, Owners, Pools DEF OneInv, NoRetry, Starting
  <1>5. Fresh /\ Untroubled /\ Blank /\ plan.start = 0 /\ phase # "off"
    BY <1>4, FreshUntroubled DEF Fresh
  <1>6. \A u \in Threads : Todo(u)' = IF u = "user" THEN S \cup (Todo(t) \ {h}) ELSE Todo(u)
    BY <1>3, <1>4 DEF Moved
  <1>7. /\ (S \cup (Todo(t) \ {h})) \cap Reconnects = {}
        /\ S \cup (Todo(t) \ {h}) \subseteq Starts
    BY <1>4, <1>5 DEF Untroubled, Reconnects, Starts
  <1>8. plan'.start = plan.start /\ plan'.retryMax = plan.retryMax
    <2>1. UNCHANGED plan \/ Fails("settings")
      BY DEF StartWait, StartCheck, front
    <2> QED
      BY <2>1, Failing DEF Shape
  <1>9. UNCHANGED <<rtmp, encoding, handle>> /\ UNCHANGED out
    <2>1. out' = [out EXCEPT !.stopCode = "SUCCESS"] => UNCHANGED out
      BY <1>5 DEF Blank, Shape, OutOK, OutType
    <2> QED
      BY <2>1 DEF StartWait, StartCheck
  <1>10. CASE StartWait(t)
    <2>1. UNCHANGED <<cause, told, phase>>
      BY <1>10 DEF StartWait, front
    <2> QED
      BY <1>5, <1>6, <1>7, <1>8, <1>9, <2>1, StartSame DEF Blank
  <1>11. CASE StartCheck(t)
    <2>1. CASE UNCHANGED <<phase, cause, plan>>
      <3>1. UNCHANGED told
        BY <1>11 DEF StartCheck
      <3> QED
        BY <1>5, <1>6, <1>7, <1>8, <1>9, <2>1, <3>1, StartSame DEF Blank
    <2>2. CASE Went(t, "start", {})
      <3>1. Rank("startWait") = 5 /\ Rank("start") = 6 /\ Rank("startConnect") = 6
        BY DEF Rank, Signals
      <3>2. /\ "start" \in Todo(t) /\ \A x \in Todo(t) \ {"start"} : Rank("start") < Rank(x)
            /\ Todo(t)' = Todo(t) \ {"start"}
        BY <2>2, WentMoved DEF Went, Least
      <3>3. Todo(t)' = {}
        BY <1>4, <1>5, <3>1, <3>2 DEF Untroubled, Starts
      <3>4. \A u \in Threads : Todo(u)' = IF u = "user" THEN {} ELSE Todo(u)
        BY <1>3, <1>4, <3>3 DEF Moved
      <3> QED
        BY <1>5, <1>8, <1>9, <3>4, StartSame
    <2> QED
      BY <1>11, <2>1, <2>2, StartMoves DEF Threaded
  <1> QED
    BY <1>10, <1>11

LEMMA OneStartConnect ==
    ASSUME Shape, Threaded, OneInv, NEW t \in Threads, StartConnect(t)
    PROVE  OneInv'
  <1> DEFINE E == {"initConnect", "connect"}
  <1>1. PICK c \in Connectors : /\ Forked(t, "startConnect", {}, c, E)
                                /\ handle' = [handle EXCEPT !["connect"] = c] /\ detached' = detached \ {c}
    BY StartMoves DEF Threaded
  <1>2. /\ UNCHANGED <<out, encoding, phase, told, cause, plan>>
        /\ rtmp' = [rtmp EXCEPT !.connecting = TRUE]
    BY DEF StartConnect, front
  <1>3. Connectors \cup Senders \cup Retriers \subseteq Threads /\ "user" \in Threads /\ c \in Threads
        /\ c # "user" /\ c \notin Retriers /\ c \notin Senders
    BY Pools DEF Connectors, Retriers, Senders
  <1>4. /\ "startConnect" \in Todo(t)
        /\ \A x \in Todo(t) \ {"startConnect"} : Rank("startConnect") < Rank(x)
    BY <1>1 DEF Forked, Least
  <1>5. /\ Todo(t)' = Todo(t) \ {"startConnect"}
        /\ Todo(c)' = E /\ Todo(c) = {} /\ c # t
        /\ \A u \in Threads \ {t, c} : Todo(u)' = Todo(u)
    <2>1. Todo(t)' = {} \cup (Todo(t) \ {"startConnect"})
      BY <1>1, <1>3, OthersForked
    <2> QED
      BY <1>1, <1>3, <2>1, OthersForked
  <1>6. t = "user" /\ Starting
    BY <1>4, Owners DEF Starts, OneInv, NoRetry, Starting
  <1>7. Fresh /\ Untroubled /\ Blank /\ plan.start = 0 /\ phase # "off"
    BY <1>6, FreshUntroubled DEF Fresh
  <1>8. Todo("user")' = {}
    <2>1. Rank("startConnect") = 6 /\ Rank("start") = 6 /\ Rank("startWait") = 5
      BY DEF Rank, Signals
    <2> QED
      BY <1>4, <1>5, <1>6, <1>7, <2>1 DEF Untroubled, Starts
  <1>9. \A u \in Threads : Todo(u)' = IF u = c THEN E ELSE {}
    BY <1>5, <1>6, <1>7, <1>8 DEF Untroubled
  <1>10. OneSession' /\ NoRetry' /\ ~out'.reconnectThread
    <2>1. E \cap Reconnects = {}
      BY DEF Reconnects
    <2> QED
      BY <1>2, <1>3, <1>9, <2>1 DEF OneInv, OneSession, NoRetry
  <1>11. FreshBlank'
    <2>1. ~Fresh'
      BY <1>2, <1>7, <1>8 DEF Fresh, Starting
    <2> QED
      BY <2>1 DEF FreshBlank
  <1>12. handle'["connect"] = c /\ \A k \in Kinds \ {"connect"} : handle'[k] = None
    BY <1>1, <1>7, Pools DEF Untroubled, Threaded, Handles
  <1>13. OneEach'
    <2> SUFFICES ASSUME NEW k \in Kinds, NEW u \in Pool[k], Todo(u)' # {} PROVE handle'[k] = u
      BY DEF OneEach, Pool
    <2>1. u = c
      BY <1>9, Pools
    <2>2. k = "connect"
      BY <2>1, Pools
    <2> QED
      BY <1>12, <2>1, <2>2
  <1>14. Ladder' /\ SendLadder'
    <2>1. Ladder'
      BY <1>3, <1>9 DEF Ladder, Young
    <2>2. SendLadder'
      BY <1>3, <1>9 DEF SendLadder
    <2> QED
      BY <2>1, <2>2
  <1>15. \A x \in Late \cup Clearing \cup Signals \cup {"endCapture"} : x \notin E
    BY DEF Late, Clearing, Signals
  <1>16. YoungQuiet'
    <2> SUFFICES ASSUME NEW d \in Connectors, Young(d)' PROVE Undisturbed(d)'
      BY DEF YoungQuiet
    <2>1. d = c
      BY <1>3, <1>9 DEF Young
    <2>2. rtmp'.connecting /\ d \notin detached' /\ ~rtmp'.stopEvent /\ rtmp'.packets = 0
      BY <1>1, <1>2, <1>7, <2>1 DEF Blank, Shape, RtmpOK, RtmpType
    <2>3. ~out'.active /\ ~out'.dataActive /\ encoding' = {} /\ phase' # "off"
      BY <1>2, <1>7 DEF Blank
    <2>4. handle'["end"] = None /\ handle'["send"] = None
      BY <1>12, Pools
    <2>5. /\ \A s \in Senders : Todo(s)' \subseteq {"sendWait"}
          /\ Todo("encoder")' = {} /\ "connect" \in Todo(d)'
      <3>1. \A s \in Senders : Todo(s)' = {}
        BY <1>3, <1>9
      <3>2. "encoder" \in Threads /\ "encoder" # c
        BY Pools DEF Connectors
      <3>3. Todo("encoder")' = {}
        BY <1>9, <3>2
      <3>4. "connect" \in Todo(d)'
        BY <1>3, <1>9, <2>1
      <3> QED
        BY <3>1, <3>3, <3>4
    <2>6. \A u \in Threads : \A x \in Late : x \notin Todo(u)'
      BY <1>9, <1>15
    <2> QED
      BY <2>2, <2>3, <2>4, <2>5, <2>6 DEF Undisturbed
  <1>17. Foreign' /\ EndOnce'
    <2>1. \A u \in Threads : \A x \in Clearing \cup Signals \cup {"endCapture"} : x \notin Todo(u)'
      BY <1>9, <1>15
    <2>2. ~out'.ending /\ handle'["end"] = None
      BY <1>2, <1>7, <1>12, Pools DEF Blank
    <2> QED
      BY <2>1, <2>2 DEF Foreign, EndOnce
  <1>18. Kept' /\ Begun'
    <2>1. ~rtmp'.active /\ ~out'.dataActive
      BY <1>2, <1>7 DEF Blank, Shape, RtmpOK, RtmpType
    <2> QED
      BY <2>1 DEF Kept, Begun
  <1> QED
    BY <1>10, <1>11, <1>13, <1>14, <1>16, <1>17, <1>18 DEF OneInv

Steady == UNCHANGED handle /\ plan'.start = plan.start /\ plan'.retryMax = plan.retryMax
          /\ ~out'.reconnecting /\ ~out'.reconnectThread

LEMMA WentInside ==
    ASSUME OneInv, NEW t \in Threads, NEW h, NEW S, Went(t, h, S), h \notin Starts,
           S \cap (Starts \cup Reconnects) = {}, Steady
    PROVE  Inside(t, S)
  <1>1. h \in Todo(t) /\ Moved(t, S)
    BY WentMoved
  <1>2. ~Fresh
    BY <1>1, NotFresh
  <1>3. t \notin Retriers
    BY <1>1 DEF OneInv, NoRetry
  <1> QED
    BY <1>1, <1>2, <1>3 DEF Inside, Steady

(* A send thread that has left its loop. *)
LEMMA SenderBusy ==
    ASSUME OneInv, NEW s \in Senders, NEW h, h \in Todo(s), h \notin {"sendWait", "sendEnd"}
    PROVE  NoYoung /\ "sendWait" \notin Todo(s) /\ "sendEnd" \notin Todo(s)
  <1>1. "sendWait" \notin Todo(s) /\ "sendEnd" \notin Todo(s)
    BY DEF OneInv, SendLadder
  <1>2. NoYoung
    BY <1>1 DEF OneInv, YoungQuiet, Undisturbed, NoYoung
  <1> QED
    BY <1>1, <1>2

(* Names that are none of what a lemma excludes. *)
LEMMA Apart ==
    /\ \A x \in Late : x \notin Starts /\ x \notin Reconnects /\ x \notin YoungSteps
    /\ \A x \in Signals \cup {"endCapture", "endSignal"} :
           x \in Late /\ x \notin Clearing /\ x \notin {"sendWait", "sendEnd"}
    /\ \A x \in Clearing : /\ x \in Late /\ x \notin Signals \cup {"endCapture", "endSignal"}
                           /\ x \notin {"sendWait", "sendEnd"}
    /\ \A x \in Stops \cup EndSteps \cup {"nullPacket", "beginSignal", "connectDetach", "connectDone"} :
           /\ x \notin Starts /\ x \notin Reconnects /\ x \notin YoungSteps /\ x \notin Clearing
           /\ x \notin Signals \cup {"endCapture", "endSignal"} /\ x \notin {"sendWait", "sendEnd"}
    /\ \A x \in SendSteps : /\ x \notin Starts /\ x \notin Reconnects /\ x \notin YoungSteps
                            /\ x \notin Clearing /\ x \notin Signals \cup {"endCapture", "endSignal"}
    /\ Signals \subseteq Late /\ Clearing \subseteq Late
  <1>1. /\ \A x \in Late : x \notin Starts /\ x \notin Reconnects /\ x \notin YoungSteps
        /\ Signals \subseteq Late /\ Clearing \subseteq Late
    BY DEF Late, Signals, Clearing, Starts, Reconnects, YoungSteps
  <1>2. \A x \in Signals \cup {"endCapture", "endSignal"} :
            x \in Late /\ x \notin Clearing /\ x \notin {"sendWait", "sendEnd"}
    BY DEF Late, Signals, Clearing
  <1>3. \A x \in Clearing : /\ x \in Late /\ x \notin Signals \cup {"endCapture", "endSignal"}
                            /\ x \notin {"sendWait", "sendEnd"}
    BY DEF Late, Signals, Clearing
  <1>4. \A x \in Stops \cup EndSteps \cup {"nullPacket", "beginSignal", "connectDetach", "connectDone"} :
            /\ x \notin Starts /\ x \notin Reconnects /\ x \notin YoungSteps /\ x \notin Clearing
            /\ x \notin Signals \cup {"endCapture", "endSignal"} /\ x \notin {"sendWait", "sendEnd"}
    BY DEF Stops, EndSteps, Signals, Clearing, Starts, Reconnects, YoungSteps
  <1>5. \A x \in SendSteps : /\ x \notin Starts /\ x \notin Reconnects /\ x \notin YoungSteps
                             /\ x \notin Clearing /\ x \notin Signals \cup {"endCapture", "endSignal"}
    BY DEF SendSteps, Signals, Clearing, Starts, Reconnects, YoungSteps
  <1> QED
    BY <1>1, <1>2, <1>3, <1>4, <1>5

LEMMA OneSignalStop ==
    ASSUME Shape, Threaded, OneInv, NEW t \in Threads, NEW c \in Codes, SignalStop(t, c)
    PROVE  OneInv'
  <1> DEFINE h == SignalStopOf[c]
  <1>1. ~CanReconnect(c) /\ h \in Signals
    BY SignalNames DEF CanReconnect, OneInv, NoRetry
  <1>2. Went(t, h, {"endCapture"})
    BY <1>1, SharedMoves DEF Threaded
  <1>3. /\ UNCHANGED <<handle, rtmp, plan>>
        /\ out'.active = out.active /\ out'.dataActive = out.dataActive /\ out'.ending = out.ending
        /\ ~out'.reconnecting /\ ~out'.reconnectThread
    BY <1>1 DEF SignalStop, front, Shape, OutOK, OutType, OneInv
  <1> HIDE DEF h
  <1>4. /\ h \in Late /\ h \notin Starts /\ h \notin {"sendWait", "sendEnd"}
        /\ {"endCapture"} \cap (Starts \cup Reconnects) = {} /\ {"endCapture"} \cap YoungSteps = {}
        /\ {"endCapture"} \cap Clearing = {}
    BY <1>1, Apart
  <1>5. Inside(t, {"endCapture"}) /\ h \in Todo(t) /\ Todo(t)' = {"endCapture"} \cup (Todo(t) \ {h})
    BY <1>2, <1>3, <1>4, WentInside, WentMoved DEF Steady
  <1>6. NoYoung /\ NoYoung' /\ (out.dataActive => out.active)
    BY <1>4, <1>5, LateNoYoung, NoYoungKept, NoYoungData DEF Inside
  <1>7. CASE t \notin Senders
    <2>1. ~out.dataActive
      BY <1>1, <1>5, <1>7 DEF OneInv, Foreign
    <2> QED
      BY <1>3, <1>4, <1>5, <1>6, <1>7, <2>1, OneLater
  <1>8. CASE t \in Senders
    <2>1. "sendWait" \notin Todo(t)' /\ "sendEnd" \notin Todo(t)'
      BY <1>4, <1>5, <1>8, SenderBusy
    <2>2. \A x \in Clearing : x \notin Todo(t)'
      BY <1>1, <1>4, <1>5, <1>8 DEF OneInv, SendLadder
    <2>3. out'.dataActive => out.dataActive /\ rtmp'.active /\ \E x \in Keepers : x \in Todo(t)'
      <3>1. "endCapture" \in Keepers
        BY DEF Keepers
      <3> QED
        BY <1>3, <1>5, <3>1 DEF OneInv, Kept
    <2> QED
      BY <1>3, <1>4, <1>5, <1>6, <1>8, <2>1, <2>2, <2>3, OneSender
  <1> QED
    BY <1>7, <1>8

LEMMA OneEndInactive ==
    ASSUME Shape, Threaded, OneInv, NEW t \in Threads, EndCaptureInactive(t)
    PROVE  OneInv'
  <1>1. At(t, "endCapture") /\ Went(t, "endCapture", {})
    <2>1. ~At(t, "endCaptureQuietly")
      BY AtLeast DEF Least, OneInv, NoRetry, Reconnects, Threaded
    <2> QED
      BY <2>1, SharedMoves DEF EndCaptureInactive, Threaded
  <1>2. /\ UNCHANGED <<handle, rtmp, plan>>
        /\ out'.active = out.active /\ out'.dataActive = out.dataActive /\ out'.ending = out.ending
        /\ ~out'.reconnecting /\ ~out'.reconnectThread
    <2>1. UNCHANGED out \/ out' = [out EXCEPT !.stopCode = "SUCCESS", !.stopping = FALSE]
      BY DEF EndCaptureInactive
    <2> QED
      BY <2>1 DEF EndCaptureInactive, Shape, OutOK, OutType, OneInv, NoRetry
  <1>3. Inside(t, {}) /\ "endCapture" \in Todo(t) /\ Todo(t)' = Todo(t) \ {"endCapture"}
    BY <1>1, <1>2, Apart, WentInside, WentMoved DEF Steady
  <1>4. NoYoung /\ NoYoung' /\ ~out.dataActive
    <2>1. NoYoung
      BY <1>3, Apart, LateNoYoung
    <2> QED
      BY <1>3, <2>1, NoYoungKept, NoYoungData DEF Inside, EndCaptureInactive
  <1>5. CASE t \notin Senders
    BY <1>2, <1>3, <1>4, <1>5, OneLater
  <1>6. CASE t \in Senders
    <2>1. "sendWait" \notin Todo(t)' /\ "sendEnd" \notin Todo(t)'
      BY <1>3, <1>6, SenderBusy
    <2>2. \A x \in Clearing : x \notin Todo(t)'
      BY <1>3, <1>6 DEF OneInv, SendLadder
    <2> QED
      BY <1>2, <1>3, <1>4, <1>6, <2>1, <2>2, OneSender
  <1> QED
    BY <1>5, <1>6

LEMMA OneEndBegin ==
    ASSUME Shape, Threaded, OneInv, NEW t \in Threads, EndCaptureBegin(t)
    PROVE  OneInv'
  <1> DEFINE S == {"endClear", "endJoin", "endSpawn", "endSignal"}
  <1>1. Went(t, "endCapture", S)
    <2>1. ~Went(t, "endCaptureQuietly", {"endClear", "endJoin", "endSpawn"})
      BY DEF Went, Least, OneInv, NoRetry, Reconnects
    <2> QED
      BY <2>1, SharedMoves DEF Threaded
  <1>2. UNCHANGED <<out, handle, rtmp, plan>> /\ out.active /\ out.dataActive
    BY DEF EndCaptureBegin, front
  <1>3. S \cap (Starts \cup Reconnects) = {} /\ S \cap YoungSteps = {} /\ "endClear" \in Keepers
    BY DEF Starts, Reconnects, YoungSteps, Keepers
  <1>4. Inside(t, S) /\ "endCapture" \in Todo(t) /\ Todo(t)' = S \cup (Todo(t) \ {"endCapture"})
        /\ \A x \in Todo(t) \ {"endCapture"} : Rank("endCapture") < Rank(x)
    <2>1. Steady /\ "endCapture" \notin Starts
      BY <1>2, Apart DEF Steady, OneInv, NoRetry
    <2> QED
      BY <1>1, <1>3, <2>1, WentInside, WentMoved DEF Went, Least
  <1>5. t \in Senders /\ handle["end"] = None
    BY <1>2, <1>4 DEF OneInv, Foreign, EndOnce
  <1>6. NoYoung /\ "sendWait" \notin Todo(t)' /\ "sendEnd" \notin Todo(t)'
    BY <1>4, <1>5, SenderBusy
  <1>7. \A x \in Signals \cup {"endCapture"} : x \notin Todo(t)'
    <2>1. \A x \in Signals \cup {"endCapture"} : Rank(x) = 5
      BY DEF Rank, Signals
    <2>2. \A x \in Signals \cup {"endCapture"} : x \notin S
      BY DEF Signals
    <2> QED
      BY <1>4, <2>1, <2>2
  <1>8. out'.dataActive => out.dataActive /\ rtmp'.active /\ \E x \in Keepers : x \in Todo(t)'
    BY <1>2, <1>3, <1>4 DEF OneInv, Kept
  <1> HIDE DEF S
  <1> QED
    BY <1>2, <1>3, <1>4, <1>5, <1>6, <1>7, <1>8, OneSender

LEMMA OneEndOn ==
    ASSUME Shape, Threaded, OneInv, NEW t \in Threads, EndCaptureClear(t) \/ EndCaptureJoin(t)
    PROVE  OneInv'
  <1>1. PICK h \in {"endClear", "endJoin"} : Went(t, h, {})
    BY SharedMoves DEF Threaded
  <1>2. /\ UNCHANGED <<handle, rtmp, plan>>
        /\ out'.active = out.active /\ out'.ending = out.ending
        /\ ~out'.reconnecting /\ ~out'.reconnectThread
        /\ EndCaptureClear(t) => ~out'.dataActive
        /\ EndCaptureJoin(t) => out'.dataActive = out.dataActive
    BY DEF EndCaptureClear, EndCaptureJoin, front, Shape, OutOK, OutType, OneInv, NoRetry
  <1>3. h \in Clearing
    BY DEF Clearing
  <1>4. Inside(t, {}) /\ h \in Todo(t) /\ Todo(t)' = Todo(t) \ {h}
    BY <1>1, <1>2, <1>3, Apart, WentInside, WentMoved DEF Steady
  <1>5. t \in Senders
    BY <1>3, <1>4 DEF OneInv, Foreign
  <1>6. NoYoung /\ "sendWait" \notin Todo(t)' /\ "sendEnd" \notin Todo(t)'
    BY <1>4, <1>5, SenderBusy
  <1>7. handle["end"] = None
    BY <1>3, <1>4 DEF OneInv, EndOnce
  <1>8. \A x \in Signals \cup {"endCapture"} : x \notin Todo(t)'
    BY <1>3, <1>4, <1>5 DEF OneInv, SendLadder
  <1>9. out'.dataActive => out.dataActive /\ rtmp'.active /\ \E x \in Keepers : x \in Todo(t)'
    <2> SUFFICES ASSUME out'.dataActive
                 PROVE  out.dataActive /\ rtmp'.active /\ \E x \in Keepers : x \in Todo(t)'
      OBVIOUS
    <2>1. EndCaptureJoin(t) /\ ~EndCaptureClear(t) /\ out.dataActive
      BY <1>2
    <2>2. Went(t, "endJoin", {})
      BY <2>1, SharedMoves DEF Threaded
    <2>3. Todo(t)' = Todo(t) \ {"endJoin"} /\ "endJoin" \in Todo(t)
      BY <2>2, WentMoved
    <2>4. PICK s \in Senders, x \in Keepers : x \in Todo(s)
      BY <2>1 DEF OneInv, Kept
    <2>5. s = t
      BY <1>4, <1>5, <2>4, OneOfAKind
    <2>6. x # "endJoin"
      BY DEF Keepers, Signals
    <2> QED
      BY <1>2, <2>1, <2>3, <2>4, <2>5, <2>6 DEF OneInv, Kept
  <1> QED
    BY <1>2, <1>4, <1>5, <1>6, <1>7, <1>8, <1>9, OneSender

LEMMA OneEndSpawn ==
    ASSUME Shape, Threaded, OneInv, NEW t \in Threads, EndCaptureSpawn(t)
    PROVE  OneInv'
  <1>1. PICK n \in Enders : /\ Forked(t, "endSpawn", {}, n, EndSteps)
                            /\ handle' = [handle EXCEPT !["end"] = n] /\ detached' = detached \ {n}
    BY SharedMoves DEF Threaded
  <1>2. /\ UNCHANGED <<rtmp, plan>>
        /\ out'.active = out.active /\ out'.dataActive = out.dataActive
        /\ ~out'.reconnecting /\ ~out'.reconnectThread
    BY DEF EndCaptureSpawn, front, Shape, OutOK, OutType, OneInv, NoRetry
  <1>3. /\ n \in Threads /\ n \notin Connectors \cup Senders \cup Retriers \cup {"user", "encoder"}
        /\ Connectors \cup Senders \cup Retriers \subseteq Threads /\ "user" \in Threads
    BY Pools DEF Connectors, Senders, Retriers, Enders
  <1>4. /\ "endSpawn" \in Todo(t) /\ Todo(t)' = Todo(t) \ {"endSpawn"}
        /\ \A x \in Todo(t) \ {"endSpawn"} : Rank("endSpawn") < Rank(x)
        /\ Todo(n)' = EndSteps /\ Todo(n) = {} /\ n # t
        /\ \A u \in Threads \ {t, n} : Todo(u)' = Todo(u)
    <2>1. "endSpawn" \in Todo(t) /\ \A x \in Todo(t) \ {"endSpawn"} : Rank("endSpawn") < Rank(x)
      BY <1>1 DEF Forked, Least
    <2>2. Forked(t, "endSpawn", {}, n, EndSteps)
      BY <1>1
    <2>3. /\ Todo(t)' = {} \cup (Todo(t) \ {"endSpawn"})
          /\ Todo(n)' = EndSteps /\ Todo(n) = {} /\ n # t
          /\ \A u \in Threads \ {t, n} : Todo(u)' = Todo(u)
      BY <1>3, <2>2 DEF Forked
    <2> QED
      BY <2>1, <2>3
  <1>5. t \in Senders /\ handle["end"] = None /\ ~Fresh
    <2>1. "endSpawn" \in Clearing /\ "endSpawn" \notin Starts
      BY Apart DEF Clearing
    <2> QED
      BY <1>4, <2>1, NotFresh DEF OneInv, Foreign, EndOnce
  <1>6. \A u \in Threads : u \notin Senders => \A x \in Clearing \cup Signals \cup {"endCapture"} :
            x \in Todo(u)' => x \in Todo(u)
    <2>1. \A x \in Clearing \cup Signals \cup {"endCapture"} : x \notin EndSteps
      BY DEF Clearing, Signals, EndSteps
    <2> QED
      BY <1>4, <2>1
  <1>7. /\ NoYoung /\ NoYoung' /\ "sendWait" \notin Todo(t) /\ "sendEnd" \notin Todo(t)
    <2>1. NoYoung /\ "sendWait" \notin Todo(t) /\ "sendEnd" \notin Todo(t)
      BY <1>4, <1>5, SenderBusy
    <2>2. \A c \in Connectors : Todo(c)' \subseteq Todo(c)
      BY <1>3, <1>4
    <2>3. NoYoung'
      BY <2>1, <2>2 DEF NoYoung, Young
    <2> QED
      BY <2>1, <2>3
  <1>8. \A x \in Clearing : x \notin Todo(t)'
    <2>1. Rank("endClear") = 1 /\ Rank("endJoin") = 2 /\ Rank("endSpawn") = 3
      BY DEF Rank
    <2> QED
      BY <1>4, <2>1 DEF Clearing
  <1>9. ~out.dataActive
    <2> SUFFICES ASSUME out.dataActive PROVE FALSE
      OBVIOUS
    <2>1. PICK s \in Senders, x \in Keepers : x \in Todo(s)
      BY DEF OneInv, Kept
    <2>2. s = t
      BY <1>4, <1>5, <2>1, OneOfAKind
    <2>3. x = "endClear"
      <3>1. "endSpawn" \in Clearing
        BY DEF Clearing
      <3>2. x \notin Signals \cup {"endCapture"}
        BY <1>4, <1>5, <2>1, <2>2, <3>1 DEF OneInv, SendLadder
      <3> QED
        BY <1>7, <2>1, <2>2, <3>2 DEF Keepers
    <2> QED
      BY <1>4, <1>8, <2>1, <2>2, <2>3 DEF Clearing
  <1>10. OneSession' /\ NoRetry' /\ ~out'.reconnectThread
    <2>1. \A u \in Threads : \A x \in Reconnects : x \notin Todo(u)'
      <3>1. \A x \in Reconnects : x \notin EndSteps
        BY DEF Reconnects, EndSteps
      <3> QED
        BY <1>4, <3>1 DEF OneInv, NoRetry
    <2>2. \A u \in Retriers : Todo(u)' = {}
      BY <1>3, <1>4, <1>5 DEF OneInv, NoRetry
    <2> QED
      BY <1>2, <2>1, <2>2 DEF OneInv, OneSession, NoRetry
  <1>11. FreshBlank'
    <2>1. Starting' => Starting
      BY <1>3, <1>4 DEF Starting
    <2>2. ~Fresh'
      BY <1>2, <1>5, <2>1 DEF Fresh
    <2> QED
      BY <2>2 DEF FreshBlank
  <1>12. handle'["end"] = n /\ \A k \in Kinds \ {"end"} : handle'[k] = handle[k]
    BY <1>1, Pools DEF Threaded, Handles
  <1>13. OneEach'
    <2> SUFFICES ASSUME NEW k \in Kinds, NEW u \in Pool[k], Todo(u)' # {} PROVE handle'[k] = u
      BY DEF OneEach, Pool
    <2>1. CASE u = n
      BY <1>12, <2>1, Pools
    <2>2. CASE u # n
      <3>1. Todo(u) # {} /\ u \in Threads
        BY <1>4, <2>2, Pools
      <3>2. handle[k] = u
        BY <3>1 DEF OneInv, OneEach
      <3>3. k # "end"
        BY <1>5, <3>2, Pools
      <3> QED
        BY <1>12, <3>2, <3>3
    <2> QED
      BY <2>1, <2>2
  <1>14. Ladder' /\ YoungQuiet'
    BY <1>7 DEF NoYoung, Ladder, YoungQuiet
  <1>15. SendLadder'
    <2>1. \A s \in Senders : s # t => Todo(s)' = Todo(s)
      BY <1>3, <1>4
    <2> QED
      BY <1>4, <1>7, <1>8, <2>1 DEF OneInv, SendLadder
  <1>16. Foreign' /\ Kept' /\ Begun'
    BY <1>2, <1>6, <1>9, <1>12, Pools DEF OneInv, Foreign, Kept, Begun
  <1>17. EndOnce'
    <2>1. \A u \in Threads : \A x \in Clearing : x \notin Todo(u)'
      <3>1. \A u \in Senders : u # t => Todo(u) = {} /\ Todo(u)' = {}
        BY <1>3, <1>4, <1>5, OneOfAKind
      <3> QED
        BY <1>5, <1>6, <1>8, <3>1 DEF OneInv, Foreign
    <2>2. handle'["end"] # None
      BY <1>12, Pools
    <2> QED
      BY <1>2, <1>9, <2>1, <2>2 DEF EndOnce
  <1> QED
    BY <1>10, <1>11, <1>13, <1>14, <1>15, <1>16, <1>17 DEF OneInv

LEMMA OneEndSignal ==
    ASSUME Shape, Threaded, OneInv, NEW t \in Threads, EndCaptureSignal(t)
    PROVE  OneInv'
  <1>1. Went(t, "endSignal", {})
    BY SharedMoves DEF Threaded
  <1>2. /\ UNCHANGED <<handle, rtmp, plan>>
        /\ out'.active = out.active /\ out'.dataActive = out.dataActive /\ out'.ending = out.ending
        /\ ~out'.reconnecting /\ ~out'.reconnectThread
    BY DEF EndCaptureSignal, Shape, OutOK, OutType, OneInv, NoRetry
  <1>3. "endSignal" \in Late /\ "endSignal" \notin Starts /\ "endSignal" \notin Keepers
    BY Apart DEF Keepers, Signals
  <1>4. Inside(t, {}) /\ "endSignal" \in Todo(t) /\ Todo(t)' = Todo(t) \ {"endSignal"}
        /\ \A x \in Todo(t) \ {"endSignal"} : Rank("endSignal") < Rank(x)
    BY <1>1, <1>2, <1>3, WentInside, WentMoved DEF Steady, Went, Least
  <1>5. NoYoung /\ NoYoung' /\ (out.dataActive => out.active)
    BY <1>3, <1>4, LateNoYoung, NoYoungKept, NoYoungData DEF Inside
  <1>6. CASE t \notin Senders
    BY <1>2, <1>4, <1>5, <1>6, OneLater
  <1>7. CASE t \in Senders
    <2>1. "sendWait" \notin Todo(t)' /\ "sendEnd" \notin Todo(t)'
      BY <1>4, <1>7, SenderBusy
    <2>2. \A x \in Clearing : x \notin Todo(t)'
      <3>1. /\ Rank("endClear") = 1 /\ Rank("endJoin") = 2 /\ Rank("endSpawn") = 3
            /\ Rank("endSignal") = 5
        BY DEF Rank
      <3> QED
        BY <1>4, <3>1 DEF Clearing
    <2>3. out'.dataActive => out.dataActive /\ rtmp'.active /\ \E x \in Keepers : x \in Todo(t)'
      <3> SUFFICES ASSUME out.dataActive PROVE rtmp.active /\ \E x \in Keepers : x \in Todo(t)'
        BY <1>2
      <3>1. PICK s \in Senders, x \in Keepers : x \in Todo(s)
        BY DEF OneInv, Kept
      <3>2. s = t
        BY <1>4, <1>7, <3>1, OneOfAKind
      <3> QED
        BY <1>3, <1>4, <3>1, <3>2 DEF OneInv, Kept
    <2> QED
      BY <1>2, <1>4, <1>5, <1>7, <2>1, <2>2, <2>3, OneSender
  <1> QED
    BY <1>6, <1>7

LEMMA OneEndThread ==
    ASSUME Shape, Threaded, OneInv, NEW t \in Threads, EndThread(t)
    PROVE  OneInv'
  <1>1. PICK h \in EndSteps : Went(t, h, {})
    <2>1. \/ Went(t, "stopEncoders", {}) \/ Went(t, "deactivate", {})
          \/ Went(t, "stopped", {}) \/ Went(t, "ended", {})
      BY EndMoves DEF EndThread, Threaded
    <2> QED
      BY <2>1 DEF EndSteps
  <1>2. h \in Todo(t) /\ h \notin Starts
    BY <1>1, Apart, WentMoved
  <1>3. t \in Enders /\ t \notin Senders
    BY <1>2, Owners DEF Enders, Senders
  <1>4. handle["end"] # None /\ ~out.dataActive
    <2>1. handle["end"] = t
      BY <1>2, <1>3, OneOfAKind
    <2>2. t # None
      BY <1>3, Pools
    <2> QED
      BY <2>1, <2>2 DEF OneInv, EndOnce
  <1>5. NoYoung
    BY <1>4 DEF OneInv, YoungQuiet, Undisturbed, NoYoung
  <1>6. /\ UNCHANGED <<handle, rtmp, plan>>
        /\ out'.dataActive = out.dataActive /\ (out'.ending => out.ending)
        /\ ~out'.reconnecting /\ ~out'.reconnectThread
    BY DEF EndThread, StopEncoders, Deactivate, SignalStopped, EndThreadDone, front, Shape, OutOK,
           OutType, OneInv, NoRetry
  <1>7. Inside(t, {}) /\ NoYoung'
    <2>1. Inside(t, {})
      BY <1>1, <1>2, <1>6, WentInside DEF Steady
    <2> QED
      BY <1>5, <2>1, NoYoungKept DEF Inside
  <1> QED
    BY <1>3, <1>4, <1>6, <1>7, OneLater

(* A connect thread after the capture has begun, or failed to. *)
LEMMA OneConnectRest ==
    ASSUME Shape, Threaded, OneInv, NEW t \in Threads, BeginSignal(t) \/ ConnectDetach(t) \/ ConnectDone(t)
    PROVE  OneInv'
  <1>1. PICK h \in {"beginSignal", "connectDetach", "connectDone"} : Went(t, h, {})
    BY ConnectMoves DEF Threaded
  <1>2. h \in Todo(t) /\ h \notin Starts /\ h \notin YoungSteps /\ h \in ConnectSteps
    BY <1>1, Apart, WentMoved DEF ConnectSteps
  <1>3. t \in Connectors /\ t \notin Senders
    <2>1. h \in Duty(t)
      BY <1>2 DEF Threaded, Stacks
    <2> QED
      BY <1>2, <2>1, Duties DEF Connectors, Senders
  <1>4. NoYoung
    <2>1. Least(t, h)
      BY <1>1 DEF Went
    <2>2. ~Young(t)
      BY <1>2, <1>3, <2>1, LadderHead DEF OneInv
    <2> QED
      BY <1>2, <1>3, <2>2, OneOfAKind DEF NoYoung
  <1>5. /\ UNCHANGED <<handle, plan>> /\ rtmp'.active = rtmp.active
        /\ out'.dataActive = out.dataActive /\ out'.active = out.active /\ out'.ending = out.ending
        /\ ~out'.reconnecting /\ ~out'.reconnectThread
    BY DEF BeginSignal, ConnectDetach, ConnectDone, front, Shape, OutOK, OutType, RtmpOK, RtmpType,
           OneInv, NoRetry
  <1>6. Inside(t, {}) /\ NoYoung'
    <2>1. Inside(t, {})
      BY <1>1, <1>2, <1>5, WentInside DEF Steady
    <2> QED
      BY <1>4, <2>1, NoYoungKept DEF Inside
  <1>7. out'.dataActive => out'.active
    BY <1>4, <1>5, NoYoungData
  <1> QED
    BY <1>3, <1>5, <1>6, <1>7, OneLater

(* Steps that leave the stacks alone. *)
LEMMA OneStill ==
    ASSUME OneInv, \A u \in Threads : Todo(u)' = Todo(u), UNCHANGED <<out, handle, plan>>,
           rtmp'.active = rtmp.active, ~Fresh \/ UNCHANGED vars,
           \A c \in Connectors : Young(c) => Undisturbed(c)'
    PROVE  OneInv'
  <1>1. Connectors \cup Senders \cup Retriers \subseteq Threads /\ "user" \in Threads
        /\ \A k \in Kinds : Pool[k] \subseteq Threads
    BY Pools
  <1>2. OneSession' /\ NoRetry' /\ ~out'.reconnectThread
    BY <1>1 DEF OneInv, OneSession, NoRetry
  <1>3. FreshBlank'
    <2>1. CASE UNCHANGED vars
      BY <1>1, <2>1 DEF OneInv, FreshBlank, Blank, Fresh, Starting, vars, front
    <2>2. CASE ~Fresh
      <3>1. ~Fresh'
        BY <1>1, <2>2 DEF Fresh, Starting
      <3> QED
        BY <3>1 DEF FreshBlank
    <2> QED
      BY <2>1, <2>2
  <1>4. OneEach'
    <2> SUFFICES ASSUME NEW k \in Kinds, NEW u \in Pool[k], Todo(u)' # {} PROVE handle'[k] = u
      BY DEF OneEach, Pool
    <2> QED
      BY <1>1 DEF OneInv, OneEach
  <1>5. Ladder' /\ YoungQuiet'
    <2>1. \A c \in Connectors : Young(c)' => Young(c)
      BY <1>1 DEF Young
    <2> QED
      BY <1>1, <2>1 DEF OneInv, Ladder, YoungQuiet
  <1>6. SendLadder'
    BY <1>1 DEF OneInv, SendLadder
  <1>7. Foreign' /\ EndOnce'
    BY DEF OneInv, Foreign, EndOnce
  <1>8. Kept' /\ Begun'
    BY <1>1 DEF OneInv, Kept, Begun
  <1> QED
    BY <1>2, <1>3, <1>4, <1>5, <1>6, <1>7, <1>8 DEF OneInv

LEMMA OneSendLeave ==
    ASSUME Shape, Threaded, OneInv, NEW t \in Threads, SendFinish(t) \/ SendFail(t)
    PROVE  OneInv'
  <1>1. Went(t, "sendWait", {"sendEnd"})
    BY SendMoves DEF Threaded
  <1>2. UNCHANGED <<out, handle>> /\ rtmp'.active = rtmp.active
        /\ plan'.start = plan.start /\ plan'.retryMax = plan.retryMax
    <2>1. UNCHANGED plan \/ Fails("server")
      BY DEF SendFinish, SendFail, front
    <2> QED
      BY <2>1, Failing DEF SendFinish, SendFail, Taken, Shape, RtmpOK, RtmpType
  <1>3. "sendWait" \in SendSteps /\ {"sendEnd"} \subseteq SendSteps /\ "sendEnd" \in Keepers
    BY DEF SendSteps, Keepers
  <1>4. Inside(t, {"sendEnd"}) /\ "sendWait" \in Todo(t)
        /\ Todo(t)' = {"sendEnd"} \cup (Todo(t) \ {"sendWait"})
    <2>1. Steady
      BY <1>2 DEF Steady, OneInv, NoRetry
    <2>2. "sendWait" \notin Starts /\ {"sendEnd"} \cap (Starts \cup Reconnects) = {}
      BY <1>3, Apart
    <2> QED
      BY <1>1, <2>1, <2>2, WentInside, WentMoved
  <1>5. t \in Senders
    <2>1. "sendWait" \in Duty(t)
      BY <1>4 DEF Threaded, Stacks
    <2> QED
      BY <1>3, <2>1, Duties
  <1>6. NoYoung
    <2>1. rtmp.stopEvent \/ rtmp.packets > 0
      BY DEF SendFinish, SendFail
    <2> QED
      BY <2>1 DEF OneInv, YoungQuiet, Undisturbed, NoYoung
  <1>7. Todo(t)' = {"sendEnd"}
    BY <1>4, <1>5 DEF OneInv, SendLadder
  <1>8. {"sendEnd"} \cap YoungSteps = {} /\ \A x \in Clearing : x \notin {"sendEnd"}
    BY DEF YoungSteps, Clearing
  <1>9. out'.dataActive => out.dataActive /\ rtmp'.active /\ \E x \in Keepers : x \in Todo(t)'
    BY <1>2, <1>3, <1>7 DEF OneInv, Kept
  <1> QED
    BY <1>2, <1>4, <1>5, <1>6, <1>7, <1>8, <1>9, OneSender

LEMMA OneSendEnd ==
    ASSUME Shape, Threaded, OneInv, NEW t \in Threads, SendEnd(t)
    PROVE  OneInv'
  <1>1. PICK x \in {"signalDisconnected", "signalEncodeError", "endCapture"} :
            Went(t, "sendEnd", {x, "sendReset", "sendDone"})
    BY SendMoves DEF Threaded
  <1> DEFINE S == {x, "sendReset", "sendDone"}
  <1>2. UNCHANGED <<out, handle, rtmp, plan>>
    BY DEF SendEnd, front
  <1>3. /\ "sendEnd" \in SendSteps /\ x \in Signals \cup {"endCapture"} /\ x \in Keepers
        /\ "sendReset" \in SendSteps /\ "sendDone" \in SendSteps
    BY DEF SendSteps, Keepers, Signals
  <1>4. "sendEnd" \notin Starts /\ S \cap (Starts \cup Reconnects) = {} /\ S \cap YoungSteps = {}
        /\ \A y \in Clearing : y \notin S
    BY <1>3, Apart
  <1>5. Inside(t, S) /\ "sendEnd" \in Todo(t) /\ Todo(t)' = S \cup (Todo(t) \ {"sendEnd"})
    <2>1. Steady
      BY <1>2 DEF Steady, OneInv, NoRetry
    <2> QED
      BY <1>1, <1>4, <2>1, WentInside, WentMoved
  <1>6. t \in Senders
    <2>1. "sendEnd" \in Duty(t)
      BY <1>5 DEF Threaded, Stacks
    <2> QED
      BY <1>3, <2>1, Duties
  <1>7. NoYoung
    BY <1>5, <1>6 DEF OneInv, YoungQuiet, Undisturbed, NoYoung
  <1>8. Todo(t)' = S /\ "sendWait" \notin S /\ "sendEnd" \notin S
    <2>1. Todo(t) = {"sendEnd"}
      BY <1>5, <1>6 DEF OneInv, SendLadder
    <2>2. x # "sendWait" /\ x # "sendEnd"
      OBVIOUS
    <2> QED
      BY <1>5, <2>1, <2>2
  <1>9. out'.dataActive => out.dataActive /\ rtmp'.active /\ \E y \in Keepers : y \in Todo(t)'
    BY <1>2, <1>3, <1>8 DEF OneInv, Kept
  <1> HIDE DEF S
  <1> QED
    BY <1>2, <1>4, <1>5, <1>6, <1>7, <1>8, <1>9, OneSender

LEMMA OneSendCleanUp ==
    ASSUME Shape, Threaded, OneInv, NEW t \in Threads, SendCleanUp(t)
    PROVE  OneInv'
  <1>1. PICK h \in {"sendReset", "sendDone"} :
            /\ Went(t, h, {})
            /\ h = "sendReset" => rtmp'.active = rtmp.active
            /\ h = "sendDone" => ~rtmp'.active
    <2>1. CASE Went(t, "sendReset", {}) /\ rtmp' = [rtmp EXCEPT !.packets = 0, !.stopEvent = FALSE]
      <3>1. rtmp'.active = rtmp.active
        BY <2>1 DEF Shape, RtmpOK, RtmpType
      <3> QED
        BY <2>1, <3>1
    <2>2. CASE Went(t, "sendDone", {}) /\ rtmp' = [rtmp EXCEPT !.active = FALSE]
      <3>1. ~rtmp'.active
        BY <2>2 DEF Shape, RtmpOK, RtmpType
      <3> QED
        BY <2>2, <3>1
    <2> QED
      BY <2>1, <2>2, SendMoves DEF Threaded
  <1>2. UNCHANGED <<out, handle, plan>>
    BY DEF SendCleanUp, front
  <1>3. h \in SendSteps /\ h \notin {"sendWait", "sendEnd"}
    BY DEF SendSteps
  <1>4. Went(t, h, {}) /\ h \notin Starts
    BY <1>1, <1>3, Apart
  <1>5. Inside(t, {}) /\ h \in Todo(t) /\ Todo(t)' = Todo(t) \ {h}
        /\ \A x \in Todo(t) \ {h} : Rank(h) < Rank(x)
    <2>1. Steady
      BY <1>2 DEF Steady, OneInv, NoRetry
    <2> QED
      BY <1>4, <2>1, WentInside, WentMoved DEF Went, Least
  <1>6. t \in Senders
    <2>1. h \in Duty(t)
      BY <1>5 DEF Threaded, Stacks
    <2> QED
      BY <1>3, <2>1, Duties
  <1>7. NoYoung /\ "sendWait" \notin Todo(t) /\ "sendEnd" \notin Todo(t)
    BY <1>3, <1>5, <1>6, SenderBusy
  <1>8. Rank("sendReset") = 9 /\ Rank("sendDone") = 10
        /\ \A x \in Clearing \cup Keepers : x \in {"sendWait", "sendEnd"} \/ Rank(x) <= 5
    BY DEF Rank, Clearing, Keepers, Signals
  <1>9. \A x \in Clearing \cup Keepers : x \notin Todo(t)
    <2>1. \A x \in Clearing \cup Keepers : x # h
      BY <1>3, <1>8
    <2>2. \A x \in Clearing \cup Keepers : x \in {"sendWait", "sendEnd"} \/ ~(Rank(h) < Rank(x))
      BY <1>8, RankNat
    <2> QED
      BY <1>5, <1>7, <2>1, <2>2
  <1>10. ~out.dataActive
    BY <1>5, <1>6, <1>9, OneOfAKind DEF OneInv, Kept
  <1>11. \A x \in Clearing : x \notin Todo(t)'
    BY <1>5, <1>9
  <1>12. rtmp'.active => rtmp.active
    BY <1>1
  <1> QED
    BY <1>2, <1>5, <1>6, <1>7, <1>10, <1>11, <1>12, OneSender

LEMMA OneSendPacket ==
    ASSUME Shape, Threaded, OneInv, NEW t \in Threads, SendPacket(t)
    PROVE  OneInv'
  <1>1. \A u \in Threads : Todo(u)' = Todo(u)
    BY SendMoves DEF Threaded
  <1>2. /\ UNCHANGED <<out, handle, plan, detached, encoding, phase>>
        /\ rtmp'.active = rtmp.active /\ rtmp'.connecting = rtmp.connecting
        /\ rtmp'.stopEvent = rtmp.stopEvent /\ (rtmp.packets = 0 => rtmp'.packets = 0)
    BY DEF SendPacket, front, Taken, Shape, RtmpOK, RtmpType
  <1>3. ~Fresh
    <2>1. "sendWait" \in Todo(t)
      BY AtLeast DEF Threaded, SendPacket, Least
    <2>2. "sendWait" \notin Starts
      BY DEF Starts
    <2> QED
      BY <2>1, <2>2, NotFresh
  <1>4. ASSUME NEW c \in Connectors, Young(c) PROVE Undisturbed(c)'
    <2>1. Undisturbed(c)
      BY <1>4 DEF OneInv, YoungQuiet
    <2>2. Connectors \cup Senders \subseteq Threads /\ "encoder" \in Threads
      BY Pools
    <2> QED
      BY <1>1, <1>2, <2>1, <2>2 DEF Undisturbed
  <1> QED
    BY <1>1, <1>2, <1>3, <1>4, OneStill

LEMMA OneSendThread ==
    ASSUME Shape, Threaded, OneInv, NEW t \in Threads, SendThread(t)
    PROVE  OneInv'
  BY OneSendLeave, OneSendEnd, OneSendCleanUp, OneSendPacket DEF SendThread

(* The connect thread goes on, and is still before the active output. *)
LEMMA OneYoungOn ==
    ASSUME Threaded, OneInv, NEW t \in Connectors, Young(t), NEW h, NEW S, Least(t, h), Inside(t, S),
           S \cap (Late \cup Clearing \cup Signals \cup {"endCapture"}) = {},
           Undisturbed(t)', out'.ending = out.ending,
           Todo(t)' \in {{"connect"}, {"metaData"}, {"beginCapture", "connectDetach", "connectDone"},
                         {"beginActive", "beginSignal", "connectDetach", "connectDone"}},
           out'.dataActive => "beginActive" \in Todo(t)' /\ rtmp'.active
                              /\ \E s \in Senders : "sendWait" \in Todo(s),
           rtmp'.active = rtmp.active
    PROVE  OneInv'
  <1>1. Connectors \cup Senders \subseteq Threads /\ t \notin Senders
    BY Pools DEF Connectors, Senders
  <1>2. OneSession' /\ NoRetry' /\ ~out'.reconnectThread /\ FreshBlank' /\ OneEach'
    BY <1>1, OneBasics
  <1>3. \A u \in Threads \ {t} : Todo(u)' = Todo(u)
    BY DEF Inside, Moved
  <1>4. \A d \in Connectors : Young(d)' => d = t
    <2>1. \A d \in Connectors : d # t => Todo(d) = {} /\ Todo(d)' = {}
      BY <1>1, <1>3, OneOfAKind
    <2> QED
      BY <2>1 DEF Young
  <1>5. Ladder' /\ YoungQuiet'
    BY <1>4 DEF Ladder, YoungQuiet
  <1>6. SendLadder'
    BY <1>1, <1>3 DEF OneInv, SendLadder
  <1>7. Undisturbed(t)
    BY DEF OneInv, YoungQuiet
  <1>8. \A u \in Threads : \A x \in Late : x \notin Todo(u)'
    BY DEF Undisturbed
  <1>9. Foreign' /\ EndOnce'
    <2>1. Signals \cup Clearing \cup {"endCapture"} \subseteq Late
      BY DEF Late
    <2>2. handle'["end"] = None /\ ~out'.ending
      BY <1>7 DEF Undisturbed, OneInv, EndOnce, Inside
    <2> QED
      BY <1>8, <2>1, <2>2 DEF Foreign, EndOnce
  <1>10. Kept'
    <2>1. "sendWait" \in Keepers /\ UNCHANGED handle
      BY DEF Keepers, Inside
    <2>2. handle'["send"] = None => ~rtmp'.active
      BY <2>1 DEF OneInv, Kept
    <2>3. out'.dataActive => \E s \in Senders : \E x \in Keepers : x \in Todo(s)'
      BY <1>1, <1>3, <2>1
    <2> QED
      BY <2>2, <2>3 DEF Kept
  <1>11. Begun'
    BY DEF Begun
  <1> QED
    BY <1>2, <1>5, <1>6, <1>9, <1>10, <1>11 DEF OneInv

(* It fails, or has made the output active. *)
LEMMA OneYoungEnds ==
    ASSUME OneInv, NEW t \in Connectors, Young(t), NEW S, Inside(t, S), ~Young(t)',
           S \cap Clearing = {},
           (\E x \in Signals \cup {"endCapture"} : x \in S) => ~out.dataActive,
           out'.dataActive = out.dataActive, rtmp'.active = rtmp.active,
           out'.ending => out.ending, out'.dataActive => out'.active
    PROVE  OneInv'
  <1>1. Connectors \subseteq Threads /\ t \in Threads \ Senders
    BY Pools DEF Connectors, Senders
  <1>2. NoYoung'
    <2>1. \A d \in Connectors : d # t => Todo(d) = {} /\ Todo(d)' = {}
      BY <1>1, OneOfAKind DEF Inside, Moved
    <2> QED
      BY <2>1 DEF Young, NoYoung
  <1> QED
    BY <1>1, <1>2, OneLater

(* Which thread connects, and what it knows. *)
LEMMA YoungHead ==
    ASSUME Threaded, OneInv, NEW t \in Threads, NEW h \in YoungSteps, Least(t, h)
    PROVE  /\ t \in Connectors /\ Young(t) /\ Undisturbed(t) /\ ~Fresh
           /\ h = "initConnect" => Todo(t) = {"initConnect", "connect"}
           /\ h = "connect" => Todo(t) = {"connect"}
           /\ h = "metaData" => Todo(t) = {"metaData"}
           /\ h = "beginCapture" => Todo(t) = {"beginCapture", "connectDetach", "connectDone"}
           /\ h = "beginActive" => Todo(t) = {"beginActive", "beginSignal", "connectDetach", "connectDone"}
  <1>1. Young(t) /\ h \in Todo(t)
    BY DEF Young, Least
  <1>2. t \in Connectors
    BY <1>1, Owners
  <1>3. ~Fresh
    <2>1. h \notin Starts
      BY DEF YoungSteps, Starts
    <2> QED
      BY <1>1, <2>1, NotFresh
  <1>4. Undisturbed(t) /\ Ladder
    BY <1>1, <1>2 DEF OneInv, YoungQuiet
  <1> QED
    BY <1>1, <1>2, <1>3, <1>4, LadderHead

(* What lets the connect thread stay undisturbed. *)
LEMMA StillUndisturbed ==
    ASSUME OneInv, NEW t \in Connectors, Undisturbed(t), NEW S, Inside(t, S), S \cap Late = {},
           UNCHANGED <<detached, handle>>, rtmp'.connecting = rtmp.connecting,
           out'.active = out.active, rtmp'.stopEvent = rtmp.stopEvent, rtmp'.packets = 0,
           rtmp'.active = rtmp.active,
           \A x \in {"initConnect", "connect"} : x \in Todo(t)' => x \in Todo(t),
           "connect" \in Todo(t) => "connect" \in Todo(t)',
           "beginActive" \notin Todo(t)' =>
               /\ UNCHANGED <<encoding, phase>> /\ out'.dataActive = out.dataActive
               /\ "beginActive" \notin Todo(t)
    PROVE  Undisturbed(t)'
  <1>1. Senders \subseteq Threads /\ "encoder" \in Threads /\ t \notin Senders /\ t # "encoder"
        /\ Connectors \subseteq Threads
    BY Pools DEF Connectors, Senders
  <1>2. \A u \in Threads \ {t} : Todo(u)' = Todo(u)
    BY DEF Inside, Moved
  <1>3. /\ rtmp'.connecting /\ t \notin detached'
        /\ ~out'.active /\ ~rtmp'.stopEvent /\ rtmp'.packets = 0 /\ handle'["end"] = None
    BY DEF Undisturbed
  <1>4. \A s \in Senders : Todo(s)' = Todo(s)
    BY <1>1, <1>2
  <1>5. \A u \in Threads : \A x \in Late : x \notin Todo(u)'
    BY DEF Undisturbed, Inside, Moved
  <1>6. \A x \in {"initConnect", "connect"} : x \in Todo(t)' => handle'["send"] = None
    BY DEF Undisturbed
  <1>7. "connect" \notin Todo(t)' => rtmp'.active /\ \E s \in Senders : "sendWait" \in Todo(s)'
    BY <1>4 DEF Undisturbed
  <1>8. "beginActive" \notin Todo(t)' =>
            ~out'.dataActive /\ encoding' = {} /\ Todo("encoder")' = {} /\ phase' # "off"
    BY <1>1, <1>2 DEF Undisturbed
  <1>9. \A s \in Senders : Todo(s)' \subseteq {"sendWait"}
    BY <1>4 DEF Undisturbed
  <1> QED
    BY <1>3, <1>5, <1>6, <1>7, <1>8, <1>9 DEF Undisturbed

LEMMA YoungInside ==
    ASSUME Threaded, OneInv, NEW t \in Threads, NEW h \in YoungSteps, NEW S, Went(t, h, S),
           S \cap (Starts \cup Reconnects) = {}, Steady
    PROVE  /\ Inside(t, S) /\ t \in Connectors /\ Young(t) /\ Undisturbed(t)
           /\ Todo(t)' = S \cup (Todo(t) \ {h}) /\ Least(t, h)
  <1>1. h \notin Starts
    BY DEF YoungSteps, Starts
  <1>2. Least(t, h)
    BY DEF Went
  <1> QED
    BY <1>1, <1>2, WentInside, WentMoved, YoungHead

LEMMA OneInitConnect ==
    ASSUME Shape, Threaded, OneInv, NEW t \in Threads, InitConnect(t)
    PROVE  OneInv'
  <1>1. /\ UNCHANGED <<detached, handle, out, encoding, phase>>
        /\ plan'.start = plan.start /\ plan'.retryMax = plan.retryMax
        /\ rtmp'.connecting = rtmp.connecting /\ rtmp'.stopEvent = rtmp.stopEvent
        /\ rtmp'.active = rtmp.active /\ rtmp'.packets = 0
    <2>1. UNCHANGED plan \/ Fails("settings")
      BY DEF InitConnect
    <2>2. plan'.start = plan.start /\ plan'.retryMax = plan.retryMax
      BY <2>1, Failing DEF Shape
    <2>3. /\ rtmp'.connecting = rtmp.connecting /\ rtmp'.stopEvent = rtmp.stopEvent
          /\ rtmp'.active = rtmp.active /\ rtmp'.packets = 0
      BY DEF InitConnect, Shape, RtmpOK, RtmpType
    <2> QED
      BY <2>2, <2>3 DEF InitConnect
  <1>2. Steady
    BY <1>1 DEF Steady, OneInv, NoRetry
  <1>3. "initConnect" \in YoungSteps /\ "initConnect" \notin Starts
    BY DEF YoungSteps, Starts
  <1>4. Least(t, "initConnect")
    <2>1. At(t, "initConnect")
      BY DEF InitConnect
    <2> QED
      BY <2>1, AtLeast DEF Threaded
  <1>5. /\ t \in Connectors /\ Young(t) /\ Undisturbed(t) /\ ~Fresh
        /\ Todo(t) = {"initConnect", "connect"}
    BY <1>3, <1>4, YoungHead
  <1>6. CASE Went(t, "initConnect", {})
    <2>1. Inside(t, {}) /\ Todo(t)' = Todo(t) \ {"initConnect"}
      BY <1>2, <1>3, <1>6, WentInside, WentMoved
    <2>2. Todo(t)' = {"connect"} /\ "beginActive" \notin Todo(t)
      BY <1>5, <2>1
    <2>3. Undisturbed(t)'
      BY <1>1, <1>5, <2>1, <2>2, StillUndisturbed DEF Undisturbed
    <2>4. ~out'.dataActive
      BY <1>1, <1>5, <2>2 DEF Undisturbed
    <2> QED
      BY <1>1, <1>4, <1>5, <2>1, <2>2, <2>3, <2>4, OneYoungOn
  <1>7. CASE Became(t, {"signalBadPath"})
    <2> DEFINE S == {"signalBadPath"}
    <2>1. S \cap Starts = {} /\ S \cap Reconnects = {} /\ S \cap Clearing = {} /\ S \cap YoungSteps = {}
      BY DEF Starts, Reconnects, Clearing, YoungSteps
    <2>2. Inside(t, S) /\ Todo(t)' = S
      <3>1. Todo(t)' = S /\ Moved(t, S)
        BY <1>7 DEF Became, Moved
      <3>2. t \notin Retriers /\ Todo(t) # {}
        BY <1>5 DEF OneInv, NoRetry
      <3> HIDE DEF S
      <3> QED
        BY <1>2, <1>5, <2>1, <3>1, <3>2 DEF Inside, Steady
    <2>3. ~out.dataActive /\ ~out.active
      BY <1>5 DEF Undisturbed
    <2>4. ~Young(t)'
      BY <2>1, <2>2 DEF Young
    <2> HIDE DEF S
    <2> QED
      BY <1>1, <1>5, <2>1, <2>2, <2>3, <2>4, OneYoungEnds
  <1> QED
    BY <1>6, <1>7, ConnectMoves DEF Threaded

(* The failures of a connection. *)
LEMMA OneConnectFails ==
    ASSUME Shape, Threaded, OneInv, NEW t \in Threads, NEW h \in {"connect", "metaData"},
           NEW x \in Signals, Went(t, h, {x, "connectDetach", "connectDone"}),
           UNCHANGED <<out, handle, rtmp>>,
           plan'.start = plan.start, plan'.retryMax = plan.retryMax
    PROVE  OneInv'
  <1> DEFINE S == {x, "connectDetach", "connectDone"}
  <1>1. /\ S \cap (Starts \cup Reconnects) = {} /\ S \cap Clearing = {} /\ S \cap YoungSteps = {}
        /\ h \in YoungSteps
    BY Apart DEF YoungSteps
  <1>2. Steady
    BY DEF Steady, OneInv, NoRetry
  <1>3. /\ Inside(t, S) /\ t \in Connectors /\ Young(t) /\ Undisturbed(t)
        /\ Todo(t)' = S \cup (Todo(t) \ {h}) /\ Least(t, h)
    BY <1>1, <1>2, YoungInside
  <1>4. Todo(t) = {h}
    BY <1>1, <1>3, YoungHead
  <1>5. ~Young(t)'
    BY <1>1, <1>3, <1>4 DEF Young
  <1>6. ~out.dataActive
    BY <1>3, <1>4 DEF Undisturbed
  <1> HIDE DEF S
  <1> QED
    BY <1>1, <1>3, <1>5, <1>6, OneYoungEnds

LEMMA OneMetaData ==
    ASSUME Shape, Threaded, OneInv, NEW t \in Threads, SendMetaData(t)
    PROVE  OneInv'
  <1> DEFINE S == {"beginCapture", "connectDetach", "connectDone"}
  <1>1. UNCHANGED <<detached, handle, out, rtmp, encoding, phase>>
    BY DEF SendMetaData
  <1>2. CASE UNCHANGED plan /\ Went(t, "metaData", S)
    <2>1. /\ S \cap (Starts \cup Reconnects) = {} /\ "metaData" \in YoungSteps
          /\ S \cap (Late \cup Clearing \cup Signals \cup {"endCapture"}) = {}
      BY DEF Starts, Reconnects, YoungSteps, Late, Clearing, Signals
    <2>2. Steady
      BY <1>1, <1>2 DEF Steady, OneInv, NoRetry
    <2>3. /\ Inside(t, S) /\ t \in Connectors /\ Young(t) /\ Undisturbed(t)
          /\ Todo(t)' = S \cup (Todo(t) \ {"metaData"}) /\ Least(t, "metaData")
      BY <1>2, <2>1, <2>2, YoungInside
    <2>4. Todo(t) = {"metaData"} /\ Todo(t)' = S
      <3>1. Todo(t) = {"metaData"}
        BY <2>1, <2>3, YoungHead
      <3> QED
        BY <2>3, <3>1
    <2>5. ~out.dataActive
      BY <2>3, <2>4 DEF Undisturbed
    <2>6. Undisturbed(t)'
      <3>1. rtmp'.packets = 0
        BY <1>1, <2>3 DEF Undisturbed
      <3> QED
        BY <1>1, <2>1, <2>3, <2>4, <3>1, StillUndisturbed
    <2> QED
      BY <1>1, <2>1, <2>3, <2>4, <2>5, <2>6, OneYoungOn
  <1>3. CASE Fails("server") /\ Went(t, "metaData", {"signalDisconnected", "connectDetach", "connectDone"})
    <2>1. "signalDisconnected" \in Signals
      BY DEF Signals
    <2>2. plan'.start = plan.start /\ plan'.retryMax = plan.retryMax
      BY <1>3, Failing DEF Shape
    <2> QED
      BY <1>1, <1>3, <2>1, <2>2, OneConnectFails
  <1> QED
    BY <1>2, <1>3, ConnectMoves DEF Threaded

LEMMA OneBeginCapture ==
    ASSUME Shape, Threaded, OneInv, NEW t \in Threads, BeginCapture(t)
    PROVE  OneInv' /\ ~out.dataActive /\ phase # "off"
  <1> DEFINE S == {"beginActive", "beginSignal"}
  <1>1. UNCHANGED <<detached, handle, rtmp, phase, plan>>
    BY DEF BeginCapture, front
  <1>2. "beginCapture" \in YoungSteps
    BY DEF YoungSteps
  <1>3. Least(t, "beginCapture")
    <2>1. At(t, "beginCapture")
      BY DEF BeginCapture
    <2> QED
      BY <2>1, AtLeast DEF Threaded
  <1>4. /\ t \in Connectors /\ Young(t) /\ Undisturbed(t) /\ ~Fresh
        /\ Todo(t) = {"beginCapture", "connectDetach", "connectDone"}
    BY <1>2, <1>3, YoungHead
  <1>5. ~out.active /\ ~out.dataActive /\ phase # "off"
    BY <1>4 DEF Undisturbed
  <1>6. Went(t, "beginCapture", S) /\ out' = [out EXCEPT !.dataActive = TRUE]
    BY <1>5, ConnectMoves DEF Threaded
  <1>7. /\ out'.active = out.active /\ out'.ending = out.ending
        /\ ~out'.reconnecting /\ ~out'.reconnectThread
    BY <1>6 DEF Shape, OutOK, OutType, OneInv, NoRetry
  <1>8. /\ S \cap (Starts \cup Reconnects) = {}
        /\ S \cap (Late \cup Clearing \cup Signals \cup {"endCapture"}) = {}
    BY DEF Starts, Reconnects, Late, Clearing, Signals
  <1>9. Inside(t, S) /\ Todo(t)' = S \cup (Todo(t) \ {"beginCapture"})
    <2>1. Steady
      BY <1>1, <1>7 DEF Steady
    <2> QED
      BY <1>2, <1>6, <1>8, <2>1, YoungInside
  <1>10. Todo(t)' = {"beginActive", "beginSignal", "connectDetach", "connectDone"}
    BY <1>4, <1>9
  <1>11. Undisturbed(t)'
    <2>1. rtmp'.packets = 0
      BY <1>1, <1>4 DEF Undisturbed
    <2> QED
      BY <1>1, <1>4, <1>7, <1>8, <1>9, <1>10, <2>1, StillUndisturbed
  <1>12. rtmp'.active /\ \E s \in Senders : "sendWait" \in Todo(s)
    BY <1>1, <1>4 DEF Undisturbed
  <1> HIDE DEF S
  <1> QED
    BY <1>1, <1>3, <1>4, <1>5, <1>7, <1>8, <1>9, <1>10, <1>11, <1>12, OneYoungOn

LEMMA OneBeginActive ==
    ASSUME Shape, Threaded, OneInv, NEW t \in Threads, BeginActive(t)
    PROVE  OneInv'
  <1>1. Went(t, "beginActive", {})
    BY ConnectMoves DEF Threaded
  <1>2. /\ UNCHANGED <<handle, rtmp, plan>>
        /\ out'.active /\ out'.dataActive = out.dataActive /\ out'.ending = out.ending
        /\ ~out'.reconnecting /\ ~out'.reconnectThread
    BY DEF BeginActive, front, Shape, OutOK, OutType, OneInv, NoRetry
  <1>3. "beginActive" \in YoungSteps
    BY DEF YoungSteps
  <1>4. /\ Inside(t, {}) /\ t \in Connectors /\ Young(t)
        /\ Todo(t)' = Todo(t) \ {"beginActive"} /\ Least(t, "beginActive")
    <2>1. Steady
      BY <1>2 DEF Steady
    <2>2. Inside(t, {}) /\ t \in Connectors /\ Young(t) /\ Least(t, "beginActive")
      BY <1>1, <1>3, <2>1, YoungInside
    <2> QED
      BY <1>1, <2>2, WentMoved
  <1>5. Todo(t) = {"beginActive", "beginSignal", "connectDetach", "connectDone"}
    BY <1>3, <1>4, YoungHead
  <1>6. ~Young(t)'
    BY <1>4, <1>5 DEF Young, YoungSteps
  <1> QED
    BY <1>2, <1>4, <1>6, OneYoungEnds

LEMMA OneTryConnect ==
    ASSUME Shape, Threaded, OneInv, NEW t \in Threads, TryConnect(t)
    PROVE  OneInv'
  <1>1. UNCHANGED <<out, encoding, phase, told>>
    BY DEF TryConnect
  <1>2. ASSUME NEW n \in Senders, Forked(t, "connect", {"metaData"}, n, {"sendWait"}),
               handle' = [handle EXCEPT !["send"] = n], detached' = detached \ {n},
               rtmp' = [rtmp EXCEPT !.sem = 0, !.active = TRUE], UNCHANGED plan
        PROVE  OneInv'
    <2>1. /\ n \in Threads /\ n \notin Connectors \cup Retriers \cup {"user", "encoder"}
          /\ Connectors \cup Senders \cup Retriers \subseteq Threads /\ "user" \in Threads
      BY Pools DEF Connectors, Senders, Retriers
    <2>2. Least(t, "connect") /\ "connect" \in YoungSteps
      BY <1>2 DEF Forked, YoungSteps
    <2>3. /\ t \in Connectors /\ Young(t) /\ Undisturbed(t) /\ ~Fresh /\ Todo(t) = {"connect"}
      BY <2>2, YoungHead
    <2>4. /\ Todo(t)' = {"metaData"} /\ Todo(n)' = {"sendWait"} /\ n # t
          /\ \A u \in Threads \ {t, n} : Todo(u)' = Todo(u)
      BY <1>2, <2>1, <2>3 DEF Forked
    <2>5. /\ \A s \in Senders : s # n => Todo(s)' = {}
          /\ \A d \in Connectors : d # t => Todo(d)' = {}
      <3>1. handle["send"] = None
        BY <2>3 DEF Undisturbed
      <3>2. \A s \in Senders : Todo(s) = {}
        BY <2>1, <3>1, OneOfAKind, Pools
      <3>3. \A d \in Connectors : d # t => Todo(d) = {}
        BY <2>3, OneOfAKind
      <3> QED
        BY <2>1, <2>3, <2>4, <3>2, <3>3 DEF Connectors, Senders
    <2>6. /\ ~out.active /\ ~out.dataActive /\ handle["end"] = None /\ ~out.ending
          /\ \A u \in Threads : \A x \in Late : x \notin Todo(u)'
      <3>1. "metaData" \notin Late /\ "sendWait" \notin Late
        BY DEF Late, Signals, Clearing
      <3>2. \A u \in Threads : \A x \in Late : x \notin Todo(u)
        BY <2>3 DEF Undisturbed
      <3> QED
        BY <2>3, <2>4, <3>1, <3>2 DEF Undisturbed, OneInv, EndOnce
    <2>7. /\ rtmp'.active /\ rtmp'.connecting = rtmp.connecting /\ rtmp'.stopEvent = rtmp.stopEvent
          /\ rtmp'.packets = rtmp.packets
      BY <1>2 DEF Shape, RtmpOK, RtmpType
    <2>8. handle'["send"] = n /\ \A k \in Kinds \ {"send"} : handle'[k] = handle[k]
      BY <1>2, Pools DEF Threaded, Handles
    <2>9. OneSession' /\ NoRetry' /\ ~out'.reconnectThread
      <3>1. \A u \in Retriers : Todo(u)' = {}
        BY <2>1, <2>3, <2>4, Pools DEF OneInv, NoRetry, Connectors, Retriers
      <3>2. "metaData" \notin Reconnects /\ "sendWait" \notin Reconnects
        BY DEF Reconnects
      <3> QED
        BY <1>1, <1>2, <2>4, <3>1, <3>2 DEF OneInv, OneSession, NoRetry
    <2>10. FreshBlank'
      <3>1. Todo("user")' = Todo("user")
        BY <2>1, <2>3, <2>4 DEF Connectors
      <3>2. ~Fresh'
        BY <1>2, <2>3, <3>1 DEF Fresh, Starting
      <3> QED
        BY <3>2 DEF FreshBlank
    <2>11. OneEach'
      <3> SUFFICES ASSUME NEW k \in Kinds, NEW u \in Pool[k], Todo(u)' # {} PROVE handle'[k] = u
        BY DEF OneEach, Pool
      <3>1. CASE k = "send"
        BY <2>5, <2>8, <3>1, Pools
      <3>2. CASE k # "send"
        <4>1. u # n /\ u \in Threads
          BY <3>2, Pools
        <4>2. Todo(u) # {}
          BY <2>3, <2>4, <4>1
        <4> QED
          BY <2>8, <3>2, <4>2 DEF OneInv, OneEach
      <3> QED
        BY <3>1, <3>2
    <2>12. Ladder'
      BY <2>4, <2>5 DEF Ladder, Young
    <2>13. SendLadder'
      BY <2>4, <2>5 DEF SendLadder, Clearing
    <2>14. YoungQuiet'
      <3>1. Undisturbed(t)'
        <4>1. rtmp'.connecting /\ t \notin detached' /\ ~rtmp'.stopEvent /\ rtmp'.packets = 0
          BY <1>2, <2>3, <2>7 DEF Undisturbed
        <4>2. handle'["end"] = None
          BY <2>6, <2>8, Pools
        <4>3. \A s \in Senders : Todo(s)' \subseteq {"sendWait"}
          BY <2>4, <2>5
        <4>4. \E s \in Senders : "sendWait" \in Todo(s)'
          BY <2>4
        <4>5. ~out'.dataActive /\ encoding' = {} /\ Todo("encoder")' = {} /\ phase' # "off"
          <5>1. "beginActive" \notin Todo(t)
            BY <2>3
          <5>2. Todo("encoder")' = Todo("encoder")
            BY <2>1, <2>3, <2>4, Pools DEF Connectors
          <5> QED
            BY <1>1, <2>3, <5>1, <5>2 DEF Undisturbed
        <4>6. \A x \in {"initConnect", "connect"} : x \notin Todo(t)'
          BY <2>4
        <4>7. ~out'.active
          BY <1>1, <2>6
        <4> QED
          BY <2>6, <2>7, <4>1, <4>2, <4>3, <4>4, <4>5, <4>6, <4>7 DEF Undisturbed
      <3> QED
        BY <2>5, <3>1 DEF YoungQuiet, Young
    <2>15. Foreign' /\ EndOnce'
      <3>1. Signals \cup Clearing \cup {"endCapture"} \subseteq Late
        BY DEF Late
      <3> QED
        BY <1>1, <2>6, <2>8, <3>1, Pools DEF Foreign, EndOnce
    <2>16. Kept' /\ Begun'
      <3>1. handle'["send"] # None
        BY <2>1, <2>8, Pools
      <3> QED
        BY <1>1, <2>6, <2>7, <3>1 DEF Kept, Begun
    <2> QED
      BY <2>9, <2>10, <2>11, <2>12, <2>13, <2>14, <2>15, <2>16 DEF OneInv
  <1>3. ASSUME Fails("server"), UNCHANGED <<rtmp, handle, detached>>,
               Went(t, "connect", {"signalConnectFailed", "connectDetach", "connectDone"})
        PROVE  OneInv'
    <2>1. "signalConnectFailed" \in Signals
      BY DEF Signals
    <2>2. plan'.start = plan.start /\ plan'.retryMax = plan.retryMax
      BY <1>3, Failing DEF Shape
    <2> QED
      BY <1>1, <1>3, <2>1, <2>2, OneConnectFails
  <1>4. \/ /\ rtmp' = [rtmp EXCEPT !.sem = 0, !.active = TRUE]
           /\ UNCHANGED <<cause, plan>>
           /\ \E n \in Senders :
                  /\ Forked(t, "connect", {"metaData"}, n, {"sendWait"})
                  /\ handle' = [handle EXCEPT !["send"] = n] /\ detached' = detached \ {n}
        \/ /\ Fails("server")
           /\ UNCHANGED <<rtmp, handle, detached>>
           /\ Went(t, "connect", {"signalConnectFailed", "connectDetach", "connectDone"})
    BY ConnectMoves DEF Threaded
  <1> QED
    BY <1>2, <1>3, <1>4

(* A step of the frontend or of the encoder that a connection in progress   *)
(* does not notice.                                                         *)
LEMMA OneAside ==
    ASSUME OneInv, NEW t \in {"user", "encoder"}, NEW S, Inside(t, S),
           S \cap (Late \cup YoungSteps) = {},
           UNCHANGED detached, encoding' \subseteq encoding,
           out'.active = out.active, out'.dataActive = out.dataActive, out'.ending = out.ending,
           rtmp'.active = rtmp.active, rtmp'.connecting = rtmp.connecting,
           rtmp'.stopEvent = rtmp.stopEvent, rtmp'.packets = rtmp.packets,
           phase' # "off" \/ UNCHANGED phase,
           t = "encoder" => Todo("encoder") # {} \/ encoding # {}
    PROVE  OneInv'
  <1>1. t \in Threads \ Senders /\ t \notin Connectors /\ Connectors \cup Senders \subseteq Threads
        /\ "encoder" \in Threads
    BY Pools DEF Connectors, Senders
  <1>2. OneSession' /\ NoRetry' /\ ~out'.reconnectThread /\ FreshBlank' /\ OneEach'
    BY <1>1, OneBasics
  <1>3. SendLadder' /\ Foreign' /\ Kept' /\ EndOnce'
    <2>1. S \cap Clearing = {} /\ \A x \in Signals \cup {"endCapture"} : x \notin S
      BY DEF Late
    <2> QED
      BY <1>1, <2>1, OneOther
  <1>4. /\ \A u \in Connectors \cup Senders : Todo(u)' = Todo(u)
        /\ \A u \in Threads \ {t} : Todo(u)' = Todo(u)
    BY <1>1 DEF Inside, Moved
  <1>5. Ladder'
    BY <1>4 DEF OneInv, Ladder, Young
  <1>6. Begun'
    BY <1>4 DEF OneInv, Begun
  <1>7. YoungQuiet'
    <2> SUFFICES ASSUME NEW c \in Connectors, Young(c)' PROVE Undisturbed(c)'
      BY DEF YoungQuiet
    <2>1. Undisturbed(c)
      BY <1>4 DEF OneInv, YoungQuiet, Young
    <2>2. \A u \in Threads : \A x \in Late : x \notin Todo(u)'
      BY <2>1 DEF Undisturbed, Inside, Moved
    <2>3. "beginActive" \notin Todo(c)' =>
              ~out'.dataActive /\ encoding' = {} /\ Todo("encoder")' = {} /\ phase' # "off"
      <3> SUFFICES ASSUME "beginActive" \notin Todo(c)
                   PROVE  ~out'.dataActive /\ encoding' = {} /\ Todo("encoder")' = {} /\ phase' # "off"
        BY <1>4
      <3>1. ~out.dataActive /\ encoding = {} /\ Todo("encoder") = {} /\ phase # "off"
        BY <2>1 DEF Undisturbed
      <3>2. t # "encoder"
        BY <3>1
      <3> QED
        BY <1>1, <1>4, <3>1, <3>2
    <2>4. UNCHANGED handle
      BY DEF Inside
    <2>5. \A s \in Senders : Todo(s)' = Todo(s)
      BY <1>4
    <2>6. Todo(c)' = Todo(c)
      BY <1>4
    <2>7. /\ rtmp'.connecting /\ c \notin detached'
          /\ ~out'.active /\ ~rtmp'.stopEvent /\ rtmp'.packets = 0 /\ handle'["end"] = None
      BY <2>1, <2>4 DEF Undisturbed
    <2> QED
      BY <2>1, <2>2, <2>3, <2>4, <2>5, <2>6, <2>7 DEF Undisturbed
  <1> QED
    BY <1>2, <1>3, <1>5, <1>6, <1>7 DEF OneInv

(* Stops are the frontend's and the encoder's. *)
LEMMA StopOwner ==
    ASSUME NEW t \in Threads, NEW h \in Stops \cup {"nullPacket"}, NEW S, Went(t, h, S)
    PROVE  t \in {"user", "encoder"} /\ h \in Todo(t) /\ t \notin Senders
  <1>1. h \in Todo(t) /\ h \in Duty(t)
    BY DEF Went, Least
  <1>2. t \in {"user", "encoder"}
    BY <1>1, Duties
  <1> QED
    BY <1>1, <1>2 DEF Senders

LEMMA OneStopAside ==
    ASSUME OneInv, NEW t \in Threads, NEW h \in Stops \cup {"nullPacket"}, NEW S, Went(t, h, S),
           S \subseteq {"cancelRetry", "rtmpStop", "rtmpStopNow"}, Steady,
           UNCHANGED <<detached, phase>>, encoding' \subseteq encoding,
           out'.active = out.active, out'.dataActive = out.dataActive, out'.ending = out.ending,
           rtmp'.active = rtmp.active, rtmp'.connecting = rtmp.connecting,
           rtmp'.stopEvent = rtmp.stopEvent, rtmp'.packets = rtmp.packets
    PROVE  OneInv'
  <1>1. t \in {"user", "encoder"} /\ h \in Todo(t)
    BY StopOwner
  <1>2. S \cap (Late \cup YoungSteps) = {} /\ S \cap (Starts \cup Reconnects) = {} /\ h \notin Starts
    <2>1. \A x \in {"cancelRetry", "rtmpStop", "rtmpStopNow"} :
              x \notin Late /\ x \notin YoungSteps /\ x \notin Starts /\ x \notin Reconnects
      BY DEF Late, Signals, Clearing, YoungSteps, Starts, Reconnects
    <2> QED
      BY <2>1, Apart
  <1>3. Inside(t, S)
    BY <1>2, WentInside
  <1>4. t = "encoder" => Todo("encoder") # {}
    BY <1>1
  <1> QED
    BY <1>1, <1>2, <1>3, <1>4, OneAside

LEMMA OneStopCalls ==
    ASSUME Shape, Threaded, OneInv, NEW t \in Threads,
           ForceStop(t) \/ CancelRetry(t) \/ JoinRetry(t) \/ NullPacket(t)
    PROVE  OneInv'
  <1>1. ~out.reconnecting /\ ~out.reconnectThread /\ out \in OutType(plan.retryMax) /\ rtmp \in RtmpType
    BY DEF OneInv, NoRetry, Shape, OutOK, RtmpOK
  <1>2. CASE ForceStop(t)
    <2>1. Went(t, "forceStop", {"cancelRetry", "rtmpStopNow"}) /\ "forceStop" \in Stops
      BY <1>2, StopMoves DEF Threaded, Stops
    <2>2. UNCHANGED <<detached, handle, rtmp, encoding, phase, plan>>
      BY <1>2 DEF ForceStop, front
    <2>3. /\ out'.active = out.active /\ out'.dataActive = out.dataActive /\ out'.ending = out.ending
          /\ ~out'.reconnecting /\ ~out'.reconnectThread
      BY <1>1, <1>2 DEF ForceStop, OutType
    <2> QED
      BY <2>1, <2>2, <2>3, OneStopAside DEF Steady
  <1>3. CASE CancelRetry(t) \/ JoinRetry(t)
    <2>1. \E h \in Stops : Went(t, h, {})
      <3>1. "cancelRetry" \in Stops /\ "joinRetry" \in Stops
        BY DEF Stops
      <3> QED
        BY <1>1, <1>3, <3>1, StopMoves DEF Threaded
    <2>2. PICK h \in Stops : Went(t, h, {})
      BY <2>1
    <2>3. UNCHANGED <<detached, handle, out, rtmp, encoding, phase, plan>>
      BY <1>1, <1>3 DEF CancelRetry, JoinRetry, front
    <2>4. Steady
      BY <1>1, <2>3 DEF Steady
    <2> QED
      BY <2>2, <2>3, <2>4, OneStopAside
  <1>4. CASE NullPacket(t)
    <2>1. Went(t, "nullPacket", {})
      BY <1>4, StopMoves DEF Threaded
    <2>2. UNCHANGED <<detached, handle, out, phase, plan>> /\ encoding' \subseteq encoding
      BY <1>4 DEF NullPacket, front
    <2>3. /\ rtmp'.active = rtmp.active /\ rtmp'.connecting = rtmp.connecting
          /\ rtmp'.stopEvent = rtmp.stopEvent /\ rtmp'.packets = rtmp.packets
      BY <1>1, <1>4 DEF NullPacket, RtmpType
    <2>4. Steady
      BY <1>1, <2>2 DEF Steady
    <2> QED
      BY <2>1, <2>2, <2>3, <2>4, OneStopAside
  <1> QED
    BY <1>2, <1>3, <1>4

(* A stop that has joined the connect thread finds no capture about to begin. *)
LEMMA ConnectEndedNoYoung ==
    ASSUME Threaded, OneInv, ConnectEnded
    PROVE  NoYoung
  <1> SUFFICES ASSUME NEW c \in Connectors, Young(c) PROVE FALSE
    BY DEF NoYoung
  <1>1. Undisturbed(c) /\ Todo(c) # {} /\ c \in Threads /\ c # None
    BY Pools DEF OneInv, YoungQuiet, Young
  <1>2. handle["connect"] = c
    BY <1>1, OneOfAKind
  <1>3. ~Idle(c)
    BY <1>1, IdleTodo DEF Threaded
  <1>4. Joinable("connect")
    BY <1>1 DEF ConnectEnded, Undisturbed
  <1> QED
    BY <1>1, <1>2, <1>3, <1>4 DEF Joinable, Undisturbed

LEMMA OneRtmpStop ==
    ASSUME Shape, Threaded, OneInv, NEW t \in Threads, RtmpStop(t)
    PROVE  OneInv'
  <1>1. UNCHANGED <<detached, handle, out, rtmp, encoding, phase, plan>>
    BY DEF RtmpStop, front
  <1>2. Steady /\ "rtmpStop" \in Stops /\ "rtmpStopNow" \in Stops
    BY <1>1 DEF Steady, OneInv, NoRetry, Stops
  <1>3. CASE Went(t, "rtmpStop", {})
    BY <1>1, <1>2, <1>3, OneStopAside
  <1>4. ASSUME ConnectEnded, NEW h \in Stops, NEW x \in {"rtmpSignal", "rtmpSignalNow"}, Went(t, h, {x})
        PROVE  OneInv'
    <2>1. x \in Stops
      BY DEF Stops
    <2>2. /\ {x} \cap (Starts \cup Reconnects) = {} /\ {x} \cap YoungSteps = {} /\ {x} \cap Clearing = {}
          /\ ~(\E y \in Signals \cup {"endCapture"} : y \in {x}) /\ h \notin Starts
      BY <2>1, Apart
    <2>3. Inside(t, {x})
      BY <1>2, <1>4, <2>2, WentInside
    <2>4. NoYoung /\ (out.dataActive => out.active)
      BY <1>4, ConnectEndedNoYoung, NoYoungData
    <2>5. NoYoung'
      BY <2>2, <2>3, <2>4, NoYoungKept DEF Inside
    <2>6. t \in Threads \ Senders
      BY <1>4, StopOwner
    <2> QED
      BY <1>1, <2>2, <2>3, <2>4, <2>5, <2>6, OneLater
  <1> QED
    BY <1>2, <1>3, <1>4, StopMoves DEF Threaded

LEMMA OneRtmpSignal ==
    ASSUME Shape, Threaded, OneInv, NEW t \in Threads, RtmpSignal(t)
    PROVE  OneInv'
  <1>1. UNCHANGED <<detached, handle, out, encoding, phase, plan>>
    BY DEF RtmpSignal, front
  <1>2. rtmp'.active = rtmp.active
    BY DEF RtmpSignal, Shape, RtmpOK, RtmpType
  <1>3. \E h \in {"rtmpSignal", "rtmpSignalNow"} :
            Went(t, h, {}) \/ (~rtmp.active /\ Went(t, h, {"signalSuccess"}))
    <2>1. PICK h \in {"rtmpSignal", "rtmpSignalNow"} :
              \/ /\ rtmp.active
                 /\ rtmp' = [rtmp EXCEPT !.stopNow = At(t, "rtmpSignalNow"), !.stopEvent = TRUE,
                                         !.sem = IF At(t, "rtmpSignalNow") THEN @ + 1 ELSE @]
                 /\ Went(t, h, {})
              \/ /\ ~rtmp.active
                 /\ rtmp' = [rtmp EXCEPT !.stopNow = At(t, "rtmpSignalNow")]
                 /\ Went(t, h, {"signalSuccess"})
      BY StopMoves DEF Threaded
    <2> QED
      BY <2>1
  <1>4. PICK h \in {"rtmpSignal", "rtmpSignalNow"}, S \in {{}, {"signalSuccess"}} :
            Went(t, h, S) /\ (S = {} \/ ~rtmp.active)
    BY <1>3
  <1>5. h \in Late /\ h \in Stops /\ "signalSuccess" \in Signals
    BY DEF Late, Stops, Signals
  <1>6. S \cap (Starts \cup Reconnects) = {} /\ S \cap YoungSteps = {} /\ S \cap Clearing = {}
        /\ h \notin Starts
    BY <1>4, <1>5, Apart
  <1>7. Steady
    BY <1>1 DEF Steady, OneInv, NoRetry
  <1>8. Inside(t, S) /\ h \in Todo(t) /\ t \in Threads \ Senders
    BY <1>4, <1>5, <1>6, <1>7, WentInside, StopOwner
  <1>9. NoYoung /\ (out.dataActive => out.active)
    BY <1>5, <1>8, LateNoYoung, NoYoungData
  <1>10. NoYoung'
    BY <1>6, <1>8, <1>9, NoYoungKept DEF Inside
  <1>11. (\E y \in Signals \cup {"endCapture"} : y \in S) => ~out.dataActive
    BY <1>4 DEF OneInv, Kept
  <1> QED
    BY <1>1, <1>2, <1>6, <1>8, <1>9, <1>10, <1>11, OneLater

LEMMA OneStop ==
    ASSUME Shape, Threaded, OneInv, NEW t \in Threads, Stop(t)
    PROVE  OneInv'
  BY OneStopCalls, OneRtmpStop, OneRtmpSignal DEF Stop

(* The calls of the frontend and of an encoder that fails. *)
LEMMA OneFrontCalls ==
    ASSUME Shape, Threaded, OneInv, UserStop \/ UserForceStop \/ EncodeError
    PROVE  OneInv'
  <1>1. PICK t \in {"user", "encoder"}, S \in SUBSET {"forceStop", "cancelRetry", "rtmpStop", "nullPacket"} :
            /\ Became(t, S) /\ Todo(t) = {}
            /\ t = "encoder" <=> EncodeError
    <2>1. ~(UserStop /\ EncodeError) /\ ~(UserForceStop /\ EncodeError)
      <3>1. Spend("stop") => ~Spend("fault")
        BY DEF Spend, Shape, FrontOK, PlanType
      <3> QED
        BY <3>1 DEF UserStop, UserForceStop, EncodeError, Fails
    <2>2. CASE EncodeError
      <3>1. Became("encoder", {"forceStop", "nullPacket"}) /\ Todo("encoder") = {}
        BY <2>2, FrontMoves DEF Threaded
      <3> QED
        BY <2>2, <3>1
    <2>3. CASE UserStop \/ UserForceStop
      <3>1. Todo("user") = {} /\ \E S \in {{"forceStop"}, {"cancelRetry", "rtmpStop"}} : Became("user", S)
        BY <2>3, FrontMoves DEF Threaded
      <3> QED
        BY <2>1, <2>3, <3>1
    <2> QED
      BY <2>2, <2>3
  <1>2. /\ UNCHANGED <<detached, handle, rtmp, encoding>>
        /\ out'.active = out.active /\ out'.dataActive = out.dataActive /\ out'.ending = out.ending
        /\ ~out'.reconnecting /\ ~out'.reconnectThread
        /\ phase' # "off" \/ UNCHANGED phase
    BY DEF UserStop, UserForceStop, EncodeError, Shape, OutOK, OutType, OneInv, NoRetry
  <1>3. plan'.start = plan.start /\ plan'.retryMax = plan.retryMax
    <2>1. Spend("stop") \/ Spend("fault")
      BY DEF UserStop, UserForceStop, EncodeError, Fails
    <2> QED
      BY <2>1, Spending DEF Shape
  <1>4. ~Fresh
    <2> SUFFICES ASSUME Fresh PROVE FALSE
      OBVIOUS
    <2>1. Blank /\ (Starting => phase # "off") /\ (plan.start > 0 => phase = "off")
      BY DEF OneInv, FreshBlank
    <2>2. CASE EncodeError
      BY <2>1, <2>2 DEF EncodeError, Blank
    <2>3. CASE UserStop
      BY <2>1, <2>3 DEF UserStop, Blank, OneInv, NoRetry
    <2>4. CASE UserForceStop
      <3>1. Todo("user") = {} /\ phase # "off"
        BY <2>4, FrontMoves DEF UserForceStop, Threaded
      <3> QED
        BY <2>1, <3>1 DEF Fresh, Starting
    <2> QED
      BY <2>2, <2>3, <2>4
  <1>5. /\ S \cap (Late \cup YoungSteps) = {} /\ S \cap (Starts \cup Reconnects) = {}
    <2>1. \A x \in {"forceStop", "cancelRetry", "rtmpStop", "nullPacket"} :
              x \notin Late /\ x \notin YoungSteps /\ x \notin Starts /\ x \notin Reconnects
      BY DEF Late, Signals, Clearing, YoungSteps, Starts, Reconnects
    <2> QED
      BY <1>1, <2>1
  <1>6. t \in Threads /\ t \notin Retriers
    BY Pools DEF Retriers
  <1>7. Inside(t, S)
    <2>1. Moved(t, S)
      BY <1>1, <1>6 DEF Became, Moved
    <2> QED
      BY <1>2, <1>3, <1>4, <1>5, <1>6, <2>1 DEF Inside
  <1>8. t = "encoder" => encoding # {}
    BY <1>1 DEF EncodeError
  <1> QED
    BY <1>2, <1>5, <1>7, <1>8, OneAside

LEMMA OnePacket ==
    ASSUME Shape, Threaded, OneInv, Packet \/ UNCHANGED vars
    PROVE  OneInv'
  <1>1. \A u \in Threads : Todo(u)' = Todo(u)
    BY FrontMoves DEF Threaded
  <1>2. CASE Packet
    <2>1. /\ UNCHANGED <<out, handle, plan>> /\ rtmp'.active = rtmp.active /\ out.active
      BY <1>2 DEF Packet, front, Shape, RtmpOK, RtmpType
    <2>2. ~Fresh
      BY <2>1 DEF OneInv, FreshBlank, Blank
    <2>3. \A c \in Connectors : ~Young(c)
      BY <2>1 DEF OneInv, YoungQuiet, Undisturbed
    <2> QED
      BY <1>1, <2>1, <2>2, <2>3, OneStill
  <1>3. CASE UNCHANGED vars
    <2>1. UNCHANGED <<code, detached, handle, out, rtmp, encoding, phase, plan>>
      BY <1>3 DEF vars, front
    <2>2. \A c \in Connectors : Undisturbed(c) => Undisturbed(c)'
      BY <1>1, <2>1, Pools DEF Undisturbed, Todo
    <2>3. \A c \in Connectors : Young(c) => Undisturbed(c)'
      BY <2>2 DEF OneInv, YoungQuiet
    <2> QED
      BY <1>1, <1>3, <2>1, <2>3, OneStill
  <1> QED
    BY <1>2, <1>3

LEMMA OneStep ==
    ASSUME Shape, Threaded, OneInv, [Next]_vars
    PROVE  OneInv'
  <1>1. ASSUME NEW t \in Threads, Shared(t) PROVE OneInv'
    <2>1. ~Reconnect(t) /\ ~ReconnectSpawn(t)
      BY RetriesNever DEF OneInv
    <2> QED
      BY <1>1, <2>1, OneSignalStop, OneEndInactive, OneEndBegin, OneEndOn, OneEndSpawn, OneEndSignal
         DEF Shared
  <1>2. ASSUME NEW t \in Threads, EndThread(t) \/ RetryThread(t) PROVE OneInv'
    BY <1>2, RetriesNever, OneEndThread DEF OneInv
  <1>3. ASSUME NEW t \in Threads, Start(t) PROVE OneInv'
    BY <1>3, OneStartOn, OneStartConnect DEF Start
  <1>4. ASSUME NEW t \in Threads, ConnectThread(t) PROVE OneInv'
    BY <1>4, OneInitConnect, OneTryConnect, OneMetaData, OneBeginCapture, OneBeginActive,
       OneConnectRest DEF ConnectThread
  <1>5. ASSUME NEW t \in Threads, SendThread(t) \/ Stop(t) \/ NullPacket(t) PROVE OneInv'
    BY <1>5, OneSendThread, OneStop, OneStopCalls
  <1> QED
    BY <1>1, <1>2, <1>3, <1>4, <1>5, OneUserStart, OneFrontCalls, OnePacket DEF Next, Step

LEMMA OneInit ==
    ASSUME Init, OneSession
    PROVE  OneInv
  <1>1. \A t \in Threads : Todo(t) = {}
    BY Words DEF Init, Todo
  <1>2. Retriers \subseteq Threads /\ "user" \in Threads
    BY Pools
  <1>3. Untroubled
    BY <1>1, <1>2 DEF Init, Untroubled
  <1>4. NoRetry /\ ~out.reconnectThread
    BY <1>1, <1>2 DEF Init, NoRetry, OneSession
  <1>5. Blank
    BY DEF Init, Blank
  <1>6. FreshBlank
    <2>1. ~Starting
      BY <1>1, <1>2 DEF Starting
    <2>2. phase = "off" /\ Todo("user") = {}
      BY <1>1, <1>2 DEF Init
    <2> QED
      BY <1>1, <1>5, <2>1, <2>2 DEF FreshBlank
  <1> QED
    BY <1>3, <1>4, <1>6, UntroubledParts DEF OneInv

(* The only wait of one session is a stop's for the connect thread, and the *)
(* end thread's for the encoder.                                            *)
LEMMA FewWait ==
    ASSUME Threaded, OneInv, NEW t \in Threads, Blocked(t)
    PROVE  \/ (At(t, "rtmpStopNow") \/ At(t, "rtmpStop")) /\ ~ConnectEnded
           \/ At(t, "stopEncoders") /\ ~Idle("encoder")
  <1>1. \A h : At(t, h) => h \in Todo(t)
    BY AtLeast DEF Threaded, Least
  <1>2. ~(At(t, "startWait") /\ out.stopping) /\ ~(At(t, "startConnect") /\ out.ending)
    <2> SUFFICES ASSUME At(t, "startWait") \/ At(t, "startConnect") PROVE ~out.stopping /\ ~out.ending
      OBVIOUS
    <2>1. PICK h \in Starts : h \in Todo(t)
      BY <1>1 DEF Starts
    <2>2. t = "user"
      BY <2>1, Owners DEF OneInv, NoRetry
    <2>3. Fresh
      BY <2>1, <2>2 DEF Fresh, Starting
    <2> QED
      BY <2>3 DEF OneInv, FreshBlank, Blank
  <1>3. ~(At(t, "endJoin") /\ out.ending)
    BY <1>1 DEF OneInv, EndOnce, Clearing
  <1>4. ~(At(t, "joinRetry") /\ out.reconnectThread)
    BY DEF OneInv
  <1>5. ~(At(t, "initConnect") /\ rtmp.stopEvent)
    <2> SUFFICES ASSUME At(t, "initConnect") PROVE ~rtmp.stopEvent
      OBVIOUS
    <2>1. Young(t)
      BY <1>1 DEF Young, YoungSteps
    <2> QED
      BY <2>1, Owners DEF OneInv, YoungQuiet, Undisturbed
  <1> QED
    BY <1>2, <1>3, <1>4, <1>5 DEF Blocked

LEMMA OneNoDeadlock ==
    ASSUME Threaded, OneInv
    PROVE  NoDeadlock
  <1> DEFINE Runs(u) == ~(Idle(u) \/ Blocked(u) \/ At(u, "sendWait"))
  <1>1. \A u \in Threads : \A h : At(u, h) => h \in Duty(u)
    BY HeadDuty DEF Threaded
  <1>2. ~ConnectEnded => \E u \in Threads : Runs(u)
    <2> SUFFICES ASSUME rtmp.connecting, ~Joinable("connect") PROVE \E u \in Threads : Runs(u)
      BY DEF ConnectEnded
    <2> DEFINE c == handle["connect"]
    <2>1. c \in Connectors /\ ~Idle(c)
      BY Pools DEF Joinable, Threaded, Handles
    <2>2. c \in Threads
      BY <2>1, Pools
    <2>3. /\ "rtmpStop" \notin Duty(c) /\ "rtmpStopNow" \notin Duty(c) /\ "stopEncoders" \notin Duty(c)
          /\ "sendWait" \notin Duty(c)
      BY <2>1 DEF Duty, Connectors, Calls, Signals, ConnectSteps
    <2> HIDE DEF c
    <2>4. ~Blocked(c) /\ ~At(c, "sendWait")
      BY <1>1, <2>2, <2>3, FewWait
    <2> QED
      BY <2>1, <2>2, <2>4
  <1>3. ~Idle("encoder") => \E u \in Threads : Runs(u)
    <2> SUFFICES ASSUME ~Idle("encoder"), ConnectEnded PROVE \E u \in Threads : Runs(u)
      BY <1>2
    <2>1. "encoder" \in Threads
      BY Pools
    <2>2. "stopEncoders" \notin Duty("encoder") /\ "sendWait" \notin Duty("encoder")
      BY DEF Duty, Calls, Signals, Stops
    <2>3. ~Blocked("encoder") /\ ~At("encoder", "sendWait")
      BY <1>1, <2>1, <2>2, FewWait
    <2> QED
      BY <2>1, <2>3
  <1>4. ASSUME NEW t \in Threads, Blocked(t) PROVE \E u \in Threads : Runs(u)
    BY <1>2, <1>3, <1>4, FewWait
  <1> QED
    BY <1>4 DEF NoDeadlock

(* Who begins a capture. *)
LEMMA OnlyBeginCapture ==
    ASSUME Shape, [Next]_vars, ~out.dataActive, out'.dataActive
    PROVE  \E t \in Threads : BeginCapture(t)
  <1>1. out \in OutType(plan.retryMax)
    BY DEF Shape, OutOK
  <1>2. ASSUME NEW t \in Threads, Shared(t) PROVE FALSE
    BY <1>1, <1>2 DEF OutType, Shared, SignalStop, EndCaptureInactive, EndCaptureBegin, EndCaptureClear,
                EndCaptureJoin, EndCaptureSpawn, EndCaptureSignal, Reconnect, ReconnectSpawn
  <1>3. ASSUME NEW t \in Threads, EndThread(t) \/ RetryThread(t) PROVE FALSE
    BY <1>1, <1>3 DEF OutType, EndThread, StopEncoders, Deactivate, SignalStopped, EndThreadDone,
                RetryThread, RetryBegin, RetryWait, RetryEnd, RetryDone
  <1>4. ASSUME NEW t \in Threads, Start(t) \/ SendThread(t) \/ Stop(t) \/ NullPacket(t) PROVE FALSE
    BY <1>1, <1>4 DEF OutType, Start, StartWait, StartCheck, StartConnect, NullPacket,
                SendThread, SendFinish, SendPacket, SendFail, SendEnd, SendCleanUp,
                Stop, ForceStop, CancelRetry, JoinRetry, RtmpStop, RtmpSignal
  <1>5. ASSUME NEW t \in Threads, ConnectThread(t) PROVE BeginCapture(t)
    BY <1>1, <1>5 DEF OutType, ConnectThread, InitConnect, TryConnect, SendMetaData, BeginActive,
                BeginSignal, ConnectDetach, ConnectDone
  <1>6. ~(UserStart \/ UserStop \/ UserForceStop \/ Packet \/ EncodeError \/ UNCHANGED vars)
    BY <1>1 DEF OutType, UserStart, UserStop, UserForceStop, Packet, EncodeError, vars
  <1> QED
    BY <1>2, <1>3, <1>4, <1>5, <1>6 DEF Next, Step

LEMMA OneKept == Spec /\ OneSession => [](Shape /\ Threaded /\ OneInv)
  <1>1. Init /\ OneSession => Shape /\ Threaded /\ OneInv
    BY TypeInit, TypeParts, OneInit
  <1>2. Shape /\ Threaded /\ OneInv /\ [Next]_vars => (Shape /\ Threaded /\ OneInv)'
    BY ShapeStep, ThreadedStep, OneStep
  <1> QED
    BY <1>1, <1>2, PTL DEF Spec

(* rtmp_stream_stop joins the connect thread, init_connect and               *)
(* obs_output_actual_start join or wait for the threads of an earlier        *)
(* session, end_data_capture_thread waits for the encoder: in one session,   *)
(* however often it is stopped and whatever fails in it, these waits never   *)
(* close a circle, and one thread at least goes on.                          *)
THEOREM NobodyWaits == Spec /\ OneSession => []NoDeadlock
  <1>1. Shape /\ Threaded /\ OneInv => NoDeadlock
    BY OneNoDeadlock
  <1> QED
    BY <1>1, OneKept, PTL

(* obs_output_begin_data_capture is reached only while the frontend takes    *)
(* the output to be running: no "stop" was signalled before the connection   *)
(* was made, however the stop and the connect thread interleave.             *)
THEOREM NobodyRevives == Spec /\ OneSession => NoRevival
  <1>1. Shape /\ Threaded /\ OneInv /\ [Next]_vars => [~out.dataActive /\ out'.dataActive => phase # "off"]_vars
    <2> SUFFICES ASSUME Shape, Threaded, OneInv, [Next]_vars, ~out.dataActive, out'.dataActive
                 PROVE  phase # "off"
      OBVIOUS
    <2>1. PICK t \in Threads : BeginCapture(t)
      BY OnlyBeginCapture
    <2> QED
      BY <2>1, OneBeginCapture
  <1> QED
    BY <1>1, OneKept, PTL DEF Spec, NoRevival

(* What is said of a session. *)
Blames == {"signalDisconnected", "signalConnectFailed", "signalBadPath", "signalEncodeError", "sendEnd"}

LEMMA WhoNames ==
    /\ DOMAIN Who = {"DISCONNECTED", "CONNECT_FAILED", "ENCODE_ERROR", "BAD_PATH"}
    /\ \A c \in DOMAIN Who : /\ c \in Codes /\ c # "SUCCESS" /\ SignalStopOf[c] \in Blames
                             /\ SignalStopOf[c] \in Signals
    /\ \A c \in DOMAIN Who : \A d \in Codes : SignalStopOf[c] = SignalStopOf[d] => c = d
    /\ \A c \in Codes : c # "SUCCESS" => c \in DOMAIN Who
    /\ Who["DISCONNECTED"] = "server" /\ Who["CONNECT_FAILED"] = "server"
    /\ Who["ENCODE_ERROR"] = "encoder" /\ Who["BAD_PATH"] = "settings"
  BY SignalNames DEF Who, Blames, Signals

LEMMA Told ==
    ASSUME NEW q \in Seq(Codes), NEW e \in Codes
    PROVE  \A i \in DOMAIN Append(q, e) : Append(q, e)[i] = e \/ (i \in DOMAIN q /\ Append(q, e)[i] = q[i])
  OBVIOUS

(* Thread t has done a step; any thread it has started has nothing to say. *)
Advanced(t, S) ==
    /\ \A u \in Threads \ {t} : \/ Todo(u)' = Todo(u)
                                \/ u \in Spawned /\ \A x \in Blames : x \notin Todo(u)'
    /\ \A x \in Todo(t)' : x \in Todo(t) \/ x \in S

LEMMA HeardOn ==
    ASSUME Shape, Unheard, Sources, NEW t \in Threads, NEW S, Advanced(t, S), cause \subseteq cause',
           \A c \in DOMAIN Who : SignalStopOf[c] \in S => Who[c] \in cause',
           \/ out'.stopCode = out.stopCode \/ out'.stopCode = "SUCCESS"
           \/ \E c \in DOMAIN Who : out'.stopCode = c /\ SignalStopOf[c] \in Todo(t),
           told' \in {told, <<>>, Append(told, out.stopCode)},
           t = "encoder" => "encoder" \in cause',
           rtmp'.encodeError => rtmp.encodeError \/ "encoder" \in cause',
           "sendEnd" \in S => rtmp'.stopEvent \/ "server" \in cause',
           rtmp.stopEvent => rtmp'.stopEvent \/ \A s \in Senders : "sendEnd" \notin Todo(s)'
    PROVE  Unheard' /\ Sources'
  <1>1. "encoder" \in Threads /\ "encoder" \notin Spawned /\ Senders \subseteq Threads
    BY Pools DEF Connectors, Senders, Retriers, Enders
  <1>2. Unheard'
    <2> SUFFICES ASSUME NEW c \in DOMAIN Who, Who[c] \notin cause'
                 PROVE  /\ out'.stopCode # c /\ \A i \in DOMAIN told' : told'[i] # c
                        /\ \A u \in Threads : SignalStopOf[c] \notin Todo(u)'
      BY DEF Unheard
    <2>1. /\ out.stopCode # c /\ \A i \in DOMAIN told : told[i] # c
          /\ \A u \in Threads : SignalStopOf[c] \notin Todo(u)
      BY DEF Unheard
    <2>2. out'.stopCode # c
      BY <2>1, WhoNames
    <2>3. \A i \in DOMAIN told' : told'[i] # c
      <3>1. out.stopCode \in Codes /\ told \in Seq(Codes)
        BY DEF Shape, OutOK, OutType, FrontOK
      <3>2. CASE told' = Append(told, out.stopCode)
        BY <2>1, <3>1, <3>2, Told
      <3>3. CASE told' \in {told, <<>>}
        BY <2>1, <3>3
      <3> QED
        BY <3>2, <3>3
    <2>4. \A u \in Threads : SignalStopOf[c] \notin Todo(u)'
      <3>1. SignalStopOf[c] \in Blames
        BY WhoNames
      <3> QED
        BY <2>1, <3>1 DEF Advanced
    <2> QED
      BY <2>2, <2>3, <2>4
  <1>3. Sources'
    <2>1. "encoder" \notin cause' => ~rtmp'.encodeError /\ Todo("encoder")' = {}
      BY <1>1 DEF Sources, Advanced
    <2>2. ASSUME NEW s \in Senders, "sendEnd" \in Todo(s)' PROVE rtmp'.stopEvent \/ "server" \in cause'
      <3>1. "sendEnd" \in Blames
        BY DEF Blames
      <3>2. "sendEnd" \in Todo(s) \/ "sendEnd" \in S
        BY <1>1, <2>2, <3>1 DEF Advanced
      <3> QED
        BY <2>2, <3>2 DEF Sources
    <2> QED
      BY <2>1, <2>2 DEF Sources
  <1> QED
    BY <1>2, <1>3

LEMMA HeardWent ==
    ASSUME Shape, Unheard, Sources, NEW t \in Threads, NEW h, NEW S, Went(t, h, S), S \cap Blames = {},
           UNCHANGED cause, told' \in {told, Append(told, out.stopCode)},
           out'.stopCode \in {out.stopCode, "SUCCESS"},
           rtmp'.encodeError => rtmp.encodeError \/ t = "encoder",
           rtmp.stopEvent => rtmp'.stopEvent
    PROVE  Unheard' /\ Sources'
  <1>1. Advanced(t, S) /\ h \in Todo(t)
    BY WentMoved DEF Moved, Advanced
  <1>2. t = "encoder" => "encoder" \in cause'
    BY <1>1 DEF Sources
  <1>3. \A c \in DOMAIN Who : SignalStopOf[c] \notin S
    BY WhoNames
  <1>4. "sendEnd" \notin S
    BY DEF Blames
  <1> QED
    BY <1>1, <1>2, <1>3, <1>4, HeardOn

LEMMA HeardShared ==
    ASSUME Shape, Threaded, OneInv, Unheard, Sources, NEW t \in Threads, Shared(t)
    PROVE  Unheard' /\ Sources'
  <1>1. ~Reconnect(t) /\ ~ReconnectSpawn(t)
    BY RetriesNever DEF OneInv
  <1>2. out \in OutType(plan.retryMax)
    BY DEF Shape, OutOK
  <1>3. ASSUME NEW c \in Codes, SignalStop(t, c) PROVE Unheard' /\ Sources'
    <2>1. ~CanReconnect(c)
      BY DEF CanReconnect, OneInv, NoRetry
    <2>2. Went(t, SignalStopOf[c], {"endCapture"})
      BY <1>3, <2>1, SharedMoves DEF Threaded
    <2>3. Advanced(t, {"endCapture"}) /\ SignalStopOf[c] \in Todo(t)
      BY <2>2, WentMoved DEF Moved, Advanced
    <2>4. out'.stopCode = c /\ UNCHANGED <<rtmp, told, cause>>
      BY <1>2, <1>3, <2>1 DEF SignalStop, front, OutType
    <2>5. c = "SUCCESS" \/ c \in DOMAIN Who
      BY WhoNames
    <2>6. (\A d \in DOMAIN Who : SignalStopOf[d] \notin {"endCapture"}) /\ "sendEnd" \notin {"endCapture"}
      BY WhoNames DEF Signals
    <2>7. t = "encoder" => "encoder" \in cause'
      BY <2>3, <2>4 DEF Sources
    <2>8. \/ out'.stopCode = "SUCCESS"
          \/ \E d \in DOMAIN Who : out'.stopCode = d /\ SignalStopOf[d] \in Todo(t)
      BY <2>3, <2>4, <2>5
    <2> QED
      BY <2>3, <2>4, <2>6, <2>7, <2>8, HeardOn
  <1>4. CASE EndCaptureInactive(t) \/ EndCaptureSignal(t)
    <2>1. \E h \in {"endCapture", "endCaptureQuietly", "endSignal"} : Went(t, h, {})
      BY <1>4, SharedMoves DEF EndCaptureInactive, Threaded
    <2>2. UNCHANGED <<rtmp, cause>> /\ told' \in {told, Append(told, out.stopCode)}
          /\ out'.stopCode \in {out.stopCode, "SUCCESS"}
      BY <1>2, <1>4 DEF EndCaptureInactive, EndCaptureSignal, EmitStop, OutType
    <2> QED
      BY <2>1, <2>2, HeardWent
  <1>5. CASE EndCaptureBegin(t) \/ EndCaptureClear(t) \/ EndCaptureJoin(t)
    <2>1. \E h \in Calls : \E S \in SUBSET (Clearing \cup {"endSignal"}) : Went(t, h, S)
      <3>1. {"endCapture", "endCaptureQuietly", "endClear", "endJoin"} \subseteq Calls
        BY DEF Calls
      <3>2. {} \in SUBSET (Clearing \cup {"endSignal"})
            /\ {"endClear", "endJoin", "endSpawn", "endSignal"} \in SUBSET (Clearing \cup {"endSignal"})
            /\ {"endClear", "endJoin", "endSpawn"} \in SUBSET (Clearing \cup {"endSignal"})
        BY DEF Clearing
      <3> QED
        BY <1>5, <3>1, <3>2, SharedMoves DEF Threaded
    <2>2. PICK h \in Calls, S \in SUBSET (Clearing \cup {"endSignal"}) : Went(t, h, S)
      BY <2>1
    <2>3. UNCHANGED <<rtmp, cause, told>> /\ out'.stopCode = out.stopCode
      BY <1>2, <1>5 DEF EndCaptureBegin, EndCaptureClear, EndCaptureJoin, front, OutType
    <2>4. S \cap Blames = {}
      BY DEF Clearing, Blames
    <2> QED
      BY <2>2, <2>3, <2>4, HeardWent
  <1>6. CASE EndCaptureSpawn(t)
    <2>1. PICK n \in Enders : Forked(t, "endSpawn", {}, n, EndSteps)
      BY <1>6, SharedMoves DEF Threaded
    <2>2. n \in Threads /\ n \in Spawned
      BY Pools
    <2>3. Advanced(t, {}) /\ "endSpawn" \in Todo(t)
      <3>1. \A x \in Blames : x \notin EndSteps
        BY DEF Blames, EndSteps
      <3>2. "endSpawn" \in Todo(t)
        BY <2>1 DEF Forked, Least
      <3>3. /\ \A u \in Threads \ {t, n} : Todo(u)' = Todo(u)
            /\ Todo(t)' = {} \cup (Todo(t) \ {"endSpawn"}) /\ Todo(n)' = EndSteps
        BY <2>1, <2>2, OthersForked
      <3> QED
        BY <2>2, <3>1, <3>2, <3>3 DEF Advanced
    <2>4. UNCHANGED <<rtmp, cause, told>> /\ out'.stopCode = out.stopCode
      BY <1>2, <1>6 DEF EndCaptureSpawn, front, OutType
    <2>5. t = "encoder" => "encoder" \in cause'
      BY <2>3, <2>4 DEF Sources
    <2> QED
      BY <2>3, <2>4, <2>5, HeardOn
  <1> QED
    BY <1>1, <1>3, <1>4, <1>5, <1>6 DEF Shared

LEMMA HeardStill ==
    ASSUME Unheard, Sources, \A u \in Threads : Todo(u)' = Todo(u), UNCHANGED told,
           cause' = cause, out'.stopCode = out.stopCode,
           rtmp'.encodeError = rtmp.encodeError, rtmp'.stopEvent = rtmp.stopEvent
    PROVE  Unheard' /\ Sources'
  <1>1. "encoder" \in Threads /\ Senders \subseteq Threads
    BY Pools
  <1> QED
    BY <1>1 DEF Unheard, Sources

LEMMA HeardQuiet ==
    ASSUME Shape, Threaded, OneInv, Unheard, Sources, NEW t \in Threads,
           EndThread(t) \/ StartWait(t) \/ BeginCapture(t) \/ BeginActive(t) \/ BeginSignal(t)
           \/ ConnectDetach(t) \/ ConnectDone(t) \/ Stop(t) \/ NullPacket(t)
    PROVE  Unheard' /\ Sources'
  <1>1. out \in OutType(plan.retryMax) /\ rtmp \in RtmpType
    BY DEF Shape, OutOK, RtmpOK
  <1> DEFINE Quiet == {"cancelRetry", "joinRetry", "rtmpStopNow", "rtmpSignal", "rtmpSignalNow",
                       "signalSuccess", "beginActive", "beginSignal"}
  <1>2. \A S \in SUBSET Quiet : S \cap Blames = {}
    BY DEF Blames
  <1>3. CASE EndThread(t) \/ StartWait(t)
    <2>1. \E h \in Steps : Went(t, h, {})
      <3>1. {"stopEncoders", "deactivate", "stopped", "ended", "startWait"} \subseteq Steps
        BY DEF Steps
      <3> QED
        BY <1>3, <3>1, EndMoves, StartMoves DEF EndThread, Threaded
    <2>2. UNCHANGED <<rtmp, cause, told>> /\ out'.stopCode \in {out.stopCode, "SUCCESS"}
      BY <1>1, <1>3 DEF EndThread, StopEncoders, Deactivate, SignalStopped, EndThreadDone, StartWait,
         front, OutType
    <2> QED
      BY <2>1, <2>2, HeardWent
  <1>4. CASE BeginCapture(t) \/ BeginActive(t) \/ BeginSignal(t) \/ ConnectDetach(t) \/ ConnectDone(t)
    <2>1. \E h \in ConnectSteps : \E S \in SUBSET Quiet : Went(t, h, S)
      <3>1. {"beginCapture", "beginActive", "beginSignal", "connectDetach", "connectDone"} \subseteq ConnectSteps
        BY DEF ConnectSteps
      <3>2. {} \in SUBSET Quiet /\ {"beginActive", "beginSignal"} \in SUBSET Quiet
        OBVIOUS
      <3> HIDE DEF Quiet
      <3> QED
        BY <1>4, <3>1, <3>2, ConnectMoves DEF Threaded
    <2>2. UNCHANGED <<cause, told>> /\ out'.stopCode = out.stopCode /\ rtmp'.encodeError = rtmp.encodeError
          /\ rtmp'.stopEvent = rtmp.stopEvent
      BY <1>1, <1>4 DEF BeginCapture, BeginActive, BeginSignal, ConnectDetach, ConnectDone, front,
         OutType, RtmpType
    <2> HIDE DEF Quiet
    <2> QED
      BY <1>2, <2>1, <2>2, HeardWent
  <1>5. CASE Stop(t) \/ NullPacket(t)
    <2>1. \E h \in Stops \cup {"nullPacket"} : \E S \in SUBSET Quiet : Went(t, h, S)
      <3>1. CASE NullPacket(t)
        BY <3>1, StopMoves DEF Threaded
      <3>2. CASE Stop(t)
        <4>1. {"forceStop", "cancelRetry", "joinRetry", "rtmpStop", "rtmpStopNow", "rtmpSignal",
               "rtmpSignalNow"} \subseteq Stops
          BY DEF Stops
        <4>2. /\ {} \in SUBSET Quiet /\ {"cancelRetry", "rtmpStopNow"} \in SUBSET Quiet
              /\ {"joinRetry"} \in SUBSET Quiet /\ {"rtmpSignal"} \in SUBSET Quiet
              /\ {"rtmpSignalNow"} \in SUBSET Quiet /\ {"signalSuccess"} \in SUBSET Quiet
          OBVIOUS
        <4> HIDE DEF Quiet
        <4>3. CASE RtmpSignal(t)
          <5>1. \E h \in {"rtmpSignal", "rtmpSignalNow"} :
                    Went(t, h, {}) \/ Went(t, h, {"signalSuccess"})
            <6>1. PICK h \in {"rtmpSignal", "rtmpSignalNow"} :
                      \/ /\ rtmp.active
                         /\ rtmp' = [rtmp EXCEPT !.stopNow = At(t, "rtmpSignalNow"), !.stopEvent = TRUE,
                                                 !.sem = IF At(t, "rtmpSignalNow") THEN @ + 1 ELSE @]
                         /\ Went(t, h, {})
                      \/ /\ ~rtmp.active
                         /\ rtmp' = [rtmp EXCEPT !.stopNow = At(t, "rtmpSignalNow")]
                         /\ Went(t, h, {"signalSuccess"})
              BY <4>3, StopMoves DEF Threaded
            <6> QED
              BY <6>1
          <5> QED
            BY <4>1, <4>2, <5>1
        <4>4. CASE ForceStop(t) \/ CancelRetry(t) \/ JoinRetry(t)
          BY <4>1, <4>2, <4>4, StopMoves DEF Threaded
        <4>5. CASE RtmpStop(t)
          BY <4>1, <4>2, <4>5, StopMoves DEF Threaded
        <4> QED
          BY <3>2, <4>3, <4>4, <4>5 DEF Stop
      <3> QED
        BY <1>5, <3>1, <3>2
    <2>2. PICK h \in Stops \cup {"nullPacket"}, S \in SUBSET Quiet : Went(t, h, S)
      BY <2>1
    <2>3. NullPacket(t) => t = "encoder"
      <3>1. NullPacket(t) => "nullPacket" \in Duty(t)
        BY HeadDuty DEF NullPacket, Threaded
      <3> QED
        BY <3>1, Duties
    <2>4. UNCHANGED <<cause, told>> /\ out'.stopCode \in {out.stopCode, "SUCCESS"}
          /\ (rtmp.stopEvent => rtmp'.stopEvent)
          /\ (Stop(t) => rtmp'.encodeError = rtmp.encodeError)
      BY <1>1, <1>5 DEF Stop, ForceStop, CancelRetry, JoinRetry, RtmpStop, RtmpSignal, NullPacket, front,
         OutType, RtmpType
    <2> HIDE DEF Quiet
    <2> QED
      BY <1>2, <1>5, <2>2, <2>3, <2>4, HeardWent
  <1> QED
    BY <1>3, <1>4, <1>5

LEMMA HeardStart ==
    ASSUME Shape, Threaded, OneInv, Unheard, Sources, NEW t \in Threads, StartCheck(t) \/ StartConnect(t)
    PROVE  Unheard' /\ Sources'
  <1>1. UNCHANGED <<out, told>> /\ rtmp'.encodeError = rtmp.encodeError /\ rtmp'.stopEvent = rtmp.stopEvent
    BY DEF StartCheck, StartConnect, Shape, RtmpOK, RtmpType, front
  <1>2. cause \subseteq cause'
    BY DEF StartCheck, StartConnect, Fails, front
  <1>3. \E S \in {{}, {"startConnect"}} : Advanced(t, S) /\ t # "encoder"
    <2>1. CASE StartCheck(t)
      <3>1. \E S \in {{}, {"startConnect"}} : Went(t, "start", S)
        BY <2>1, StartMoves DEF Threaded
      <3>2. t # "encoder"
        BY <3>1, Owners, WentMoved DEF Starts, Retriers
      <3> QED
        BY <3>1, <3>2, WentMoved DEF Moved, Advanced
    <2>2. CASE StartConnect(t)
      <3>1. PICK n \in Connectors : Forked(t, "startConnect", {}, n, {"initConnect", "connect"})
        BY <2>2, StartMoves DEF Threaded
      <3>2. n \in Threads /\ n \in Spawned /\ "startConnect" \in Todo(t)
        BY <3>1, Pools DEF Forked, Least
      <3>3. t # "encoder"
        BY <3>2, Owners DEF Starts, Retriers
      <3>4. \A x \in Blames : x \notin {"initConnect", "connect"}
        BY DEF Blames
      <3>5. /\ \A u \in Threads \ {t, n} : Todo(u)' = Todo(u)
            /\ Todo(t)' = {} \cup (Todo(t) \ {"startConnect"}) /\ Todo(n)' = {"initConnect", "connect"}
        BY <3>1, <3>2 DEF Forked
      <3>6. Advanced(t, {})
        BY <3>2, <3>4, <3>5 DEF Advanced
      <3> QED
        BY <3>3, <3>6
    <2> QED
      BY <2>1, <2>2
  <1>4. PICK S \in {{}, {"startConnect"}} : Advanced(t, S) /\ t # "encoder"
    BY <1>3
  <1>5. \A x \in Blames : x \notin S
    BY DEF Blames
  <1>6. (\A c \in DOMAIN Who : SignalStopOf[c] \notin S) /\ "sendEnd" \notin S
    BY <1>5, WhoNames DEF Blames
  <1> QED
    BY <1>1, <1>2, <1>4, <1>6, HeardOn

LEMMA BlameNames ==
    \A c \in DOMAIN Who :
        /\ SignalStopOf[c] \in {"signalDisconnected", "signalConnectFailed"} => Who[c] = "server"
        /\ SignalStopOf[c] = "signalEncodeError" => Who[c] = "encoder"
        /\ SignalStopOf[c] = "signalBadPath" => Who[c] = "settings"
  BY DEF Who, SignalStopOf

LEMMA HeardConnect ==
    ASSUME Shape, Threaded, OneInv, Unheard, Sources, NEW t \in Threads,
           InitConnect(t) \/ TryConnect(t) \/ SendMetaData(t)
    PROVE  Unheard' /\ Sources'
  <1>1. UNCHANGED <<out, told>> /\ (rtmp'.encodeError => rtmp.encodeError) /\ rtmp'.stopEvent = rtmp.stopEvent
    <2>1. rtmp \in RtmpType
      BY DEF Shape, RtmpOK
    <2>2. CASE InitConnect(t)
      BY <2>1, <2>2 DEF InitConnect, RtmpType
    <2>3. CASE TryConnect(t) \/ SendMetaData(t)
      BY <2>1, <2>3 DEF TryConnect, SendMetaData, RtmpType
    <2> QED
      BY <2>2, <2>3
  <1>2. ASSUME NEW h, NEW S, Went(t, h, S), UNCHANGED cause, S \cap Blames = {} PROVE Unheard' /\ Sources'
    BY <1>1, <1>2, HeardWent
  <1>3. ASSUME NEW x \in Blames, NEW S, Advanced(t, S), t \in Connectors,
               \A y \in S : y \in Blames => y = x, x # "sendEnd", cause \subseteq cause',
               x \in {"signalDisconnected", "signalConnectFailed"} => "server" \in cause',
               x = "signalBadPath" => "settings" \in cause', x # "signalEncodeError"
        PROVE Unheard' /\ Sources'
    <2>1. t # "encoder"
      BY <1>3 DEF Connectors
    <2>2. "sendEnd" \notin S
      BY <1>3 DEF Blames
    <2>3. \A c \in DOMAIN Who : SignalStopOf[c] \in S => Who[c] \in cause'
      <3> SUFFICES ASSUME NEW c \in DOMAIN Who, SignalStopOf[c] \in S PROVE Who[c] \in cause'
        OBVIOUS
      <3>1. SignalStopOf[c] = x
        BY <1>3, WhoNames
      <3> QED
        BY <1>3, <3>1, BlameNames DEF Blames
    <2> QED
      BY <1>1, <1>3, <2>1, <2>2, <2>3, HeardOn
  <1>4. CASE InitConnect(t)
    <2>1. CASE Went(t, "initConnect", {}) /\ UNCHANGED <<cause, plan>>
      BY <1>2, <2>1
    <2>2. CASE Fails("settings") /\ Least(t, "initConnect") /\ Became(t, {"signalBadPath"})
      <3>1. Advanced(t, {"signalBadPath"})
        BY <2>2 DEF Became, Advanced
      <3>2. t \in Connectors
        BY <2>2, Owners DEF Least, Young, YoungSteps
      <3>3. "signalBadPath" \in Blames
        BY DEF Blames
      <3> QED
        BY <1>3, <2>2, <3>1, <3>2, <3>3 DEF Fails
    <2> QED
      BY <1>4, <2>1, <2>2, ConnectMoves DEF Threaded
  <1>5. CASE SendMetaData(t)
    <2>1. CASE /\ UNCHANGED <<cause, plan>>
               /\ Went(t, "metaData", {"beginCapture", "connectDetach", "connectDone"})
      BY <1>2, <2>1 DEF Blames
    <2>2. CASE Fails("server") /\ Went(t, "metaData", {"signalDisconnected", "connectDetach", "connectDone"})
      <3>1. Advanced(t, {"signalDisconnected", "connectDetach", "connectDone"}) /\ "metaData" \in Todo(t)
        BY <2>2, WentMoved DEF Moved, Advanced
      <3>2. t \in Connectors
        BY <3>1, Owners DEF Young, YoungSteps
      <3>3. /\ "signalDisconnected" \in Blames
            /\ \A y \in {"signalDisconnected", "connectDetach", "connectDone"} :
                   y \in Blames => y = "signalDisconnected"
        BY DEF Blames
      <3> QED
        BY <1>3, <2>2, <3>1, <3>2, <3>3 DEF Fails
    <2> QED
      BY <1>5, <2>1, <2>2, ConnectMoves DEF Threaded
  <1>6. CASE TryConnect(t)
    <2>1. ASSUME UNCHANGED <<cause, plan>>,
                 NEW n \in Senders, Forked(t, "connect", {"metaData"}, n, {"sendWait"})
          PROVE  Unheard' /\ Sources'
      <3>1. n \in Threads /\ n \in Spawned /\ "connect" \in Todo(t)
        BY <2>1, Pools DEF Forked, Least
      <3>2. t \in Connectors
        BY <3>1, Owners DEF Young, YoungSteps
      <3>3. \A x \in Blames : x \notin {"sendWait"} /\ x \notin {"metaData"}
        BY DEF Blames
      <3>4. /\ \A u \in Threads \ {t, n} : Todo(u)' = Todo(u)
            /\ Todo(t)' = {"metaData"} \cup (Todo(t) \ {"connect"}) /\ Todo(n)' = {"sendWait"}
        BY <2>1, <3>1 DEF Forked
      <3>5. Advanced(t, {"metaData"})
        BY <3>1, <3>3, <3>4 DEF Advanced
      <3>6. "signalBadPath" \in Blames /\ t # "encoder"
        BY <3>2 DEF Blames, Connectors
      <3>7. \A c \in DOMAIN Who : SignalStopOf[c] \notin {"metaData"}
        BY <3>3, WhoNames
      <3>8. "sendEnd" \notin {"metaData"} /\ cause \subseteq cause'
        BY <2>1
      <3> QED
        BY <1>1, <3>5, <3>6, <3>7, <3>8, HeardOn
    <2>2. CASE Fails("server") /\ Went(t, "connect", {"signalConnectFailed", "connectDetach", "connectDone"})
      <3>1. Advanced(t, {"signalConnectFailed", "connectDetach", "connectDone"}) /\ "connect" \in Todo(t)
        BY <2>2, WentMoved DEF Moved, Advanced
      <3>2. t \in Connectors
        BY <3>1, Owners DEF Young, YoungSteps
      <3>3. /\ "signalConnectFailed" \in Blames
            /\ \A y \in {"signalConnectFailed", "connectDetach", "connectDone"} :
                   y \in Blames => y = "signalConnectFailed"
        BY DEF Blames
      <3> QED
        BY <1>3, <2>2, <3>1, <3>2, <3>3 DEF Fails
    <2> QED
      BY <1>6, <2>1, <2>2, ConnectMoves DEF Threaded
  <1> QED
    BY <1>4, <1>5, <1>6

LEMMA HeardSend ==
    ASSUME Shape, Threaded, OneInv, Unheard, Sources, NEW t \in Threads, SendThread(t)
    PROVE  Unheard' /\ Sources'
  <1>1. UNCHANGED <<out, told>> /\ rtmp'.encodeError = rtmp.encodeError /\ cause \subseteq cause'
        /\ (SendCleanUp(t) \/ rtmp'.stopEvent = rtmp.stopEvent)
    BY DEF SendThread, SendFinish, SendPacket, SendFail, SendEnd, SendCleanUp, Fails, Taken, front,
       Shape, RtmpOK, RtmpType
  <1>2. \A h : At(t, h) /\ h \in SendSteps => t \in Senders /\ t # "encoder" /\ h \in Todo(t)
    BY AtLeast, Duties DEF Threaded, Least, Senders
  <1>3. CASE SendPacket(t)
    <2>1. \A u \in Threads : Todo(u)' = Todo(u)
      BY <1>3, SendMoves DEF Threaded
    <2>2. cause' = cause
      BY <1>3 DEF SendPacket, front
    <2>3. rtmp'.stopEvent = rtmp.stopEvent
      BY <1>3 DEF SendPacket, Taken, Shape, RtmpOK, RtmpType
    <2> QED
      BY <1>1, <2>1, <2>2, <2>3, HeardStill
  <1>4. CASE SendFinish(t) \/ SendFail(t)
    <2>1. Advanced(t, {"sendEnd"})
      <3>1. Went(t, "sendWait", {"sendEnd"})
        BY <1>4, SendMoves DEF Threaded
      <3> QED
        BY <3>1, WentMoved DEF Moved, Advanced
    <2>2. t # "encoder"
      BY <1>2, <1>4 DEF SendFinish, SendFail, SendSteps
    <2>3. rtmp'.stopEvent = rtmp.stopEvent /\ (rtmp'.stopEvent \/ "server" \in cause')
      <3>1. SendFinish(t) => rtmp.stopEvent
        BY DEF SendFinish
      <3>2. SendFail(t) => "server" \in cause'
        BY DEF SendFail, Fails
      <3>3. rtmp'.stopEvent = rtmp.stopEvent
        BY <1>4 DEF SendFinish, SendFail, Taken, Shape, RtmpOK, RtmpType
      <3> QED
        BY <1>4, <3>1, <3>2, <3>3
    <2>4. \A c \in DOMAIN Who : SignalStopOf[c] \notin {"sendEnd"}
      BY WhoNames DEF Signals
    <2> QED
      BY <1>1, <2>1, <2>2, <2>3, <2>4, HeardOn
  <1>5. CASE SendEnd(t)
    <2> DEFINE C == {"sendReset", "sendDone"}
    <2>1. t \in Senders /\ t # "encoder" /\ "sendEnd" \in Todo(t)
      BY <1>2, <1>5 DEF SendEnd, SendSteps
    <2>2. UNCHANGED <<cause, rtmp>>
      BY <1>5 DEF SendEnd, front
    <2>3. ASSUME NEW x \in {"signalDisconnected", "signalEncodeError", "endCapture"},
                 Went(t, "sendEnd", {x} \cup C),
                 x = "signalDisconnected" => "server" \in cause,
                 x = "signalEncodeError" => "encoder" \in cause
          PROVE  Unheard' /\ Sources'
      <3>1. Advanced(t, {x} \cup C)
        BY <2>3, WentMoved DEF Moved, Advanced
      <3>2. "sendEnd" \notin {x} \cup C
        OBVIOUS
      <3>3. \A c \in DOMAIN Who : SignalStopOf[c] \in {x} \cup C => Who[c] \in cause'
        <4> SUFFICES ASSUME NEW c \in DOMAIN Who, SignalStopOf[c] \in {x} \cup C PROVE Who[c] \in cause'
          OBVIOUS
        <4>1. SignalStopOf[c] \in Signals
          BY WhoNames
        <4>2. SignalStopOf[c] = x /\ x # "endCapture"
          BY <4>1 DEF Signals
        <4> QED
          BY <2>2, <2>3, <4>2, BlameNames
      <3> HIDE DEF C
      <3> QED
        BY <1>1, <2>1, <2>2, <3>1, <3>2, <3>3, HeardOn
    <2>4. ~rtmp.stopEvent => "server" \in cause
      BY <2>1 DEF Sources
    <2>5. rtmp.encodeError => "encoder" \in cause
      BY DEF Sources
    <2>6. \E x \in {"signalDisconnected", "signalEncodeError", "endCapture"} :
              /\ Went(t, "sendEnd", {x, "sendReset", "sendDone"})
              /\ x = "signalDisconnected" => ~rtmp.stopEvent
              /\ x = "signalEncodeError" => rtmp.encodeError
      BY <1>5, SendMoves DEF Threaded
    <2>7. \A x : {x, "sendReset", "sendDone"} = {x} \cup C
      OBVIOUS
    <2> HIDE DEF C
    <2> QED
      BY <2>3, <2>4, <2>5, <2>6, <2>7
  <1>6. CASE SendCleanUp(t)
    <2>1. PICK h \in {"sendReset", "sendDone"} : Went(t, h, {}) /\ At(t, h)
      <3>1. At(t, "sendReset") => Went(t, "sendReset", {})
        BY <1>6, Going0 DEF SendCleanUp, Threaded
      <3>2. At(t, "sendDone") => Went(t, "sendDone", {})
        BY <1>6, Going0 DEF SendCleanUp, Threaded
      <3> QED
        BY <1>6, <3>1, <3>2 DEF SendCleanUp
    <2>2. t \in Senders /\ t # "encoder" /\ h \in Todo(t)
      BY <1>2, <2>1 DEF SendSteps
    <2>3. Advanced(t, {}) /\ \A u \in Threads \ {t} : Todo(u)' = Todo(u)
      BY <2>1, WentMoved DEF Moved, Advanced
    <2>4. \A s \in Senders : "sendEnd" \notin Todo(s)'
      <3>1. "sendEnd" \notin Todo(t) /\ Senders \subseteq Threads
        BY <2>2, SenderBusy, Pools
      <3>2. \A s \in Senders : s # t => Todo(s) = {}
        BY <2>2, OneOfAKind
      <3> QED
        BY <2>3, <3>1, <3>2 DEF Advanced
    <2> QED
      BY <1>1, <2>2, <2>3, <2>4, HeardOn
  <1> QED
    BY <1>3, <1>4, <1>5, <1>6 DEF SendThread

LEMMA HeardFront ==
    ASSUME Shape, Threaded, OneInv, Unheard, Sources,
           UserStart \/ UserStop \/ UserForceStop \/ EncodeError \/ Packet \/ UNCHANGED vars
    PROVE  Unheard' /\ Sources'
  <1>1. rtmp'.encodeError = rtmp.encodeError /\ rtmp'.stopEvent = rtmp.stopEvent
        /\ out'.stopCode = out.stopCode /\ told' \in {told, <<>>}
    BY DEF UserStart, UserStop, UserForceStop, EncodeError, Packet, vars, front, Shape, RtmpOK, RtmpType,
       OutOK, OutType
  <1>2. CASE Packet \/ UNCHANGED vars
    <2>1. \A u \in Threads : Todo(u)' = Todo(u)
      BY <1>2, FrontMoves DEF Threaded
    <2>2. UNCHANGED <<told, cause>>
      BY <1>2 DEF Packet, vars, front
    <2> QED
      BY <1>1, <2>1, <2>2, HeardStill
  <1>3. UserStart \/ UserStop \/ UserForceStop \/ EncodeError => cause \subseteq cause'
    <2>1. UserStart => cause = {}
      <3> SUFFICES ASSUME UserStart PROVE cause = {}
        OBVIOUS
      <3>1. plan.start > 0
        BY DEF UserStart, Spend
      <3> QED
        BY <3>1 DEF OneInv, FreshBlank, Blank, Fresh
    <2> QED
      BY <2>1 DEF UserStop, UserForceStop, EncodeError, Fails
  <1>4. ASSUME NEW t \in {"user", "encoder"}, NEW S, Became(t, S), t = "encoder" => "encoder" \in cause',
               S \cap Blames = {}, cause \subseteq cause'
        PROVE  Unheard' /\ Sources'
    <2>1. t \in Threads /\ Advanced(t, S)
      BY <1>4, Pools DEF Became, Advanced
    <2>2. (\A c \in DOMAIN Who : SignalStopOf[c] \notin S) /\ "sendEnd" \notin S
      <3>1. "sendEnd" \in Blames
        BY DEF Blames
      <3> QED
        BY <1>4, <3>1, WhoNames
    <2> QED
      BY <1>1, <1>4, <2>1, <2>2, HeardOn
  <1>5. CASE EncodeError
    <2>1. Became("encoder", {"forceStop", "nullPacket"}) /\ "encoder" \in cause'
      BY <1>5, FrontMoves DEF Threaded, EncodeError, Fails
    <2>2. {"forceStop", "nullPacket"} \cap Blames = {} /\ cause \subseteq cause'
      BY <1>5 DEF Blames, EncodeError, Fails
    <2> QED
      BY <1>4, <2>1, <2>2
  <1>6. CASE UserStart \/ UserStop \/ UserForceStop
    <2>1. \E S \in SUBSET {"startWait", "start", "forceStop", "cancelRetry", "rtmpStop"} : Became("user", S)
      <3> DEFINE D == SUBSET {"startWait", "start", "forceStop", "cancelRetry", "rtmpStop"}
      <3>1. {"startWait", "start"} \in D /\ {"forceStop"} \in D /\ {"cancelRetry", "rtmpStop"} \in D
        OBVIOUS
      <3> HIDE DEF D
      <3>2. \E S \in D : Became("user", S)
        BY <1>6, <3>1, FrontMoves DEF Threaded
      <3> QED
        BY <3>2 DEF D
    <2>2. PICK S \in SUBSET {"startWait", "start", "forceStop", "cancelRetry", "rtmpStop"} : Became("user", S)
      BY <2>1
    <2>3. S \cap Blames = {}
      BY DEF Blames
    <2>4. cause \subseteq cause'
      BY <1>3, <1>6
    <2> QED
      BY <1>4, <2>2, <2>3, <2>4
  <1> QED
    BY <1>2, <1>5, <1>6

LEMMA HeardStep ==
    ASSUME Shape, Threaded, OneInv, Unheard, Sources, [Next]_vars
    PROVE  Unheard' /\ Sources'
  <1>1. ASSUME NEW t \in Threads, Step(t) PROVE Unheard' /\ Sources'
    <2>1. ~RetryThread(t)
      BY RetriesNever DEF OneInv
    <2> QED
      BY <1>1, <2>1, HeardShared, HeardQuiet, HeardStart, HeardConnect, HeardSend
         DEF Step, Start, ConnectThread
  <1> QED
    BY <1>1, HeardFront DEF Next

(* One thread at most has a stop to signal. *)
LEMMA AloneQuiet ==
    ASSUME Todo("user")' \subseteq Starts, ~rtmp'.stopEvent,
           \A i \in DOMAIN told' : told'[i] # "SUCCESS",
           \A u \in Threads : \A x \in Late : x \notin Todo(u)',
           \A s \in Senders : Todo(s)' \subseteq {"sendWait"},
           cause' = {} \/ \A u \in Threads : Todo(u)' = {}
    PROVE  Alone'
  <1>1. \A u \in Threads : ~Emitting(u)' /\ "signalSuccess" \notin Todo(u)'
    <2>1. EmittingSteps \subseteq Late /\ "signalSuccess" \in Late
      BY DEF EmittingSteps, Late, Signals
    <2> QED
      BY <2>1 DEF Emitting
  <1>2. cause' # {} => ~Starting' /\ (\A c \in Connectors : ~Young(c)')
                       /\ \A s \in Senders : "sendWait" \notin Todo(s)'
    BY Pools DEF Starting, Young
  <1>3. \A s \in Senders : "sendEnd" \notin Todo(s)'
    OBVIOUS
  <1> QED
    BY <1>1, <1>2, <1>3 DEF Alone

(* Thread t has done a step, and may have started an end thread. *)
Onward(t, S) ==
    /\ \A u \in Threads \ {t} : Todo(u)' = Todo(u) \/ (u \in Enders /\ Todo(u)' = EndSteps)
    /\ \A x \in Todo(t)' : x \in Todo(t) \/ x \in S

LEMMA AloneOn ==
    ASSUME Alone, NEW t \in Threads, t # "user", NEW S, Onward(t, S),
           S \cap (YoungSteps \cup {"sendWait", "sendEnd", "signalSuccess"}) = {},
           \A x \in EmittingSteps : x \in S => Emitting(t),
           t \in Senders => "server" \in cause \/ S = {},
           UNCHANGED cause, ~rtmp'.stopEvent, \A i \in DOMAIN told' : told'[i] # "SUCCESS",
           \A u \in Threads : Emitting(u)' /\ (\A x \in Signals : x \notin Todo(u)')
               => out'.stopCode # "SUCCESS",
           out'.active => out.active, rtmp'.packets \in {rtmp.packets, 0}
    PROVE  Alone'
  <1>1. "user" \in Threads /\ Connectors \cup Senders \subseteq Threads
        /\ "user" \notin Enders /\ (Connectors \cup Senders) \cap Enders = {}
    BY Pools DEF Connectors, Senders, Enders
  <1>2. \A u \in Threads : Emitting(u)' => Emitting(u)
    <2>1. \A x \in EmittingSteps : x \notin EndSteps
      BY DEF EmittingSteps, EndSteps, Signals, Clearing
    <2> QED
      BY <2>1 DEF Emitting, Onward
  <1>3. Todo("user")' = Todo("user") /\ (Starting' <=> Starting)
    BY <1>1 DEF Onward, Starting
  <1>4. \A u \in Threads : \A x \in {"sendWait", "sendEnd", "signalSuccess"} : x \in Todo(u)' => x \in Todo(u)
    <2>1. \A x \in {"sendWait", "sendEnd", "signalSuccess"} : x \notin EndSteps /\ x \notin S
      BY DEF EndSteps
    <2> QED
      BY <2>1 DEF Onward
  <1>5. \A c \in Connectors : Young(c)' => Young(c)
    BY <1>1 DEF Onward, Young
  <1>6. /\ Todo("user")' \subseteq Starts
        /\ \A u \in Threads : "signalSuccess" \notin Todo(u)'
    BY <1>3, <1>4 DEF Alone
  <1>7. "server" \notin cause' => \A s \in Senders : Todo(s)' \subseteq {"sendWait"}
    BY <1>1 DEF Alone, Onward
  <1>8. /\ \A s \in Senders : "sendEnd" \in Todo(s)' => \A u \in Threads : ~Emitting(u)'
        /\ \A u \in Threads : Emitting(u)' => cause' # {}
        /\ \A u, v \in Threads : Emitting(u)' /\ Emitting(v)' => u = v
    BY <1>1, <1>2, <1>4 DEF Alone
  <1>9. /\ cause' # {} => ~Starting' /\ (\A c \in Connectors : ~Young(c)')
        /\ cause' # {} => \A s \in Senders : "sendWait" \in Todo(s)' => rtmp'.packets = 0 /\ ~out'.active
    BY <1>1, <1>3, <1>4, <1>5 DEF Alone
  <1> QED
    BY <1>6, <1>7, <1>8, <1>9 DEF Alone

LEMMA AloneFails ==
    ASSUME OneInv, Alone, NEW t \in Connectors, Young(t), NEW S, Moved(t, S), ~Young(t)',
           NEW x \in Signals, x # "signalSuccess", x \in Todo(t)', S \cap Starts = {},
           \A y \in Late : y \in S => y = x,
           UNCHANGED told, rtmp'.stopEvent = rtmp.stopEvent, cause' # {}, rtmp'.packets = 0,
           out'.active = out.active
    PROVE  Alone'
  <1>1. "user" \in Threads /\ Connectors \cup Senders \subseteq Threads /\ t # "user" /\ t \notin Senders
    BY Pools DEF Connectors, Senders
  <1>2. Undisturbed(t)
    BY DEF OneInv, YoungQuiet
  <1>3. Todo("user")' = Todo("user") /\ \A s \in Senders : Todo(s)' = Todo(s)
    BY <1>1 DEF Moved
  <1>4. EmittingSteps \subseteq Late /\ "signalSuccess" \in Late
    BY DEF EmittingSteps, Late, Signals
  <1>5. \A u \in Threads : u # t => ~Emitting(u)'
    BY <1>2, <1>4 DEF Undisturbed, Moved, Emitting
  <1>6. \A u \in Threads : "signalSuccess" \notin Todo(u)'
    BY <1>2, <1>4 DEF Undisturbed, Moved
  <1>7. \A s \in Senders : Todo(s)' \subseteq {"sendWait"}
    BY <1>2, <1>3 DEF Undisturbed
  <1>8. ~Starting'
    <2>1. ~Fresh
      <3>1. \A y \in YoungSteps : y \notin Starts
        BY DEF YoungSteps, Starts
      <3> QED
        BY <1>1, <3>1, NotFresh DEF Young
    <2> QED
      BY <1>3, <2>1 DEF Fresh, Starting
  <1>9. \A c \in Connectors : ~Young(c)'
    <2>1. \A c \in Connectors : c # t => Todo(c) = {}
      BY OneOfAKind
    <2> QED
      BY <1>1, <2>1 DEF Moved, Young
  <1>10. ~rtmp'.stopEvent /\ ~out'.active
    BY <1>2 DEF Undisturbed
  <1>11. Todo("user")' \subseteq Starts /\ \A i \in DOMAIN told' : told'[i] # "SUCCESS"
    BY <1>3 DEF Alone
  <1> QED
    BY <1>5, <1>6, <1>7, <1>8, <1>9, <1>10, <1>11 DEF Alone

(* What the frontend and the encoder have to do in such a session. *)
LEMMA AloneIdle ==
    ASSUME OneInv, Sources, Alone, ~Blamed, NEW t \in Threads, NEW h, h \in Todo(t), h \notin Starts
    PROVE  t \notin {"user", "encoder"}
           /\ (t \in Senders /\ h # "sendWait" => "server" \in cause)
  <1>1. "encoder" \notin cause
    BY DEF Blamed
  <1> QED
    BY <1>1 DEF Sources, Alone

LEMMA CauseGrows == Shape /\ OneInv /\ [Next]_vars => cause \subseteq cause'
  <1> SUFFICES ASSUME Shape, OneInv, [Next]_vars PROVE cause \subseteq cause'
    OBVIOUS
  <1>1. ASSUME NEW t \in Threads, Shared(t) \/ EndThread(t) \/ RetryThread(t)
        PROVE  UNCHANGED cause
    BY <1>1 DEF Shared, SignalStop, EndCaptureInactive, EndCaptureBegin, EndCaptureClear,
                EndCaptureJoin, EndCaptureSpawn, EndCaptureSignal, Reconnect, ReconnectSpawn,
                EndThread, StopEncoders, Deactivate, SignalStopped, EndThreadDone,
                RetryThread, RetryBegin, RetryWait, RetryEnd, RetryDone, front
  <1>2. ASSUME NEW t \in Threads, Start(t) \/ SendThread(t) \/ Stop(t) \/ NullPacket(t)
        PROVE  cause \subseteq cause'
    BY <1>2 DEF Start, StartWait, StartCheck, StartConnect, Fails, front, NullPacket,
                SendThread, SendFinish, SendPacket, SendFail, SendEnd, SendCleanUp,
                Stop, ForceStop, CancelRetry, JoinRetry, RtmpStop, RtmpSignal
  <1>3. ASSUME NEW t \in Threads, ConnectThread(t) PROVE cause \subseteq cause'
    BY <1>3 DEF ConnectThread, InitConnect, TryConnect, SendMetaData, BeginCapture, BeginActive,
                BeginSignal, ConnectDetach, ConnectDone, Fails, front
  <1>4. ASSUME UserStop \/ UserForceStop \/ Packet \/ EncodeError \/ UNCHANGED vars
        PROVE  cause \subseteq cause'
    BY <1>4 DEF UserStop, UserForceStop, Packet, EncodeError, Fails, vars, front
  <1>5. UserStart => cause = {}
    <2> SUFFICES ASSUME UserStart PROVE cause = {}
      OBVIOUS
    <2>1. plan.start > 0
      BY DEF UserStart, Spend
    <2> QED
      BY <2>1 DEF OneInv, FreshBlank, Blank, Fresh
  <1> QED
    BY <1>1, <1>2, <1>3, <1>4, <1>5 DEF Next, Step

LEMMA AloneShared ==
    ASSUME Shape, Threaded, OneInv, Sources, Alone, ~Blamed, NEW t \in Threads, Shared(t)
    PROVE  Alone'
  <1>1. ~Reconnect(t) /\ ~ReconnectSpawn(t)
    BY RetriesNever DEF OneInv
  <1>2. out \in OutType(plan.retryMax) /\ ~rtmp.stopEvent /\ \A i \in DOMAIN told : told[i] # "SUCCESS"
    BY DEF Shape, OutOK, Alone
  <1>3. \A h \in Calls : h \notin Starts /\ h # "sendWait"
    BY DEF Calls, Signals, Starts
  <1>4. ASSUME NEW h \in Calls, h \in Todo(t) PROVE t # "user" /\ (t \in Senders => "server" \in cause)
    BY <1>3, <1>4, AloneIdle
  <1>5. \A x \in EmittingSteps : Rank(x) <= 5
    BY DEF EmittingSteps, Clearing, Signals, Rank
  <1>6. ASSUME NEW c \in Codes, SignalStop(t, c) PROVE Alone'
    <2>1. ~CanReconnect(c)
      BY DEF CanReconnect, OneInv, NoRetry
    <2>2. Went(t, SignalStopOf[c], {"endCapture"})
      BY <1>6, <2>1, SharedMoves DEF Threaded
    <2>3. Onward(t, {"endCapture"}) /\ SignalStopOf[c] \in Todo(t) /\ SignalStopOf[c] \in Signals
      BY <2>2, WentMoved, SignalNames DEF Moved, Onward
    <2>4. out'.stopCode = c /\ out'.active = out.active /\ UNCHANGED <<rtmp, told, cause>>
      BY <1>2, <1>6, <2>1 DEF SignalStop, front, OutType
    <2>5. c # "SUCCESS"
      BY <2>3, SignalNames DEF Alone
    <2>6. SignalStopOf[c] \in Calls /\ SignalStopOf[c] \in EmittingSteps
      BY <2>3 DEF Calls, EmittingSteps
    <2>7. Emitting(t)
      BY <2>3, <2>6 DEF Emitting
    <2>8. {"endCapture"} \cap (YoungSteps \cup {"sendWait", "sendEnd", "signalSuccess"}) = {}
      BY DEF YoungSteps
    <2> QED
      BY <1>2, <1>4, <2>3, <2>4, <2>5, <2>6, <2>7, <2>8, AloneOn
  <1>7. CASE EndCaptureInactive(t) \/ EndCaptureSignal(t)
    <2>1. ~At(t, "endCaptureQuietly")
      BY AtLeast DEF Least, OneInv, NoRetry, Reconnects, Threaded
    <2>2. PICK h \in {"endCapture", "endSignal"} : Went(t, h, {}) /\ EmitStop
      BY <1>7, <2>1, SharedMoves DEF EndCaptureInactive, EndCaptureSignal, Threaded
    <2>3. h \in Todo(t) /\ Todo(t)' = Todo(t) \ {h} /\ Onward(t, {}) /\ Moved(t, {})
      BY <2>2, WentMoved DEF Moved, Onward
    <2>4. \A x \in Todo(t) \ {h} : x \notin EmittingSteps
      <3>1. Rank(h) = 5
        BY DEF Rank, Signals
      <3>2. \A x \in Todo(t) \ {h} : Rank(h) < Rank(x)
        BY <2>2 DEF Went, Least
      <3> QED
        BY <1>5, <3>1, <3>2, RankNat
    <2>5. Emitting(t) /\ h \in Calls
      BY <2>3 DEF Emitting, EmittingSteps, Calls
    <2>6. \A x \in Signals : x \notin Todo(t)
      BY <2>3, <2>4 DEF EmittingSteps, Signals
    <2>7. out.stopCode # "SUCCESS" /\ out.stopCode \in Codes
      BY <1>2, <2>5, <2>6 DEF Alone, OutType
    <2>8. \A u \in Threads : ~Emitting(u)'
      <3>1. ~Emitting(t)'
        BY <2>3, <2>4 DEF Emitting
      <3>2. \A u \in Threads : u # t => ~Emitting(u)'
        BY <2>3, <2>5 DEF Emitting, Moved, Alone
      <3> QED
        BY <3>1, <3>2
    <2>9. \A i \in DOMAIN told' : told'[i] # "SUCCESS"
      <3>1. told' = Append(told, out.stopCode) /\ told \in Seq(Codes)
        BY <2>2 DEF EmitStop, Shape, FrontOK
      <3> QED
        BY <1>2, <2>7, <3>1, Told
    <2>10. UNCHANGED <<rtmp, cause>> /\ out'.active = out.active
      BY <1>2, <1>7 DEF EndCaptureInactive, EndCaptureSignal, OutType
    <2> QED
      BY <1>2, <1>4, <2>3, <2>5, <2>8, <2>9, <2>10, AloneOn
  <1>8. CASE EndCaptureBegin(t)
    <2> DEFINE S == {"endClear", "endJoin", "endSpawn", "endSignal"}
    <2>1. Went(t, "endCapture", S)
      <3>1. ~Went(t, "endCaptureQuietly", {"endClear", "endJoin", "endSpawn"})
        BY DEF Went, Least, OneInv, NoRetry, Reconnects
      <3> QED
        BY <1>8, <3>1, SharedMoves DEF Threaded
    <2>2. "endCapture" \in Todo(t) /\ Todo(t)' = S \cup (Todo(t) \ {"endCapture"})
          /\ Onward(t, S) /\ Moved(t, S)
      BY <2>1, WentMoved DEF Moved, Onward
    <2>3. \A x \in Todo(t) : x \notin Signals
      <3>1. Rank("endCapture") = 5 /\ \A x \in Signals : Rank(x) = 5 /\ x # "endCapture"
        BY DEF Rank, Signals
      <3>2. \A x \in Todo(t) \ {"endCapture"} : Rank("endCapture") < Rank(x)
        BY <2>1 DEF Went, Least
      <3> QED
        BY <3>1, <3>2
    <2>4. Emitting(t) /\ "endCapture" \in Calls
      BY <2>2 DEF Emitting, EmittingSteps, Calls
    <2>5. out.stopCode # "SUCCESS"
      BY <2>3, <2>4 DEF Alone
    <2>6. UNCHANGED <<out, rtmp, told, cause>>
      BY <1>8 DEF EndCaptureBegin, front
    <2>7. S \cap (YoungSteps \cup {"sendWait", "sendEnd", "signalSuccess"}) = {}
      BY DEF YoungSteps
    <2> HIDE DEF S
    <2> QED
      BY <1>2, <1>4, <2>2, <2>4, <2>5, <2>6, <2>7, AloneOn
  <1>9. CASE EndCaptureClear(t) \/ EndCaptureJoin(t) \/ EndCaptureSpawn(t)
    <2>1. PICK h \in {"endClear", "endJoin", "endSpawn"} :
              /\ h \in Todo(t) /\ Onward(t, {}) /\ Todo(t)' = Todo(t) \ {h}
      <3>1. CASE EndCaptureClear(t) \/ EndCaptureJoin(t)
        <4>1. PICK h \in {"endClear", "endJoin"} : Went(t, h, {})
          BY <3>1, SharedMoves DEF Threaded
        <4>2. h \in Todo(t) /\ Onward(t, {}) /\ Todo(t)' = Todo(t) \ {h}
          BY <4>1, WentMoved DEF Moved, Onward
        <4> QED
          BY <4>2
      <3>2. CASE EndCaptureSpawn(t)
        <4>1. PICK n \in Enders : Forked(t, "endSpawn", {}, n, EndSteps)
          BY <3>2, SharedMoves DEF Threaded
        <4>2. n \in Threads /\ n # t /\ "endSpawn" \in Todo(t)
          BY <4>1, Pools DEF Forked, Least
        <4>3. /\ \A u \in Threads \ {t, n} : Todo(u)' = Todo(u)
              /\ Todo(t)' = Todo(t) \ {"endSpawn"} /\ Todo(n)' = EndSteps
          BY <4>1, <4>2 DEF Forked
        <4>4. Onward(t, {})
          BY <4>3 DEF Onward
        <4> QED
          BY <4>2, <4>3, <4>4
      <3> QED
        BY <1>9, <3>1, <3>2
    <2>2. UNCHANGED <<rtmp, told, cause>> /\ out'.stopCode = out.stopCode /\ out'.active = out.active
      BY <1>2, <1>9 DEF EndCaptureClear, EndCaptureJoin, EndCaptureSpawn, front, OutType
    <2>3. h \in Calls /\ h \notin Signals /\ h \in EmittingSteps
      BY DEF Calls, Signals, EmittingSteps, Clearing
    <2>4. Emitting(t) /\ \A u \in Threads : Emitting(u)' => u = t
      <3>1. Emitting(t)
        BY <2>1, <2>3 DEF Emitting
      <3>2. \A x \in EmittingSteps : x \notin EndSteps
        BY DEF EmittingSteps, EndSteps, Signals, Clearing
      <3>3. \A u \in Threads : Emitting(u)' => Emitting(u)
        BY <2>1, <3>2 DEF Emitting, Onward
      <3> QED
        BY <3>1, <3>3 DEF Alone
    <2>5. \A u \in Threads : Emitting(u)' /\ (\A x \in Signals : x \notin Todo(u)')
              => out'.stopCode # "SUCCESS"
      <3> SUFFICES ASSUME \A x \in Signals : x \notin Todo(t)' PROVE out'.stopCode # "SUCCESS"
        BY <2>4
      <3>1. \A x \in Signals : x \notin Todo(t)
        BY <2>1, <2>3
      <3> QED
        BY <2>2, <2>4, <3>1 DEF Alone
    <2> QED
      BY <1>2, <1>4, <2>1, <2>2, <2>3, <2>5, AloneOn
  <1> QED
    BY <1>1, <1>6, <1>7, <1>8, <1>9 DEF Shared

LEMMA AloneAlong ==
    ASSUME Shape, Threaded, OneInv, Sources, Alone, ~Blamed, NEW t \in Threads,
           EndThread(t) \/ BeginSignal(t) \/ ConnectDetach(t) \/ ConnectDone(t) \/ SendCleanUp(t)
    PROVE  Alone'
  <1> DEFINE H == EndSteps \cup {"beginSignal", "connectDetach", "connectDone", "sendReset", "sendDone"}
  <1>1. PICK h \in H : Went(t, h, {})
    <2>1. {"stopEncoders", "deactivate", "stopped", "ended", "beginSignal", "connectDetach", "connectDone",
           "sendReset", "sendDone"} \subseteq H
      BY DEF EndSteps
    <2> HIDE DEF H
    <2>2. EndThread(t) => \E h \in H : Went(t, h, {})
      BY <2>1, EndMoves DEF EndThread, Threaded
    <2>3. BeginSignal(t) \/ ConnectDetach(t) \/ ConnectDone(t) => \E h \in H : Went(t, h, {})
      BY <2>1, ConnectMoves DEF Threaded
    <2>4. SendCleanUp(t) => \E h \in H : Went(t, h, {})
      BY <2>1, SendMoves DEF Threaded
    <2> QED
      BY <2>2, <2>3, <2>4
  <1>2. h \in Todo(t) /\ Todo(t)' = Todo(t) \ {h} /\ Onward(t, {}) /\ Moved(t, {})
    BY <1>1, WentMoved DEF Moved, Onward
  <1>3. h \notin Starts /\ h # "sendWait" /\ h \notin Signals
    BY DEF EndSteps, Starts, Signals
  <1>4. t # "user" /\ (t \in Senders => "server" \in cause)
    BY <1>2, <1>3, AloneIdle
  <1>5. /\ UNCHANGED <<told, cause>> /\ out'.stopCode = out.stopCode /\ (out'.active => out.active)
        /\ rtmp'.packets \in {rtmp.packets, 0} /\ (rtmp'.stopEvent => rtmp.stopEvent)
    <2>1. out \in OutType(plan.retryMax) /\ rtmp \in RtmpType
      BY DEF Shape, OutOK, RtmpOK
    <2> QED
      BY <2>1 DEF EndThread, StopEncoders, Deactivate, SignalStopped, EndThreadDone, BeginSignal,
         ConnectDetach, ConnectDone, SendCleanUp, front, OutType, RtmpType
  <1>6. \A u \in Threads : Emitting(u)' /\ (\A x \in Signals : x \notin Todo(u)')
            => out'.stopCode # "SUCCESS"
    <2>1. \A u \in Threads : /\ Emitting(u)' => Emitting(u)
                             /\ \A x \in Signals : x \in Todo(u) => x \in Todo(u)'
      BY <1>2, <1>3 DEF Emitting, Moved
    <2> QED
      BY <1>5, <2>1 DEF Alone
  <1>7. ~rtmp'.stopEvent /\ \A i \in DOMAIN told' : told'[i] # "SUCCESS"
    BY <1>5 DEF Alone
  <1> HIDE DEF H
  <1> QED
    BY <1>2, <1>4, <1>5, <1>6, <1>7, AloneOn

LEMMA AloneStart ==
    ASSUME Shape, Threaded, OneInv, NEW t \in Threads, Start(t)
    PROVE  Alone'
  <1>1. \A h : At(t, h) => Least(t, h)
    BY AtLeast DEF Threaded
  <1>2. t = "user" /\ Starting /\ "user" \in Threads
    <2>1. \E h \in Starts : At(t, h)
      BY DEF Start, StartWait, StartCheck, StartConnect, Starts
    <2>2. PICK h \in Starts : h \in Todo(t)
      BY <1>1, <2>1 DEF Least
    <2> QED
      BY <2>2, Owners, Pools DEF OneInv, NoRetry, Starting
  <1>3. Untroubled /\ Blank
    BY <1>2, FreshUntroubled DEF Fresh
  <1>4. told' = <<>> /\ ~rtmp'.stopEvent
    BY <1>3 DEF Blank, Start, StartWait, StartCheck, StartConnect, front, Shape, RtmpOK, RtmpType
  <1>5. ASSUME NEW T, T \subseteq Starts, \A u \in Threads : Todo(u)' = IF u = "user" THEN T ELSE {},
               cause' = {} \/ T = {}
        PROVE  Alone'
    <2>1. \A x \in Late : x \notin Starts
      BY Apart
    <2>2. \A s \in Senders : s \in Threads /\ s # "user"
      BY Pools DEF Senders
    <2>3. \A u \in Threads : \A x \in Late : x \notin Todo(u)'
      BY <1>5, <2>1
    <2>4. \A s \in Senders : Todo(s)' = {}
      BY <1>5, <2>2
    <2>5. Todo("user")' \subseteq Starts /\ (T = {} => \A u \in Threads : Todo(u)' = {})
      BY <1>2, <1>5
    <2>6. \A i \in DOMAIN told' : told'[i] # "SUCCESS"
      BY <1>4
    <2> QED
      BY <1>4, <1>5, <2>3, <2>4, <2>5, <2>6, AloneQuiet
  <1>6. CASE StartWait(t) \/ StartCheck(t)
    <2>1. PICK h \in {"startWait", "start"}, S \in {{}, {"startConnect"}} :
              Went(t, h, S) /\ (UNCHANGED cause \/ (h = "start" /\ S = {}))
      <3>1. CASE StartWait(t)
        <4>1. Went(t, "startWait", {}) /\ UNCHANGED cause
          BY <3>1, StartMoves DEF StartWait, front, Threaded
        <4> QED
          BY <4>1
      <3>2. CASE StartCheck(t)
        BY <3>2, StartMoves DEF Threaded
      <3> QED
        BY <1>6, <3>1, <3>2
    <2>2. /\ Moved(t, S) /\ h \in Todo(t) /\ Todo(t)' = S \cup (Todo(t) \ {h})
          /\ \A x \in Todo(t) \ {h} : Rank(h) < Rank(x)
      BY <2>1, WentMoved DEF Went, Least
    <2>3. Todo(t)' \subseteq Starts
      BY <1>2, <1>3, <2>2 DEF Untroubled, Starts
    <2>4. h = "start" /\ S = {} => Todo(t)' = {}
      <3>1. Rank("startWait") = 5 /\ Rank("start") = 6 /\ Rank("startConnect") = 6
        BY DEF Rank, Signals
      <3> QED
        BY <1>2, <1>3, <2>2, <3>1 DEF Untroubled, Starts
    <2>5. cause' = {} \/ Todo(t)' = {}
      BY <1>3, <2>1, <2>4 DEF Blank
    <2>6. \A u \in Threads : Todo(u)' = IF u = "user" THEN Todo(t)' ELSE {}
      BY <1>2, <1>3, <2>2 DEF Untroubled, Moved
    <2> QED
      BY <1>5, <2>3, <2>5, <2>6
  <1>7. CASE StartConnect(t)
    <2> DEFINE E == {"initConnect", "connect"}
    <2>1. PICK c \in Connectors : Forked(t, "startConnect", {}, c, E)
      BY <1>7, StartMoves DEF Threaded
    <2>2. c \in Threads /\ c # "user" /\ c \notin Senders
      BY Pools DEF Connectors, Senders
    <2>3. /\ Todo("user")' \subseteq Starts /\ Todo(c)' = E
          /\ \A u \in Threads : u # "user" /\ u # c => Todo(u)' = {}
      BY <1>2, <1>3, <2>1, <2>2 DEF Forked, Untroubled
    <2>4. \A u \in Threads : \A x \in Late : x \notin Todo(u)'
      <3>1. \A x \in Late : x \notin Starts /\ x \notin E
        BY Apart DEF Late, Signals, Clearing
      <3> HIDE DEF E
      <3> QED
        BY <2>3, <3>1
    <2>5. \A s \in Senders : s \in Threads /\ s # "user" /\ s # c
      BY <2>2, Pools DEF Senders
    <2>6. \A s \in Senders : Todo(s)' \subseteq {"sendWait"}
      BY <2>3, <2>5
    <2>7. cause' = {}
      BY <1>3, <1>7 DEF StartConnect, front, Blank
    <2> QED
      BY <1>4, <2>3, <2>4, <2>6, <2>7, AloneQuiet
  <1> QED
    BY <1>6, <1>7 DEF Start

(* A connect thread that goes on to begin a capture. *)
LEMMA AloneYoung ==
    ASSUME OneInv, Alone, NEW t \in Connectors, Young(t), NEW S, Moved(t, S), S \cap Late = {},
           UNCHANGED <<told, cause>>, rtmp'.stopEvent = rtmp.stopEvent
    PROVE  Alone'
  <1>1. Undisturbed(t) /\ cause = {}
    BY DEF OneInv, YoungQuiet, Alone
  <1>2. "user" \in Threads /\ Senders \subseteq Threads /\ t # "user" /\ t \notin Senders
    BY Pools DEF Connectors, Senders
  <1>3. \A u \in Threads : \A x \in Late : x \notin Todo(u)'
    BY <1>1 DEF Undisturbed, Moved
  <1>4. \A s \in Senders : Todo(s)' \subseteq {"sendWait"}
    BY <1>1, <1>2 DEF Undisturbed, Moved
  <1>5. Todo("user")' \subseteq Starts /\ ~rtmp'.stopEvent /\ \A i \in DOMAIN told' : told'[i] # "SUCCESS"
    BY <1>2 DEF Alone, Moved
  <1> QED
    BY <1>1, <1>3, <1>4, <1>5, AloneQuiet

LEMMA AloneConnect ==
    ASSUME Shape, Threaded, OneInv, Alone, NEW t \in Threads,
           InitConnect(t) \/ TryConnect(t) \/ SendMetaData(t) \/ BeginCapture(t) \/ BeginActive(t)
    PROVE  Alone'
  <1>1. rtmp \in RtmpType /\ out \in OutType(plan.retryMax)
    BY DEF Shape, RtmpOK, OutOK
  <1>2. ASSUME NEW h \in YoungSteps, Least(t, h)
        PROVE  t \in Connectors /\ Young(t) /\ Undisturbed(t)
    BY <1>2, YoungHead
  <1>3. ASSUME NEW h \in YoungSteps, NEW S, Went(t, h, S), S \cap Late = {}, UNCHANGED <<told, cause>>,
               rtmp'.stopEvent = rtmp.stopEvent
        PROVE  Alone'
    <2>1. Moved(t, S) /\ Least(t, h)
      BY <1>3, WentMoved DEF Went
    <2> QED
      BY <1>2, <1>3, <2>1, AloneYoung
  <1>4. ASSUME NEW h \in YoungSteps, NEW x \in {"signalConnectFailed", "signalDisconnected"},
               Went(t, h, {x, "connectDetach", "connectDone"}), h \in {"connect", "metaData"},
               Fails("server"), UNCHANGED <<told, out, rtmp>>
        PROVE  Alone'
    <2> DEFINE S == {x, "connectDetach", "connectDone"}
    <2>1. /\ Moved(t, S) /\ Least(t, h) /\ Todo(t)' = S \cup (Todo(t) \ {h})
      BY <1>4, WentMoved DEF Went
    <2>2. t \in Connectors /\ Young(t) /\ Undisturbed(t) /\ Todo(t) = {h}
      BY <1>4, <2>1, YoungHead
    <2>3. x \in Signals /\ x # "signalSuccess" /\ (\A y \in Late : y \in S => y = x) /\ S \cap Starts = {}
          /\ \A y \in YoungSteps : y \notin S
      BY DEF Signals, Late, Clearing, Starts, YoungSteps
    <2>4. ~Young(t)' /\ x \in Todo(t)'
      BY <2>1, <2>2, <2>3 DEF Young
    <2>5. cause' # {} /\ rtmp'.packets = 0
      BY <1>4, <2>2 DEF Fails, Undisturbed
    <2> HIDE DEF S
    <2> QED
      BY <1>4, <2>1, <2>2, <2>3, <2>4, <2>5, AloneFails
  <1>5. {"initConnect", "connect", "metaData", "beginCapture", "beginActive"} \subseteq YoungSteps
    BY DEF YoungSteps
  <1>6. CASE InitConnect(t)
    <2>1. UNCHANGED <<told, out>> /\ rtmp'.stopEvent = rtmp.stopEvent /\ rtmp'.packets = 0
      BY <1>1, <1>6 DEF InitConnect, RtmpType
    <2>2. CASE Went(t, "initConnect", {}) /\ UNCHANGED <<cause, plan>>
      BY <1>3, <1>5, <2>1, <2>2
    <2>3. CASE Fails("settings") /\ Least(t, "initConnect") /\ Became(t, {"signalBadPath"})
      <3> DEFINE S == {"signalBadPath"}
      <3>1. Moved(t, S) /\ Todo(t)' = S
        BY <2>3 DEF Became, Moved
      <3>2. t \in Connectors /\ Young(t)
        BY <1>2, <1>5, <2>3
      <3>3. /\ "signalBadPath" \in Signals /\ \A y \in YoungSteps : y \notin S
            /\ S \cap Starts = {} /\ "signalBadPath" \in S
            /\ \A y \in Late : y \in S => y = "signalBadPath"
        BY DEF Signals, YoungSteps, Starts
      <3>4. ~Young(t)' /\ cause' # {}
        BY <2>3, <3>1, <3>3 DEF Young, Fails
      <3> HIDE DEF S
      <3> QED
        BY <2>1, <3>1, <3>2, <3>3, <3>4, AloneFails
    <2> QED
      BY <1>6, <2>2, <2>3, ConnectMoves DEF Threaded
  <1>7. CASE TryConnect(t)
    <2>1. UNCHANGED <<told, out>> /\ rtmp'.stopEvent = rtmp.stopEvent
      BY <1>1, <1>7 DEF TryConnect, RtmpType
    <2>2. ASSUME UNCHANGED <<cause, plan>>, NEW n \in Senders,
                 Forked(t, "connect", {"metaData"}, n, {"sendWait"})
          PROVE  Alone'
      <3>1. Least(t, "connect")
        BY <2>2 DEF Forked
      <3>2. t \in Connectors /\ Young(t) /\ Undisturbed(t)
        BY <1>2, <1>5, <3>1
      <3>3. n \in Threads /\ "user" \in Threads /\ Senders \subseteq Threads /\ n # "user"
            /\ t # "user" /\ t \notin Senders
        BY <3>2, Pools DEF Connectors, Senders
      <3>4. /\ Todo(t)' = {"metaData"} \cup (Todo(t) \ {"connect"}) /\ Todo(n)' = {"sendWait"}
            /\ \A u \in Threads \ {t, n} : Todo(u)' = Todo(u)
        BY <2>2, <3>3 DEF Forked
      <3>5. \A u \in Threads : \A x \in Late : x \notin Todo(u)'
        <4>1. \A x \in Late : x # "metaData" /\ x # "sendWait"
          BY DEF Late, Signals, Clearing
        <4>2. \A u \in Threads : \A x \in Late : x \notin Todo(u)
          BY <3>2 DEF Undisturbed
        <4> QED
          BY <3>4, <4>1, <4>2
      <3>6. \A s \in Senders : Todo(s)' \subseteq {"sendWait"}
        <4>1. \A s \in Senders : Todo(s) \subseteq {"sendWait"}
          BY <3>2 DEF Undisturbed
        <4> QED
          BY <3>3, <3>4, <4>1
      <3>7. Todo("user")' = Todo("user") /\ cause' = {}
        BY <2>2, <3>2, <3>3, <3>4 DEF Alone
      <3> QED
        BY <2>1, <3>5, <3>6, <3>7, AloneQuiet DEF Alone
    <2>3. CASE Fails("server") /\ UNCHANGED <<rtmp, handle, detached>>
               /\ Went(t, "connect", {"signalConnectFailed", "connectDetach", "connectDone"})
      BY <1>4, <1>5, <2>1, <2>3
    <2> QED
      BY <1>7, <2>2, <2>3, ConnectMoves DEF Threaded
  <1>8. CASE SendMetaData(t)
    <2>1. UNCHANGED <<told, out, rtmp>>
      BY <1>8 DEF SendMetaData
    <2>2. CASE UNCHANGED <<cause, plan>>
               /\ Went(t, "metaData", {"beginCapture", "connectDetach", "connectDone"})
      <3>1. {"beginCapture", "connectDetach", "connectDone"} \cap Late = {}
        BY DEF Late, Signals, Clearing
      <3> QED
        BY <1>3, <1>5, <2>1, <2>2, <3>1
    <2>3. CASE Fails("server") /\ Went(t, "metaData", {"signalDisconnected", "connectDetach", "connectDone"})
      BY <1>4, <1>5, <2>1, <2>3
    <2> QED
      BY <1>8, <2>2, <2>3, ConnectMoves DEF Threaded
  <1>9. CASE BeginCapture(t) \/ BeginActive(t)
    <2>1. UNCHANGED <<told, cause, rtmp>>
      BY <1>9 DEF BeginCapture, BeginActive, front
    <2>2. \E h \in {"beginCapture", "beginActive"} : \E S \in {{}, {"beginActive", "beginSignal"}} : Went(t, h, S)
      BY <1>9, ConnectMoves DEF Threaded
    <2>3. \A S \in {{}, {"beginActive", "beginSignal"}} : S \cap Late = {}
      BY DEF Late, Signals, Clearing
    <2> QED
      BY <1>3, <1>5, <2>1, <2>2, <2>3
  <1> QED
    BY <1>6, <1>7, <1>8, <1>9

LEMMA AloneStill ==
    ASSUME Alone, \A u \in Threads : Todo(u)' = Todo(u), UNCHANGED <<told, cause, out>>,
           rtmp'.stopEvent = rtmp.stopEvent,
           cause # {} => \A s \in Senders : "sendWait" \in Todo(s) => rtmp'.packets = 0
    PROVE  Alone'
  <1>1. "user" \in Threads /\ Connectors \cup Senders \subseteq Threads
    BY Pools
  <1>2. \A u \in Threads : (Emitting(u)' <=> Emitting(u)) /\ (Young(u)' <=> Young(u))
    BY DEF Emitting, Young
  <1>3. Starting' <=> Starting
    BY <1>1 DEF Starting
  <1> QED
    BY <1>1, <1>2, <1>3 DEF Alone

LEMMA AloneSend ==
    ASSUME Shape, Threaded, OneInv, Sources, Alone, ~Blamed, NEW t \in Threads, SendThread(t)
    PROVE  Alone'
  <1>1. rtmp \in RtmpType /\ ~rtmp.stopEvent /\ ~SendFinish(t)
    BY DEF Shape, RtmpOK, Alone, SendFinish
  <1>2. \A h : At(t, h) => Least(t, h)
    BY AtLeast DEF Threaded
  <1>3. \A h \in SendSteps : Least(t, h) => t \in Senders /\ t # "user"
    BY Duties DEF Least, Senders
  <1>4. "sendWait" \in SendSteps /\ "sendEnd" \in SendSteps
    BY DEF SendSteps
  <1>5. "user" \in Threads /\ Connectors \cup Senders \subseteq Threads /\ Connectors \cap Senders = {}
    BY Pools DEF Connectors, Senders
  <1>6. CASE SendPacket(t)
    <2>1. \A u \in Threads : Todo(u)' = Todo(u)
      BY <1>6, SendMoves DEF Threaded
    <2>2. UNCHANGED <<told, cause, out>> /\ rtmp'.stopEvent = rtmp.stopEvent
          /\ (rtmp.packets = 0 => rtmp'.packets = 0)
      BY <1>1, <1>6 DEF SendPacket, Taken, front, RtmpType
    <2>3. cause # {} => \A s \in Senders : "sendWait" \in Todo(s) => rtmp'.packets = 0
      BY <2>2 DEF Alone
    <2> QED
      BY <2>1, <2>2, <2>3, AloneStill
  <1>7. CASE SendFail(t)
    <2>1. Went(t, "sendWait", {"sendEnd"}) /\ "sendWait" \in Todo(t) /\ t \in Senders /\ t # "user"
      BY <1>2, <1>3, <1>4, <1>7, SendMoves DEF SendFail, Least, Threaded
    <2>2. rtmp.packets # 0 /\ UNCHANGED <<told, out>> /\ rtmp'.stopEvent = rtmp.stopEvent
          /\ "server" \in cause'
      BY <1>1, <1>7 DEF SendFail, Taken, Fails, RtmpType
    <2>3. cause = {}
      BY <2>1, <2>2 DEF Alone
    <2>4. \A u \in Threads : ~Emitting(u)
      BY <2>3 DEF Alone
    <2>5. /\ Todo(t) = {"sendWait"} /\ Todo(t)' = {"sendEnd"}
          /\ \A u \in Threads \ {t} : Todo(u)' = Todo(u)
      <3>1. Todo(t) = {"sendWait"}
        BY <2>1 DEF OneInv, SendLadder
      <3> QED
        BY <2>1, <3>1, WentMoved DEF Moved
    <2>6. \A u \in Threads : ~Emitting(u)' /\ "signalSuccess" \notin Todo(u)'
      <3>1. "sendEnd" \notin EmittingSteps
        BY DEF EmittingSteps, Signals, Clearing
      <3> QED
        BY <2>4, <2>5, <3>1 DEF Emitting, Alone
    <2>7. \A s \in Senders : "sendWait" \notin Todo(s)'
      <3>1. \A s \in Senders : s # t => Todo(s) = {}
        BY <2>1, OneOfAKind
      <3> QED
        BY <1>5, <2>5, <3>1
    <2>8. Todo("user")' = Todo("user") /\ ~Starting'
      <3>1. ~Fresh
        <4>1. "sendWait" \notin Starts
          BY DEF Starts
        <4> QED
          BY <2>1, <4>1, NotFresh
      <3> QED
        BY <1>5, <2>1, <2>5, <3>1 DEF Fresh, Starting
    <2>9. \A c \in Connectors : ~Young(c)'
      <3>1. \A c \in Connectors : ~Young(c)
        BY <2>2 DEF OneInv, YoungQuiet, Undisturbed
      <3>2. \A c \in Connectors : Todo(c)' = Todo(c)
        BY <1>5, <2>1, <2>5
      <3> QED
        BY <3>1, <3>2 DEF Young
    <2> QED
      BY <1>1, <2>2, <2>6, <2>7, <2>8, <2>9 DEF Alone
  <1>8. CASE SendEnd(t)
    <2> DEFINE S == {"signalDisconnected", "sendReset", "sendDone"}
    <2>1. Least(t, "sendEnd") /\ "sendEnd" \in Todo(t) /\ t \in Senders /\ t # "user"
      BY <1>2, <1>3, <1>4, <1>8 DEF SendEnd, Least
    <2>2. Went(t, "sendEnd", S)
      BY <1>1, <1>8, SendMoves DEF Threaded
    <2>3. /\ Todo(t) = {"sendEnd"} /\ Todo(t)' = S
          /\ \A u \in Threads \ {t} : Todo(u)' = Todo(u)
      <3>1. Todo(t) = {"sendEnd"}
        BY <2>1 DEF OneInv, SendLadder
      <3> QED
        BY <2>2, <3>1, WentMoved DEF Moved
    <2>4. UNCHANGED <<out, rtmp, told, cause>> /\ "server" \in cause
      <3>1. "server" \in cause
        BY <2>1 DEF Alone
      <3> QED
        BY <1>8, <3>1 DEF SendEnd, front
    <2>5. \A u \in Threads : Emitting(u)' => u = t
      BY <2>1, <2>3 DEF Alone, Emitting
    <2>6. /\ "signalDisconnected" \in S /\ "signalDisconnected" \in Signals
          /\ "signalSuccess" \notin S /\ "sendWait" \notin S /\ "sendEnd" \notin S
      BY DEF Signals
    <2> HIDE DEF S
    <2>7. /\ \A s \in Senders : "sendEnd" \notin Todo(s)'
          /\ \A s \in Senders : "sendWait" \in Todo(s)' => "sendWait" \in Todo(s)
      <3>1. \A s \in Senders : s # t => Todo(s) = {}
        BY <2>1, OneOfAKind
      <3> QED
        BY <1>5, <2>3, <2>6, <3>1
    <2>8. \A u \in Threads : "signalSuccess" \notin Todo(u)'
      BY <2>3, <2>6 DEF Alone
    <2>9. /\ Todo("user")' = Todo("user") /\ (Starting' <=> Starting)
          /\ \A c \in Connectors : Young(c)' => Young(c)
      <3>1. \A c \in Connectors : Todo(c)' = Todo(c)
        BY <1>5, <2>1, <2>3
      <3> QED
        BY <1>5, <2>1, <2>3, <3>1 DEF Young, Starting
    <2>10. \A u \in Threads : Emitting(u)' /\ (\A x \in Signals : x \notin Todo(u)') => FALSE
      BY <2>3, <2>5, <2>6
    <2>11. /\ cause' # {} => ~Starting' /\ (\A c \in Connectors : ~Young(c)')
           /\ cause' # {} => \A s \in Senders : "sendWait" \in Todo(s)' => rtmp'.packets = 0 /\ ~out'.active
      BY <2>4, <2>7, <2>9 DEF Alone
    <2>12. Todo("user")' \subseteq Starts /\ ~rtmp'.stopEvent /\ \A i \in DOMAIN told' : told'[i] # "SUCCESS"
      BY <2>4, <2>9 DEF Alone
    <2> QED
      BY <2>4, <2>5, <2>7, <2>8, <2>10, <2>11, <2>12 DEF Alone
  <1> QED
    BY <1>1, <1>6, <1>7, <1>8, AloneAlong DEF SendThread

LEMMA AloneFront ==
    ASSUME Shape, Threaded, OneInv, Alone, ~Blamed',
           UserStart \/ UserStop \/ UserForceStop \/ EncodeError \/ Packet \/ UNCHANGED vars
    PROVE  Alone'
  <1>1. "user" \notin cause' /\ "encoder" \notin cause'
    BY DEF Blamed
  <1>2. ~UserStop /\ ~UserForceStop /\ ~EncodeError
    BY <1>1 DEF UserStop, UserForceStop, EncodeError, Fails
  <1>3. CASE UserStart
    <2>1. Became("user", {"startWait", "start"}) /\ plan.start > 0
      BY <1>3, FrontMoves DEF UserStart, Spend, Threaded
    <2>2. Untroubled /\ Blank
      BY <2>1, FreshUntroubled DEF Fresh
    <2>3. told' = <<>> /\ cause' = {} /\ ~rtmp'.stopEvent
      BY <1>3, <2>2 DEF UserStart, Blank
    <2>4. {"startWait", "start"} \subseteq Starts /\ \A x \in Late : x \notin {"startWait", "start"}
      BY DEF Starts, Late, Signals, Clearing
    <2>5. "user" \in Threads /\ \A s \in Senders : s \in Threads /\ s # "user"
      BY Pools DEF Senders
    <2>6. \A u \in Threads : u # "user" => Todo(u)' = {}
      BY <2>1, <2>2 DEF Became, Untroubled
    <2>7. Todo("user")' = {"startWait", "start"}
      BY <2>1, <2>5 DEF Became
    <2>8. \A u \in Threads : \A x \in Late : x \notin Todo(u)'
      BY <2>4, <2>6, <2>7
    <2>9. \A s \in Senders : Todo(s)' \subseteq {"sendWait"}
      BY <2>5, <2>6
    <2> QED
      BY <2>3, <2>4, <2>7, <2>8, <2>9, AloneQuiet
  <1>4. CASE Packet \/ UNCHANGED vars
    <2>1. \A u \in Threads : Todo(u)' = Todo(u)
      BY <1>4, FrontMoves DEF Threaded
    <2>2. UNCHANGED <<told, cause, out>> /\ rtmp'.stopEvent = rtmp.stopEvent
          /\ (out.active \/ rtmp'.packets = rtmp.packets)
      BY <1>4 DEF Packet, vars, front, Shape, RtmpOK, RtmpType
    <2>3. cause # {} => \A s \in Senders : "sendWait" \in Todo(s) => rtmp'.packets = 0
      BY <2>2 DEF Alone
    <2> QED
      BY <2>1, <2>2, <2>3, AloneStill
  <1> QED
    BY <1>2, <1>3, <1>4

LEMMA AloneStep ==
    ASSUME Shape, Threaded, OneInv, Sources, Alone, ~Blamed, ~Blamed', [Next]_vars
    PROVE  Alone'
  <1>1. ASSUME NEW t \in Threads, Step(t) PROVE Alone'
    <2>1. ~RetryThread(t)
      BY RetriesNever DEF OneInv
    <2>2. ~Stop(t) /\ ~NullPacket(t)
      <3> SUFFICES ASSUME Stop(t) \/ NullPacket(t) PROVE FALSE
        OBVIOUS
      <3>1. \E h \in Stops \cup {"nullPacket"} : At(t, h)
        BY DEF Stop, ForceStop, CancelRetry, JoinRetry, RtmpStop, RtmpSignal, NullPacket, Stops
      <3>2. PICK h \in Stops \cup {"nullPacket"} : At(t, h)
        BY <3>1
      <3>3. h \in Todo(t) /\ h \in Duty(t)
        BY <3>2, AtLeast DEF Least, Threaded
      <3>4. h \notin Starts
        BY DEF Stops, Starts
      <3>5. t \in {"user", "encoder"}
        BY <3>3, Duties
      <3> QED
        BY <3>3, <3>4, <3>5, AloneIdle
    <2>3. CASE ConnectThread(t)
      BY <2>3, AloneConnect, AloneAlong DEF ConnectThread
    <2>4. CASE Shared(t) \/ EndThread(t)
      BY <2>4, AloneShared, AloneAlong
    <2>5. CASE Start(t) \/ SendThread(t)
      BY <2>5, AloneStart, AloneSend
    <2> QED
      BY <1>1, <2>1, <2>2, <2>3, <2>4, <2>5 DEF Step
  <1> QED
    BY <1>1, AloneFront DEF Next

LEMMA BlameStep ==
    ASSUME Shape, Threaded, OneInv, BlameInv, [Next]_vars
    PROVE  BlameInv'
  <1>1. Unheard' /\ Sources'
    BY HeardStep DEF BlameInv
  <1>2. ~Blamed' => ~Blamed
    BY CauseGrows DEF Blamed
  <1>3. ~Blamed' => Alone'
    BY <1>2, AloneStep DEF BlameInv
  <1> QED
    BY <1>1, <1>3 DEF BlameInv

LEMMA BlameInit ==
    ASSUME Init
    PROVE  BlameInv
  <1>1. \A t \in Threads : Todo(t) = {}
    BY Words DEF Init, Todo
  <1>2. /\ "user" \in Threads /\ "encoder" \in Threads
        /\ Senders \subseteq Threads /\ Connectors \subseteq Threads
    BY Pools
  <1>3. out.stopCode = "SUCCESS" /\ told = <<>> /\ cause = {} /\ ~rtmp.encodeError /\ ~rtmp.stopEvent
    BY DEF Init
  <1>4. Unheard
    BY <1>1, <1>3, WhoNames DEF Unheard
  <1>5. Sources
    BY <1>1, <1>2, <1>3 DEF Sources
  <1>6. Alone
    <2>1. \A t \in Threads : ~Emitting(t)
      BY <1>1 DEF Emitting
    <2> QED
      BY <1>1, <1>2, <1>3, <2>1 DEF Alone
  <1> QED
    BY <1>4, <1>5, <1>6 DEF BlameInv

(* obs_output_signal_stop and the RTMP threads' reasons to call it: in one   *)
(* session, however the threads interleave, the code the frontend is told    *)
(* names who is to blame, and a session that only the server or the settings *)
(* broke is never reported as stopped by the user.                           *)
THEOREM BlameIsTrue == Spec /\ OneSession => []StopCodeIsTrue
  <1>1. Init => BlameInv
    BY BlameInit
  <1>2. Shape /\ Threaded /\ OneInv /\ BlameInv /\ [Next]_vars => BlameInv'
    BY BlameStep
  <1>3. Shape /\ BlameInv => StopCodeIsTrue
    <2> SUFFICES ASSUME Shape, BlameInv, NEW i \in DOMAIN told
                 PROVE  /\ told[i] \in {"DISCONNECTED", "CONNECT_FAILED"} => "server" \in cause
                        /\ told[i] = "ENCODE_ERROR" => "encoder" \in cause
                        /\ told[i] = "BAD_PATH" => "settings" \in cause
                        /\ told[i] = "SUCCESS" => cause \notin {{}, {"server"}, {"settings"}}
      BY DEF StopCodeIsTrue
    <2>1. \A c \in DOMAIN Who : told[i] = c => Who[c] \in cause
      BY DEF BlameInv, Unheard
    <2>2. told[i] = "SUCCESS" => Blamed
      BY DEF BlameInv, Alone
    <2>3. cause \in {{}, {"server"}, {"settings"}} => ~Blamed
      BY DEF Blamed
    <2> QED
      BY <2>1, <2>2, <2>3, WhoNames
  <1> QED
    BY <1>1, <1>2, <1>3, OneKept, PTL DEF Spec

=============================================================================
