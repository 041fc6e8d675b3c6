--------------------------- MODULE RecursionLemmas ---------------------------
(***************************************************************************)
(* What a sum over a finite set of indices does when an index is added,    *)
(* for the sums of the community modules; and that a function defined by   *)
(* recursion over an interval exists and is the only one.                  *)
(***************************************************************************)
EXTENDS Integers, Sequences, FiniteSets, Folds, Functions, FiniteSetTheorems, SequenceTheorems,
        WellFoundedInduction, TLAPS

(* Induction over the natural numbers, of a set. *)
LEMMA NatSet ==
    ASSUME NEW S, 0 \in S, \A n \in Nat : n \in S => n + 1 \in S
    PROVE  Nat \subseteq S
  <1> DEFINE T == Nat \ S
  <1> SUFFICES ASSUME T # {} PROVE FALSE
    OBVIOUS
  <1>1. PICK x \in T : \A y \in T : ~ (<<y, x>> \in OpToRel(<, Nat))
    BY NatLessThanWellFounded, WFMin
  <1>2. x # 0 /\ x \in Nat
    OBVIOUS
  <1>3. x - 1 \in Nat /\ x - 1 < x /\ x - 1 + 1 = x
    BY <1>2
  <1>4. <<x - 1, x>> \in OpToRel(<, Nat)
    BY <1>2, <1>3 DEF OpToRel
  <1>5. x - 1 \in S
    BY <1>1, <1>3, <1>4
  <1> QED
    BY <1>3, <1>5

(* The equation of the recursion by which a sum is defined. *)
One(s) == CHOOSE x \in s : TRUE
Adds(h, g, s) == h[s] = IF s = {} THEN 0 ELSE g[One(s)] + h[s \ {One(s)}]
Sums(h, g, D) == /\ \A x \in D : g[x] \in Int
                 /\ h \in [SUBSET D -> Int]
                 /\ \A s \in SUBSET D : Adds(h, g, s)
TakesAny(h, g, D) == \A s, x : s \in SUBSET D /\ x \in s => h[s] = g[x] + h[s \ {x}]
Upto(D, n) == {s \in SUBSET D : Cardinality(s) <= n}

LEMMA OneFacts == \A s : s # {} => One(s) \in s
  BY DEF One

LEMMA UptoFacts ==
    ASSUME NEW D, IsFiniteSet(D)
    PROVE  /\ Upto(D, 0) = {{}} /\ Upto(D, Cardinality(D)) = SUBSET D
           /\ \A n \in Nat : Upto(D, n) \subseteq Upto(D, n + 1) /\ Upto(D, n) \subseteq SUBSET D
           /\ \A n \in Nat : \A s, x : s \in Upto(D, n + 1) /\ x \in s => s \ {x} \in Upto(D, n)
           /\ \A n \in Nat : {} \in Upto(D, n)
  <1>1. \A s \in SUBSET D : /\ IsFiniteSet(s) /\ Cardinality(s) \in Nat
                            /\ Cardinality(s) <= Cardinality(D)
                            /\ (Cardinality(s) = 0 <=> s = {})
    BY FS_Subset, FS_CardinalityType, FS_EmptySet
  <1>2. \A s, x : s \in SUBSET D /\ x \in s => Cardinality(s \ {x}) = Cardinality(s) - 1
    BY <1>1, FS_RemoveElement
  <1>3. {} \in SUBSET D /\ Cardinality({}) = 0
    BY <1>1
  <1>4. \A s \in SUBSET D : Cardinality(s) <= 0 <=> s = {}
    BY <1>1
  <1>5. Upto(D, 0) = {{}}
    BY <1>3, <1>4 DEF Upto
  <1>6. Upto(D, Cardinality(D)) = SUBSET D
    BY <1>1 DEF Upto
  <1>7. \A n \in Nat : Upto(D, n) \subseteq Upto(D, n + 1) /\ Upto(D, n) \subseteq SUBSET D
    BY <1>1 DEF Upto
  <1>8. ASSUME NEW n \in Nat, NEW s \in Upto(D, n + 1), NEW x \in s
        PROVE  s \ {x} \in Upto(D, n)
    <2>1. s \in SUBSET D /\ Cardinality(s) <= n + 1 /\ Cardinality(s) \in Nat
      BY <1>1 DEF Upto
    <2>2. Cardinality(s \ {x}) <= n /\ s \ {x} \in SUBSET D
      BY <1>2, <2>1
    <2> QED
      BY <2>2 DEF Upto
  <1>9. \A n \in Nat : {} \in Upto(D, n)
    BY <1>3 DEF Upto
  <1> QED
    BY <1>5, <1>6, <1>7, <1>8, <1>9

(* The recursion has a solution. *)
LEMMA Solution ==
    ASSUME NEW D, IsFiniteSet(D), NEW g, \A x \in D : g[x] \in Int
    PROVE  \E h \in [SUBSET D -> Int] : \A s \in SUBSET D : Adds(h, g, s)
  <1> DEFINE P(n) == \E h \in [Upto(D, n) -> Int] : \A s \in Upto(D, n) : Adds(h, g, s)
             S == {n \in Nat : P(n)}
  <1>1. P(0)
    <2> DEFINE h == [s \in {{}} |-> 0]
    <2>1. h \in [Upto(D, 0) -> Int]
      BY UptoFacts
    <2>2. \A s \in Upto(D, 0) : Adds(h, g, s)
      BY UptoFacts DEF Adds
    <2> QED
      BY <2>1, <2>2
  <1>2. ASSUME NEW n \in Nat, P(n) PROVE P(n + 1)
    <2>1. PICK h \in [Upto(D, n) -> Int] : \A s \in Upto(D, n) : Adds(h, g, s)
      BY <1>2
    <2> DEFINE k == [s \in Upto(D, n + 1) |-> IF s = {} THEN 0 ELSE g[One(s)] + h[s \ {One(s)}]]
    <2>2. \A s \in Upto(D, n + 1) : s # {} => /\ One(s) \in D /\ s \ {One(s)} \in Upto(D, n)
                                              /\ s \ {One(s)} \in Upto(D, n + 1)
      <3> SUFFICES ASSUME NEW s \in Upto(D, n + 1), s # {}
                   PROVE  /\ One(s) \in D /\ s \ {One(s)} \in Upto(D, n)
                          /\ s \ {One(s)} \in Upto(D, n + 1)
        OBVIOUS
      <3>1. One(s) \in s
        BY OneFacts
      <3>2. s \ {One(s)} \in Upto(D, n)
        BY <3>1, UptoFacts
      <3>3. s \ {One(s)} \in Upto(D, n + 1)
        BY <3>2, UptoFacts
      <3>4. n + 1 \in Nat /\ s \in SUBSET D
        BY UptoFacts
      <3> QED
        BY <3>1, <3>2, <3>3, <3>4
    <2>3. k \in [Upto(D, n + 1) -> Int]
      BY <2>2
    <2>4. \A s \in Upto(D, n) : k[s] = h[s]
      BY <2>1, UptoFacts DEF Adds
    <2>5. \A s \in Upto(D, n + 1) : Adds(k, g, s)
      BY <2>2, <2>4 DEF Adds
    <2> QED
      BY <2>3, <2>5
  <1> HIDE DEF P
  <1>5. 0 \in S /\ \A n \in Nat : n \in S => n + 1 \in S
    BY <1>1, <1>2
  <1>3. \A n \in Nat : n \in S => P(n)
    OBVIOUS
  <1> HIDE DEF S
  <1>6. Nat \subseteq S
    BY <1>5, NatSet
  <1>4. P(Cardinality(D))
    BY <1>3, <1>6, FS_CardinalityType
  <1> QED
    BY <1>4, UptoFacts DEF P

(* Any two solutions agree, also when one is for a larger set. *)
LEMMA Unique ==
    ASSUME NEW D, IsFiniteSet(D), NEW g, NEW f, NEW h, NEW k,
           \A s \in SUBSET D : Adds(h, g, s) /\ Adds(k, f, s),
           \A x \in D : g[x] = f[x]
    PROVE  \A s \in SUBSET D : h[s] = k[s]
  <1> DEFINE S == {n \in Nat : \A s \in Upto(D, n) : h[s] = k[s]}
  <1>1. 0 \in S
    <2>1. \A s \in Upto(D, 0) : s = {} /\ s \in SUBSET D
      BY UptoFacts
    <2>2. h[{}] = 0 /\ k[{}] = 0
      BY DEF Adds
    <2> QED
      BY <2>1, <2>2
  <1>2. ASSUME NEW n \in Nat, n \in S PROVE n + 1 \in S
    <2> SUFFICES ASSUME NEW s \in Upto(D, n + 1) PROVE h[s] = k[s]
      OBVIOUS
    <2>1. s \in SUBSET D
      BY UptoFacts
    <2>2. CASE s = {}
      BY <2>1, <2>2 DEF Adds
    <2>3. CASE s # {}
      <3>1. One(s) \in D /\ h[s \ {One(s)}] = k[s \ {One(s)}]
        BY <1>2, <2>1, <2>3, UptoFacts, OneFacts
      <3> QED
        BY <2>1, <2>3, <3>1 DEF Adds
    <2> QED
      BY <2>2, <2>3
  <1> HIDE DEF S
  <1>3. Cardinality(D) \in S
    BY <1>1, <1>2, NatSet, FS_CardinalityType
  <1> QED
    BY <1>3, UptoFacts DEF S

(* Which element is taken out makes no difference. *)
LEMMA AnyElement ==
    ASSUME NEW D, IsFiniteSet(D), NEW g, NEW h, Sums(h, g, D)
    PROVE  TakesAny(h, g, D)
  <1>0. /\ \A y \in D : g[y] \in Int
        /\ h \in [SUBSET D -> Int]
        /\ \A s \in SUBSET D : Adds(h, g, s)
    BY DEF Sums
  <1> DEFINE S == {n \in Nat : \A s, x : s \in Upto(D, n) /\ x \in s => h[s] = g[x] + h[s \ {x}]}
  <1>1. 0 \in S
    BY UptoFacts
  <1>2. ASSUME NEW n \in Nat, n \in S PROVE n + 1 \in S
    <2> SUFFICES ASSUME NEW s \in Upto(D, n + 1), NEW x \in s PROVE h[s] = g[x] + h[s \ {x}]
      OBVIOUS
    <2> DEFINE c == One(s)
    <2>1. s \in SUBSET D /\ c \in s /\ c \in D /\ x \in D
      BY UptoFacts, OneFacts
    <2>2. h[s] = g[c] + h[s \ {c}]
      BY <1>0, <2>1 DEF Adds
    <2> HIDE DEF c
    <2>3. CASE x = c
      BY <2>2, <2>3
    <2>4. CASE x # c
      <3>1. s \ {c} \in Upto(D, n) /\ s \ {x} \in Upto(D, n)
        BY <2>1, UptoFacts
      <3>2. h[s \ {c}] = g[x] + h[(s \ {c}) \ {x}]
        BY <1>2, <2>4, <3>1
      <3>3. h[s \ {x}] = g[c] + h[(s \ {x}) \ {c}]
        BY <1>2, <2>1, <2>4, <3>1
      <3>4. (s \ {c}) \ {x} = (s \ {x}) \ {c} /\ (s \ {c}) \ {x} \in SUBSET D
        BY <2>1
      <3>5. h[(s \ {c}) \ {x}] \in Int /\ g[x] \in Int /\ g[c] \in Int
        BY <1>0, <2>1, <3>4
      <3>6. \A a, b, z \in Int : a + (b + z) = b + (a + z)
        OBVIOUS
      <3>7. h[s] = g[c] + (g[x] + h[(s \ {c}) \ {x}])
        BY <2>2, <3>2, Zenon
      <3>8. h[s \ {x}] = g[c] + h[(s \ {c}) \ {x}]
        BY <3>3, <3>4, Zenon
      <3>9. g[c] + (g[x] + h[(s \ {c}) \ {x}]) = g[x] + (g[c] + h[(s \ {c}) \ {x}])
        BY <3>5, <3>6
      <3>10. h[s] = g[x] + (g[c] + h[(s \ {c}) \ {x}])
        BY <3>7, <3>9, Zenon
      <3> QED
        BY <3>8, <3>10, Zenon
    <2> QED
      BY <2>3, <2>4
  <1> HIDE DEF S
  <1>3. Cardinality(D) \in S
    BY <1>1, <1>2, NatSet, FS_CardinalityType
  <1> QED
    BY <1>3, UptoFacts DEF S, TakesAny

(* A sum is the value of a solution at the whole set. *)
LEMMA SumIsSolution ==
    ASSUME NEW D, IsFiniteSet(D), NEW g, \A x \in D : g[x] \in Int
    PROVE  \E h \in [SUBSET D -> Int] : /\ \A s \in SUBSET D : Adds(h, g, s)
                                        /\ SumFunctionOnSet(g, D) = h[D]
  <1> DEFINE E(h) == h = [s \in SUBSET D |-> IF s = {} THEN 0 ELSE g[One(s)] + h[s \ {One(s)}]]
             it == CHOOSE h : E(h)
  <1>1. SumFunctionOnSet(g, D) = it[D]
    BY Zenon DEF SumFunctionOnSet, FoldFunctionOnSet, MapThenFoldSet, One
  <1>2. PICK h \in [SUBSET D -> Int] : \A s \in SUBSET D : Adds(h, g, s)
    BY Solution
  <1>3. E(h)
    BY <1>2 DEF Adds
  <1>4. E(it)
    BY <1>3, Zenon
  <1> HIDE DEF it
  <1>5. \A s \in SUBSET D : Adds(it, g, s)
    BY <1>4 DEF Adds
  <1>6. \A s \in SUBSET D : it[s] = h[s]
    BY <1>2, <1>5, Unique
  <1> QED
    BY <1>1, <1>2, <1>6

(***************************************************************************)
(* The facts about sums that are used elsewhere.                           *)
(***************************************************************************)
LEMMA SumEmpty == \A g : SumFunctionOnSet(g, {}) = 0
  <1> SUFFICES ASSUME NEW g PROVE SumFunctionOnSet(g, {}) = 0
    OBVIOUS
  <1>1. PICK h : Adds(h, g, {}) /\ SumFunctionOnSet(g, {}) = h[{}]
    BY SumIsSolution, FS_EmptySet
  <1> QED
    BY <1>1 DEF Adds

(* The sum over a subset is a value of the same solution. *)
LEMMA SumOfSubset ==
    ASSUME NEW D, IsFiniteSet(D), NEW g, NEW h, Sums(h, g, D), NEW S \in SUBSET D
    PROVE  SumFunctionOnSet(g, S) = h[S]
  <1>1. IsFiniteSet(S) /\ \A x \in S : g[x] \in Int
    BY FS_Subset DEF Sums
  <1>2. PICK k \in [SUBSET S -> Int] : (\A s \in SUBSET S : Adds(k, g, s)) /\ SumFunctionOnSet(g, S) = k[S]
    BY <1>1, SumIsSolution
  <1>3. \A s \in SUBSET S : Adds(h, g, s)
    BY DEF Sums
  <1>4. \A s \in SUBSET S : k[s] = h[s]
    BY <1>1, <1>2, <1>3, Unique
  <1> QED
    BY <1>2, <1>4

(* The sum of one more. *)
LEMMA SumAdd ==
    ASSUME NEW S, IsFiniteSet(S), NEW x, x \notin S,
           NEW g, \A y \in S \cup {x} : g[y] \in Int
    PROVE  SumFunctionOnSet(g, S \cup {x}) = g[x] + SumFunctionOnSet(g, S) /\ SumFunctionOnSet(g, S) \in Int
  <1>0. PICK D : D = S \cup {x}
    OBVIOUS
  <1>1. IsFiniteSet(D)
    BY <1>0, FS_AddElement
  <1>2. /\ D \ {x} = S /\ S \in SUBSET D /\ x \in D /\ D \in SUBSET D
        /\ \A y \in D : g[y] \in Int
    BY <1>0
  <1>3. PICK h \in [SUBSET D -> Int] : (\A s \in SUBSET D : Adds(h, g, s)) /\ SumFunctionOnSet(g, D) = h[D]
    BY <1>1, <1>2, SumIsSolution
  <1>4. Sums(h, g, D)
    BY <1>2, <1>3 DEF Sums
  <1>5. SumFunctionOnSet(g, S) = h[S]
    BY <1>1, <1>2, <1>4, SumOfSubset
  <1>6. TakesAny(h, g, D)
    BY <1>1, <1>4, AnyElement
  <1>7. h[D] = g[x] + h[D \ {x}]
    BY <1>2, <1>6 DEF TakesAny
  <1>8. h[S] \in Int
    BY <1>2
  <1>9. SumFunctionOnSet(g, D) = g[x] + SumFunctionOnSet(g, S)
    BY <1>2, <1>3, <1>5, <1>7, Zenon
  <1> QED
    BY <1>0, <1>5, <1>8, <1>9, Zenon

(* The sum of one less. *)
LEMMA SumRemove ==
    ASSUME NEW S, IsFiniteSet(S), NEW x \in S, NEW g, \A y \in S : g[y] \in Int
    PROVE  SumFunctionOnSet(g, S) = g[x] + SumFunctionOnSet(g, S \ {x}) /\ SumFunctionOnSet(g, S \ {x}) \in Int
  <1>1. PICK R : R = S \ {x}
    OBVIOUS
  <1>2. S = R \cup {x} /\ x \notin R
    BY <1>1
  <1>3. IsFiniteSet(R) /\ \A y \in R \cup {x} : g[y] \in Int
    BY <1>1, <1>2, FS_RemoveElement
  <1>4. SumFunctionOnSet(g, R \cup {x}) = g[x] + SumFunctionOnSet(g, R) /\ SumFunctionOnSet(g, R) \in Int
    BY <1>2, <1>3, SumAdd
  <1> QED
    BY <1>1, <1>2, <1>4, Zenon

(* Two functions that agree on the set have the same sum. *)
LEMMA SumSame ==
    ASSUME NEW S, IsFiniteSet(S), NEW f, NEW g, \A y \in S : g[y] \in Int,
           \A y \in S : f[y] = g[y]
    PROVE  SumFunctionOnSet(f, S) = SumFunctionOnSet(g, S) /\ SumFunctionOnSet(g, S) \in Int
  <1>1. PICK h \in [SUBSET S -> Int] : (\A s \in SUBSET S : Adds(h, g, s)) /\ SumFunctionOnSet(g, S) = h[S]
    BY SumIsSolution
  <1>2. \A y \in S : f[y] \in Int
    OBVIOUS
  <1>3. PICK k \in [SUBSET S -> Int] : (\A s \in SUBSET S : Adds(k, f, s)) /\ SumFunctionOnSet(f, S) = k[S]
    BY <1>2, SumIsSolution
  <1>4. \A s \in SUBSET S : h[s] = k[s]
    BY <1>1, <1>3, Unique
  <1> QED
    BY <1>1, <1>3, <1>4

(* A sum of one term changed: the sum moves by as much. *)
LEMMA SumChange ==
    ASSUME NEW S, IsFiniteSet(S), NEW x \in S, NEW f, NEW g,
           \A y \in S : f[y] \in Int /\ g[y] \in Int,
           \A y \in S : y # x => f[y] = g[y]
    PROVE  SumFunctionOnSet(f, S) = SumFunctionOnSet(g, S) + (f[x] - g[x]) /\ SumFunctionOnSet(g, S) \in Int
  <1>1. SumFunctionOnSet(f, S) = f[x] + SumFunctionOnSet(f, S \ {x}) /\ SumFunctionOnSet(f, S \ {x}) \in Int
    BY SumRemove
  <1>2. SumFunctionOnSet(g, S) = g[x] + SumFunctionOnSet(g, S \ {x}) /\ SumFunctionOnSet(g, S \ {x}) \in Int
    BY SumRemove
  <1>3. SumFunctionOnSet(f, S \ {x}) = SumFunctionOnSet(g, S \ {x})
    <2>1. IsFiniteSet(S \ {x})
      BY FS_RemoveElement
    <2> QED
      BY <2>1, SumSame
  <1>4. f[x] \in Int /\ g[x] \in Int
    OBVIOUS
  <1>5. \A a, b, c \in Int : a + c = (b + c) + (a - b) /\ b + c \in Int
    OBVIOUS
  <1> QED
    BY <1>1, <1>2, <1>3, <1>4, <1>5

(* A sum of natural numbers is one, and no less than any of them. *)
LEMMA SumNat ==
    ASSUME NEW D, IsFiniteSet(D), NEW g, \A x \in D : g[x] \in Nat
    PROVE  SumFunctionOnSet(g, D) \in Nat
  <1>1. PICK h \in [SUBSET D -> Int] : /\ \A s \in SUBSET D : Adds(h, g, s)
                                       /\ SumFunctionOnSet(g, D) = h[D]
    <2>1. \A x \in D : g[x] \in Int
      OBVIOUS
    <2> QED
      BY <2>1, SumIsSolution
  <1> DEFINE S == {n \in Nat : \A s \in Upto(D, n) : h[s] \in Nat}
  <1>2. 0 \in S
    <2>1. \A s \in Upto(D, 0) : s = {} /\ s \in SUBSET D
      BY UptoFacts
    <2>2. ASSUME NEW s \in Upto(D, 0) PROVE h[s] \in Nat
      <3>1. s = {} /\ Adds(h, g, s)
        BY <1>1, <2>1
      <3>2. h[s] = 0
        BY <3>1 DEF Adds
      <3> QED
        BY <3>2
    <2> QED
      BY <2>2
  <1>3. ASSUME NEW n \in Nat, n \in S PROVE n + 1 \in S
    <2> SUFFICES ASSUME NEW s \in Upto(D, n + 1) PROVE h[s] \in Nat
      OBVIOUS
    <2>1. s \in SUBSET D
      BY UptoFacts
    <2>2. CASE s = {}
      <3>1. h[{}] = 0
        BY <1>1 DEF Adds
      <3> QED
        BY <2>2, <3>1
    <2>3. CASE s # {}
      <3>1. One(s) \in D /\ h[s \ {One(s)}] \in Nat
        BY <1>3, <2>1, <2>3, UptoFacts, OneFacts
      <3>2. h[s] = g[One(s)] + h[s \ {One(s)}]
        BY <1>1, <2>1, <2>3 DEF Adds
      <3>3. g[One(s)] \in Nat
        BY <3>1
      <3> QED
        BY <3>1, <3>2, <3>3
    <2> QED
      BY <2>2, <2>3
  <1> HIDE DEF S
  <1>4. Cardinality(D) \in S
    BY <1>2, <1>3, NatSet, FS_CardinalityType
  <1>5. D \in Upto(D, Cardinality(D))
    BY UptoFacts
  <1> QED
    BY <1>1, <1>4, <1>5 DEF S

LEMMA SumAtLeast ==
    ASSUME NEW D, IsFiniteSet(D), NEW x \in D, NEW g, \A y \in D : g[y] \in Nat
    PROVE  SumFunctionOnSet(g, D) >= g[x] /\ SumFunctionOnSet(g, D) \in Nat
  <1>1. IsFiniteSet(D \ {x}) /\ \A y \in D \ {x} : g[y] \in Nat
    BY FS_RemoveElement
  <1>2. SumFunctionOnSet(g, D \ {x}) \in Nat
    BY <1>1, SumNat
  <1>3. SumFunctionOnSet(g, D) = g[x] + SumFunctionOnSet(g, D \ {x})
    <2>1. \A y \in D : g[y] \in Int
      OBVIOUS
    <2> QED
      BY <2>1, SumRemove
  <1> QED
    BY <1>2, <1>3

(***************************************************************************)
(* Sums over the indices of a sequence.                                    *)
(***************************************************************************)
LEMMA SumSnoc ==
    ASSUME NEW n \in Nat, NEW g, \A i \in 1 .. n + 1 : g[i] \in Int
    PROVE  SumFunctionOnSet(g, 1 .. n + 1) = g[n + 1] + SumFunctionOnSet(g, 1 .. n)
           /\ SumFunctionOnSet(g, 1 .. n) \in Int
  <1>1. 1 .. n + 1 = (1 .. n) \cup {n + 1} /\ n + 1 \notin 1 .. n /\ IsFiniteSet(1 .. n)
    BY FS_Interval
  <1> QED
    BY <1>1, SumAdd

(* A term put in front of the others *)
LEMMA SumCons ==
    ASSUME NEW m \in Nat, NEW f, NEW g, \A i \in 1 .. m : f[i] \in Int /\ g[i + 1] = f[i],
           g[1] \in Int
    PROVE  SumFunctionOnSet(g, 1 .. m + 1) = g[1] + SumFunctionOnSet(f, 1 .. m)
           /\ SumFunctionOnSet(f, 1 .. m) \in Int
  <1> DEFINE S == {n \in Nat : n <= m => /\ SumFunctionOnSet(g, 1 .. n + 1) = g[1] + SumFunctionOnSet(f, 1 .. n)
                                         /\ SumFunctionOnSet(f, 1 .. n) \in Int}
  <1>0. \A i \in 1 .. m + 1 : g[i] \in Int
    <2> SUFFICES ASSUME NEW i \in 1 .. m + 1, i # 1 PROVE g[i] \in Int
      OBVIOUS
    <2>1. i - 1 \in 1 .. m /\ i - 1 + 1 = i
      OBVIOUS
    <2> QED
      BY <2>1
  <1>1. 0 \in S
    <2>1. 1 .. 0 = {} /\ 1 .. 0 + 1 = {1}
      OBVIOUS
    <2>2. SumFunctionOnSet(f, 1 .. 0) = 0 /\ SumFunctionOnSet(g, 1 .. 0) = 0
      BY <2>1, SumEmpty
    <2>3. SumFunctionOnSet(g, 1 .. 0 + 1) = g[0 + 1] + SumFunctionOnSet(g, 1 .. 0)
      <3>1. \A i \in 1 .. 0 + 1 : g[i] \in Int
        BY <2>1
      <3> QED
        BY <3>1, SumSnoc
    <2>4. 0 + 1 = 1
      OBVIOUS
    <2>5. SumFunctionOnSet(g, 1 .. 0 + 1) = g[1] + 0
      BY <2>2, <2>3, <2>4, Zenon
    <2> QED
      BY <2>2, <2>5
  <1>2. ASSUME NEW n \in Nat, n \in S PROVE n + 1 \in S
    <2> SUFFICES ASSUME n + 1 <= m
                 PROVE  /\ SumFunctionOnSet(g, 1 .. n + 1 + 1) = g[1] + SumFunctionOnSet(f, 1 .. n + 1)
                        /\ SumFunctionOnSet(f, 1 .. n + 1) \in Int
      OBVIOUS
    <2>1. SumFunctionOnSet(g, 1 .. n + 1) = g[1] + SumFunctionOnSet(f, 1 .. n) /\ SumFunctionOnSet(f, 1 .. n) \in Int
      BY <1>2
    <2>2. SumFunctionOnSet(f, 1 .. n + 1) = f[n + 1] + SumFunctionOnSet(f, 1 .. n)
      <3>1. \A i \in 1 .. n + 1 : f[i] \in Int
        OBVIOUS
      <3> QED
        BY <3>1, SumSnoc
    <2>3. SumFunctionOnSet(g, 1 .. n + 1 + 1) = g[n + 1 + 1] + SumFunctionOnSet(g, 1 .. n + 1)
      <3>1. \A i \in 1 .. n + 1 + 1 : g[i] \in Int
        BY <1>0
      <3>2. n + 1 \in Nat
        OBVIOUS
      <3> QED
        BY <3>1, <3>2, SumSnoc
    <2>4. g[n + 1 + 1] = f[n + 1] /\ f[n + 1] \in Int
      <3>1. n + 1 \in 1 .. m
        OBVIOUS
      <3> QED
        BY <3>1
    <2>5. \A a, b, c \in Int : b + (a + c) = a + (b + c) /\ b + c \in Int
      OBVIOUS
    <2> HIDE DEF S
    <2>6. SumFunctionOnSet(f, 1 .. n + 1) \in Int
      BY <2>1, <2>2, <2>4, <2>5
    <2>7. SumFunctionOnSet(g, 1 .. n + 1 + 1) = f[n + 1] + (g[1] + SumFunctionOnSet(f, 1 .. n))
      BY <2>1, <2>3, <2>4, Zenon
    <2>8. f[n + 1] + (g[1] + SumFunctionOnSet(f, 1 .. n)) = g[1] + (f[n + 1] + SumFunctionOnSet(f, 1 .. n))
      BY <2>1, <2>4, <2>5
    <2> QED
      BY <2>2, <2>6, <2>7, <2>8, Zenon
  <1> HIDE DEF S
  <1>3. m \in S
    BY <1>1, <1>2, NatSet
  <1> QED
    BY <1>3 DEF S

-----------------------------------------------------------------------------
(* Sequences, numbers, and functions defined by recursion.                  *)

(* Cutting a sequence in two. *)
LEMMA Cut ==
    ASSUME NEW S, NEW s \in Seq(S), NEW n \in 0 .. Len(s)
    PROVE  /\ SubSeq(s, 1, n) \in Seq(S) /\ Len(SubSeq(s, 1, n)) = n
           /\ \A i \in 1 .. n : SubSeq(s, 1, n)[i] = s[i]
           /\ SubSeq(s, n + 1, Len(s)) \in Seq(S) /\ Len(SubSeq(s, n + 1, Len(s))) = Len(s) - n
           /\ \A i \in 1 .. Len(s) - n : SubSeq(s, n + 1, Len(s))[i] = s[n + i]
           /\ SubSeq(s, 1, n) \o SubSeq(s, n + 1, Len(s)) = s
  <1>1. Len(s) \in Nat /\ n \in Nat /\ n <= Len(s) /\ \A i \in 1 .. Len(s) : s[i] \in S
    BY LenProperties, ElementOfSeq
  <1>2. /\ SubSeq(s, 1, n) \in Seq(S) /\ Len(SubSeq(s, 1, n)) = n
        /\ \A i \in 1 .. n : SubSeq(s, 1, n)[i] = s[i]
    <2>1. \A i \in 1 .. n : s[i] \in S
      BY <1>1
    <2>2. /\ SubSeq(s, 1, n) \in Seq(S) /\ Len(SubSeq(s, 1, n)) = IF 1 <= n THEN n - 1 + 1 ELSE 0
          /\ \A i \in 1 .. n - 1 + 1 : SubSeq(s, 1, n)[i] = s[1 + i - 1]
      BY <1>1, <2>1, SubSeqProperties
    <2> QED
      BY <1>1, <2>2
  <1>3. /\ SubSeq(s, n + 1, Len(s)) \in Seq(S) /\ Len(SubSeq(s, n + 1, Len(s))) = Len(s) - n
        /\ \A i \in 1 .. Len(s) - n : SubSeq(s, n + 1, Len(s))[i] = s[n + i]
    <2> DEFINE m == n + 1
    <2>1. m \in Int /\ \A i \in m .. Len(s) : s[i] \in S
      BY <1>1
    <2>2. /\ SubSeq(s, m, Len(s)) \in Seq(S)
          /\ Len(SubSeq(s, m, Len(s))) = IF m <= Len(s) THEN Len(s) - m + 1 ELSE 0
          /\ \A i \in 1 .. Len(s) - m + 1 : SubSeq(s, m, Len(s))[i] = s[m + i - 1]
      <3> HIDE DEF m
      <3> QED
        BY <1>1, <2>1, SubSeqProperties
    <2> QED
      BY <1>1, <2>2
  <1>4. SubSeq(s, 1, n) \o SubSeq(s, n + 1, Len(s)) = s
    <2>1. SubSeq(s, 1, n) \o SubSeq(s, n + 1, Len(s)) = SubSeq(s, 1, Len(s))
      <3>1. 1 \in 1 .. Len(s) + 1 /\ n \in 1 - 1 .. Len(s) /\ Len(s) \in n .. Len(s)
        BY <1>1
      <3> QED
        BY <3>1, ConcatAdjacentSubSeq
    <2> QED
      BY <2>1, SubSeqFull
  <1> QED
    BY <1>2, <1>3, <1>4

(* A function defined by recursion over 0 .. N exists, and is the only one. *)
Recurs(f, zero, step, N) == f[0] = zero /\ \A n \in 1 .. N : f[n] = step[<<n, f[n - 1]>>]

LEMMA Recursion ==
    ASSUME NEW S, NEW zero \in S[0], NEW step, NEW N \in Nat,
           \A n \in 1 .. N : \A x \in S[n - 1] : step[<<n, x>>] \in S[n]
    PROVE  \E f : /\ Recurs(f, zero, step, N) /\ \A n \in 0 .. N : f[n] \in S[n]
                  /\ f = [n \in 0 .. N |-> f[n]]
  <1> DEFINE Good(f, m) == /\ Recurs(f, zero, step, m) /\ \A n \in 0 .. m : f[n] \in S[n]
                           /\ f = [n \in 0 .. m |-> f[n]]
             P(m) == m <= N => \E f : Good(f, m)
             T == {m \in Nat : P(m)}
  <1>1. P(0)
    <2> DEFINE f == [n \in 0 .. 0 |-> zero]
    <2>1. \A n \in 0 .. 0 : n = 0 /\ f[n] = zero
      OBVIOUS
    <2>2. Good(f, 0)
      <3>1. 0 \in 0 .. 0 /\ 1 .. 0 = {}
        OBVIOUS
      <3> QED
        BY <2>1, <3>1 DEF Recurs
    <2> QED
      BY <2>2
  <1>2. ASSUME NEW m \in Nat, P(m) PROVE P(m + 1)
    <2> SUFFICES ASSUME m + 1 <= N
                 PROVE  \E f : Good(f, m + 1)
      OBVIOUS
    <2>1. PICK f : Good(f, m)
      BY <1>2
    <2> DEFINE last == step[<<m + 1, f[m]>>]
               g == [n \in 0 .. m + 1 |-> IF n = m + 1 THEN last ELSE f[n]]
    <2>2. last \in S[m + 1]
      <3>1. m + 1 \in 1 .. N /\ (m + 1) - 1 = m /\ m \in 0 .. m
        OBVIOUS
      <3>2. f[m] \in S[m]
        BY <2>1, <3>1
      <3> QED
        BY <3>1, <3>2
    <2>3. \A n \in 0 .. m + 1 : n = m + 1 \/ n \in 0 .. m
      OBVIOUS
    <2>4. \A n \in 0 .. m + 1 : g[n] \in S[n]
      <3>1. \A n \in 0 .. m : f[n] \in S[n]
        BY <2>1
      <3> HIDE DEF last
      <3> QED
        BY <2>2, <2>3, <3>1
    <2>5. ASSUME NEW n \in 1 .. m + 1 PROVE g[n] = step[<<n, g[n - 1]>>]
      <3>1. n - 1 \in 0 .. m /\ n - 1 \in 0 .. m + 1 /\ n - 1 # m + 1 /\ n \in 0 .. m + 1
        OBVIOUS
      <3>2. g[n - 1] = f[n - 1]
        BY <3>1
      <3>3. CASE n = m + 1
        <4>1. n - 1 = m /\ g[n] = last
          BY <3>1, <3>3
        <4> QED
          BY <3>2, <3>3, <4>1
      <3>4. CASE n # m + 1
        <4>1. n \in 1 .. m /\ g[n] = f[n]
          BY <3>1, <3>4
        <4>2. f[n] = step[<<n, f[n - 1]>>]
          BY <2>1, <4>1 DEF Recurs
        <4> QED
          BY <3>2, <4>1, <4>2
      <3> QED
        BY <3>3, <3>4
    <2>6. g[0] = zero
      BY <2>1 DEF Recurs
    <2>7. g = [n \in 0 .. m + 1 |-> g[n]]
      OBVIOUS
    <2> HIDE DEF g
    <2>8. Good(g, m + 1)
      BY <2>4, <2>5, <2>6, <2>7 DEF Recurs
    <2> QED
      BY <2>8
  <1> HIDE DEF P
  <1>3. 0 \in T /\ \A m \in Nat : m \in T => m + 1 \in T
    BY <1>1, <1>2
  <1>4. \A m \in T : P(m)
    OBVIOUS
  <1> HIDE DEF T
  <1>5. P(N)
    BY <1>3, <1>4, NatSet
  <1> QED
    BY <1>5 DEF P

Follows(g, S, zero, step, N) ==
    g[0] = zero /\ \A n \in 1 .. N : g[n - 1] \in S[n - 1] => g[n] = step[<<n, g[n - 1]>>]

LEMMA RecursionUnique ==
    ASSUME NEW S, NEW zero, NEW step, NEW N \in Nat,
           NEW f, Recurs(f, zero, step, N), \A n \in 0 .. N : f[n] \in S[n],
           NEW g, Follows(g, S, zero, step, N)
    PROVE  \A n \in 0 .. N : g[n] = f[n]
  <1> DEFINE T == {n \in Nat : n <= N => g[n] = f[n]}
  <1>1. 0 \in T
    BY DEF Recurs, Follows
  <1>2. ASSUME NEW n \in Nat, n \in T PROVE n + 1 \in T
    <2> SUFFICES ASSUME n + 1 <= N PROVE g[n + 1] = f[n + 1]
      OBVIOUS
    <2> DEFINE m == n + 1
    <2>1. m \in 1 .. N /\ m - 1 = n /\ n \in 0 .. N /\ g[n] = f[n] /\ f[n] \in S[n]
      BY <1>2
    <2> HIDE DEF m
    <2>2. g[m] = step[<<m, g[m - 1]>>]
      BY <2>1 DEF Follows
    <2>3. f[m] = step[<<m, f[m - 1]>>]
      BY <2>1 DEF Recurs
    <2>4. g[m] = f[m]
      BY <2>1, <2>2, <2>3
    <2> QED
      BY <2>4 DEF m
  <1>3. 0 \in T /\ \A n \in Nat : n \in T => n + 1 \in T
    BY <1>1, <1>2
  <1>4. \A n \in T : n <= N => g[n] = f[n]
    OBVIOUS
  <1> HIDE DEF T
  <1>5. Nat \subseteq T
    BY <1>3, NatSet
  <1> QED
    BY <1>4, <1>5

(* The greatest and the least of some numbers. *)
LEMMA Greatest ==
    ASSUME NEW n \in Nat, NEW K, K \subseteq 0 .. n, K # {}
    PROVE  \E x \in K : \A y \in K : x >= y
  <1> DEFINE R(m) == \A L : L \subseteq 0 .. m /\ L # {} => \E x \in L : \A y \in L : x >= y
             T == {m \in Nat : R(m)}
  <1>1. R(0)
    <2> SUFFICES ASSUME NEW L, L \subseteq 0 .. 0, L # {} PROVE \E x \in L : \A y \in L : x >= y
      OBVIOUS
    <2>1. 0 \in L /\ \A y \in L : 0 >= y
      <3>1. \A y \in 0 .. 0 : y = 0
        OBVIOUS
      <3>2. \A y \in L : y = 0
        BY <3>1
      <3>3. PICK z \in L : z = 0
        BY <3>2
      <3>4. \A y \in L : 0 >= y
        <4>1. 0 >= 0
          OBVIOUS
        <4> QED
          BY <3>2, <4>1
      <3> QED
        BY <3>3, <3>4
    <2> QED
      BY <2>1
  <1>2. ASSUME NEW m \in Nat, R(m) PROVE R(m + 1)
    <2> SUFFICES ASSUME NEW L, L \subseteq 0 .. m + 1, L # {} PROVE \E x \in L : \A y \in L : x >= y
      OBVIOUS
    <2>1. CASE m + 1 \in L
      <3>1. \A y \in L : m + 1 >= y
        OBVIOUS
      <3> QED
        BY <2>1, <3>1
    <2>2. CASE m + 1 \notin L
      <3>1. \A y \in L : y \in 0 .. m
        BY <2>2
      <3>2. L \subseteq 0 .. m
        BY <3>1
      <3> QED
        BY <1>2, <3>2
    <2> QED
      BY <2>1, <2>2
  <1> HIDE DEF R
  <1>3. 0 \in T /\ \A m \in Nat : m \in T => m + 1 \in T
    BY <1>1, <1>2
  <1>4. \A m \in T : R(m)
    OBVIOUS
  <1> HIDE DEF T
  <1>5. Nat \subseteq T
    BY <1>3, NatSet
  <1> QED
    BY <1>4, <1>5 DEF R

LEMMA LeastOne ==
    ASSUME NEW K, K \subseteq Nat, K # {}
    PROVE  \E x \in K : \A y \in K : x <= y
  <1>1. PICK x \in K : \A y \in K : ~ (<<y, x>> \in OpToRel(<, Nat))
    BY NatLessThanWellFounded, WFMin
  <1>2. \A y \in K : ~ (y < x)
    BY <1>1 DEF OpToRel
  <1> QED
    BY <1>2

=============================================================================
