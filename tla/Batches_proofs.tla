---------------------------- MODULE Batches_proofs ----------------------------
(***************************************************************************)
(* For any requests, models and sizes of batches: the rows of a task stay  *)
(* its own in the buffers of the plug-ins (InstanceIO), in TensorFlow      *)
(* Lite's tensors (LiteBatch) and in TensorFlow's merged ones (TfBatch).   *)
(***************************************************************************)
EXTENDS Batches, WellFoundedInduction, FiniteSetTheorems, SequenceTheorems, TLAPS

\* The order of the natural numbers, for the library's theorem on least elements.
NatOrder == {ss \in Nat \X Nat : ss[1] < ss[2]}

LEMMA NatOrderIsWellFounded == IsWellFoundedOn(NatOrder, Nat)
  BY NatLessThanWellFounded DEF OpToRel, NatOrder

\* Every nonempty set of natural numbers has a least one.
LEMMA LeastNumber == ASSUME NEW S \in SUBSET Nat, S # {} PROVE \E n \in S : \A m \in S : n <= m
<1>1. PICK n \in S : \A m \in S : ~(<<m, n>> \in NatOrder)
  BY NatOrderIsWellFounded, WFMin
<1>2. \A m \in S : m < n => <<m, n>> \in NatOrder
  BY DEF NatOrder
<1>3. \A m \in S : ~(m < n)
  BY <1>1, <1>2
<1> QED BY <1>3

\* Induction for sets of natural numbers.
LEMMA NatSetInduction ==
  ASSUME NEW S, 0 \in S, \A n \in Nat : n \in S => n + 1 \in S
  PROVE  \A n \in Nat : n \in S
<1> SUFFICES ASSUME Nat \ S # {} PROVE FALSE
  OBVIOUS
<1>1. PICK n \in Nat \ S : \A m \in Nat \ S : n <= m
  BY LeastNumber
<1>2. n # 0 /\ n - 1 \in Nat /\ n - 1 \in S
  BY <1>1
<1> QED BY <1>1, <1>2

\* What is not less than anything else is the greatest.
LEMMA GreatestIs ==
  ASSUME NEW S, S \subseteq Int, NEW m \in S, \A x \in S : x <= m
  PROVE  Max(S) = m
<1>1. \A y \in S : m >= y
  OBVIOUS
<1>2. Max(S) \in S /\ \A y \in S : Max(S) >= y
  BY <1>1 DEF Max
<1>3. Max(S) >= m /\ m >= Max(S) /\ Max(S) \in Int /\ m \in Int
  BY <1>1, <1>2
<1> QED BY <1>3

\* The concatenations of FlattenSeq: the function it chooses exists.
Flattened(s) == CHOOSE f : f = [i \in 1 .. Len(s) |-> IF i = 1 THEN s[i] ELSE f[i - 1] \o s[i]]

LEMMA FlattenedIs ==
  ASSUME NEW s, NEW n \in Nat, n = Len(s)
  PROVE  Flattened(s) = [i \in 1 .. n |-> IF i = 1 THEN s[i] ELSE Flattened(s)[i - 1] \o s[i]]
<1> DEFINE T == {m \in Nat : \E f : f = [i \in 1 .. m |-> IF i = 1 THEN s[i] ELSE f[i - 1] \o s[i]]}
<1>1. 0 \in T
  <2>1. PICK f : f = [i \in 1 .. 0 |-> s[i]]
    OBVIOUS
  <2>2. f = [i \in 1 .. 0 |-> IF i = 1 THEN s[i] ELSE f[i - 1] \o s[i]]
    BY <2>1
  <2> QED BY <2>2
<1>2. ASSUME NEW m \in Nat, m \in T PROVE m + 1 \in T
  <2>1. PICK g : g = [i \in 1 .. m |-> IF i = 1 THEN s[i] ELSE g[i - 1] \o s[i]]
    BY <1>2
  <2>2. PICK f : f = [i \in 1 .. m + 1 |-> IF i = 1 THEN s[i] ELSE g[i - 1] \o s[i]]
    OBVIOUS
  <2>3. \A i \in 1 .. m : g[i] = IF i = 1 THEN s[i] ELSE g[i - 1] \o s[i]
    BY <2>1
  <2>4. \A i \in 1 .. m + 1 : f[i] = IF i = 1 THEN s[i] ELSE g[i - 1] \o s[i]
    BY <2>2
  <2>5. \A i \in 1 .. m : f[i] = g[i]
    BY <2>3, <2>4
  <2>6. ASSUME NEW i \in 1 .. m + 1, i # 1 PROVE g[i - 1] = f[i - 1]
    <3>1. i - 1 \in 1 .. m
      BY <2>6
    <3> QED BY <2>5, <3>1
  <2>7. f = [i \in 1 .. m + 1 |-> IF i = 1 THEN s[i] ELSE f[i - 1] \o s[i]]
    BY <2>2, <2>6
  <2>8. \E h : h = [i \in 1 .. m + 1 |-> IF i = 1 THEN s[i] ELSE h[i - 1] \o s[i]]
    BY <2>7
  <2>9. m + 1 \in Nat
    OBVIOUS
  <2> QED BY <2>8, <2>9, Zenon
<1>3. n \in T
  BY <1>1, <1>2, NatSetInduction
<1> QED BY <1>3 DEF Flattened

\* Concatenating sequences of a set gives one.
LEMMA FlattenIsSeq == ASSUME NEW S, NEW s \in Seq(Seq(S)) PROVE FlattenSeq(s) \in Seq(S)
<1>1. PICK n \in Nat : n = Len(s)
  OBVIOUS
<1>2. CASE n = 0
  <2>1. s = <<>> /\ Len(s) = 0 /\ <<>> \in Seq(S)
    BY <1>1, <1>2, EmptySeq
  <2>2. FlattenSeq(s) = s
    BY <2>1, Zenon DEF FlattenSeq
  <2> QED BY <2>1, <2>2
<1>3. CASE n # 0
  <2>1. PICK f : f = Flattened(s)
    OBVIOUS
  <2>2. FlattenSeq(s) = f[n]
    BY <1>1, <1>3, <2>1, Zenon DEF FlattenSeq, Flattened
  <2>3. \A i \in 1 .. n : f[i] = IF i = 1 THEN s[i] ELSE f[i - 1] \o s[i]
    <3>1. f = [i \in 1 .. n |-> IF i = 1 THEN s[i] ELSE f[i - 1] \o s[i]]
      <4>1. n = Len(s) /\ n \in Nat
        BY <1>1
      <4>2. Flattened(s) = [i \in 1 .. n |-> IF i = 1 THEN s[i] ELSE Flattened(s)[i - 1] \o s[i]]
        BY <4>1, FlattenedIs, Zenon
      <4> QED BY <2>1, <4>2, Zenon
    <3> QED BY <3>1
  <2> DEFINE T == {m \in Nat : m + 1 <= n => f[m + 1] \in Seq(S)}
  <2>4. 0 \in T
    <3>1. 0 + 1 = 1 /\ 1 \in 1 .. n
      BY <1>3
    <3>2. f[1] = s[1]
      BY <2>3, <3>1
    <3> QED BY <1>1, <3>1, <3>2
  <2>5. ASSUME NEW m \in Nat, m \in T PROVE m + 1 \in T
    <3> SUFFICES ASSUME (m + 1) + 1 <= n PROVE f[(m + 1) + 1] \in Seq(S)
      OBVIOUS
    <3>1. m + 1 <= n /\ m + 2 \in 1 .. n /\ m + 2 # 1 /\ (m + 2) - 1 = m + 1 /\ (m + 1) + 1 = m + 2
      OBVIOUS
    <3>2. PICK a \in Seq(S) : a = f[m + 1]
      BY <2>5, <3>1
    <3>3. PICK b \in Seq(S) : b = s[m + 2]
      BY <1>1, <3>1
    <3>4. f[m + 2] = a \o b
      BY <2>3, <3>1, <3>2, <3>3
    <3>5. a \o b \in Seq(S)
      OBVIOUS
    <3> QED BY <3>1, <3>4, <3>5
  <2>6. n - 1 \in T
    <3>1. n - 1 \in Nat
      BY <1>3
    <3> QED BY <2>4, <2>5, <3>1, NatSetInduction
  <2>7. (n - 1) + 1 = n
    OBVIOUS
  <2> QED BY <2>2, <2>6, <2>7
<1> QED BY <1>2, <1>3
-----------------------------------------------------------------------------
(***************************************************************************)
(* Batches.  The rows of a task are somewhere in what the engine is given: *)
(* behind those of the tasks before it.  First what the folds of the three *)
(* modules are: each is a function that exists, and goes from one task of  *)
(* the batch to the next.                                                  *)
(***************************************************************************)
\* A fold over 1 .. n whose steps are those of a function g: it exists.
Folded(f, n, base, g) ==
  f = [X \in SUBSET (1 .. n) |-> IF X = {} THEN base ELSE g[<<f[X \ {Max(X)}], Max(X)>>]]

LEMMA FoldExists ==
  ASSUME NEW n \in Nat, NEW D, NEW base \in D, NEW g \in [D \X (1 .. n) -> D]
  PROVE  \E f \in [SUBSET (1 .. n) -> D] : Folded(f, n, base, g)
<1> DEFINE F(f, X) == IF X = {} THEN base ELSE g[<<f[X \ {Max(X)}], Max(X)>>]
           T == {i \in Nat : i <= n => \E f \in [SUBSET (1 .. i) -> D] : f = [X \in SUBSET (1 .. i) |-> F(f, X)]}
<1>1. 0 \in T
  <2>1. PICK f : f = [X \in SUBSET (1 .. 0) |-> base]
    OBVIOUS
  <2>2. \A X \in SUBSET (1 .. 0) : X = {}
    OBVIOUS
  <2>3. f = [X \in SUBSET (1 .. 0) |-> F(f, X)]
    BY <2>1, <2>2
  <2> HIDE DEF F
  <2> QED BY <2>1, <2>3
<1>2. ASSUME NEW i \in Nat, i \in T PROVE i + 1 \in T
  <2> SUFFICES ASSUME i + 1 <= n
               PROVE \E f \in [SUBSET (1 .. i + 1) -> D] : f = [X \in SUBSET (1 .. i + 1) |-> F(f, X)]
    <3> HIDE DEF F
    <3>1. i + 1 \in Nat
      OBVIOUS
    <3> QED BY <3>1, Zenon
  <2>1. PICK f \in [SUBSET (1 .. i) -> D] : f = [X \in SUBSET (1 .. i) |-> F(f, X)]
    <3> HIDE DEF F
    <3>1. i <= n
      OBVIOUS
    <3> QED BY <1>2, <3>1, Zenon
  <2>2. PICK h : h = [X \in SUBSET (1 .. i + 1) |-> IF i + 1 \in X THEN g[<<f[X \ {i + 1}], i + 1>>] ELSE f[X]]
    OBVIOUS
  <2>3. \A X \in SUBSET (1 .. i) : h[X] = f[X] /\ f[X] = F(f, X)
    <3>1. \A X \in SUBSET (1 .. i) : X \in SUBSET (1 .. i + 1) /\ i + 1 \notin X
      OBVIOUS
    <3>2. \A X \in SUBSET (1 .. i) : h[X] = f[X]
      BY <2>2, <3>1
    <3> HIDE DEF F
    <3>3. \A X \in SUBSET (1 .. i) : f[X] = F(f, X)
      BY <2>1
    <3> QED BY <3>2, <3>3
  <2>4. ASSUME NEW X \in SUBSET (1 .. i + 1) PROVE h[X] = F(h, X) /\ h[X] \in D
    <3>1. CASE i + 1 \in X
      <4>1. Max(X) = i + 1
        <5>1. \A x \in X : x <= i + 1
          OBVIOUS
        <5>2. X \subseteq Int
          OBVIOUS
        <5> QED BY <3>1, <5>1, <5>2, GreatestIs
      <4>2. X \ {i + 1} \in SUBSET (1 .. i)
        OBVIOUS
      <4>3. h[X] = g[<<f[X \ {i + 1}], i + 1>>]
        BY <2>2, <3>1
      <4>4. h[X \ {i + 1}] = f[X \ {i + 1}] /\ f[X \ {i + 1}] \in D
        BY <2>3, <4>2
      <4>5. i + 1 \in 1 .. n
        OBVIOUS
      <4>6. g[<<f[X \ {i + 1}], i + 1>>] \in D
        BY <4>4, <4>5
      <4> QED BY <3>1, <4>1, <4>3, <4>4, <4>6
    <3>2. CASE i + 1 \notin X
      <4>0. \A x \in X : x \in 1 .. i
        <5>1. \A x \in X : x \in 1 .. i + 1 /\ x # i + 1
          BY <3>2
        <5>2. \A x \in 1 .. i + 1 : x # i + 1 => x \in 1 .. i
          OBVIOUS
        <5> QED BY <5>1, <5>2
      <4>1. X \in SUBSET (1 .. i) /\ X \ {Max(X)} \in SUBSET (1 .. i)
        BY <4>0
      <4>2. h[X] = f[X] /\ f[X] = F(f, X) /\ h[X \ {Max(X)}] = f[X \ {Max(X)}]
        BY <2>3, <4>1
      <4>3. h[X] \in D
        BY <4>1, <4>2
      <4> QED BY <4>2, <4>3
    <3> QED BY <3>1, <3>2
  <2>5. h = [X \in SUBSET (1 .. i + 1) |-> F(h, X)] /\ h \in [SUBSET (1 .. i + 1) -> D]
    <3> HIDE DEF F
    <3> QED BY <2>2, <2>4
  <2> HIDE DEF F
  <2> QED BY <2>5
<1>3. n \in T
  <2> HIDE DEF F
  <2> QED BY <1>1, <1>2, NatSetInduction
<1>4. n <= n
  OBVIOUS
<1> QED BY <1>3, <1>4, Zenon DEF Folded

\* The greatest of the first k + 1 numbers is k + 1.
LEMMA UpTo ==
  ASSUME NEW k \in Nat
  PROVE  /\ Max(1 .. k + 1) = k + 1 /\ (1 .. k + 1) \ {k + 1} = 1 .. k /\ 1 .. k + 1 # {}
         /\ 1 .. 0 = {}
<1>1. k + 1 \in 1 .. k + 1 /\ 1 .. k + 1 \subseteq Int /\ \A x \in 1 .. k + 1 : x <= k + 1
  OBVIOUS
<1>2. Max(1 .. k + 1) = k + 1
  BY <1>1, GreatestIs
<1> QED BY <1>1, <1>2

\* A fold of a sequence goes from one element to the next.
Stepwise(f, n, D, base, g) ==
  /\ f[1 .. 0] = base
  /\ \A k \in 0 .. n - 1 : f[1 .. k] \in D /\ f[1 .. k + 1] = g[<<f[1 .. k], k + 1>>]
  /\ f[1 .. n] \in D

LEMMA FoldSteps ==
  ASSUME NEW n \in Nat, NEW D, NEW base \in D, NEW g, g \in [D \X (1 .. n) -> D],
         NEW f, Folded(f, n, base, g)
  PROVE  Stepwise(f, n, D, base, g)
<1>0. ASSUME NEW X \in SUBSET (1 .. n) PROVE f[X] = IF X = {} THEN base ELSE g[<<f[X \ {Max(X)}], Max(X)>>]
  BY Zenon DEF Folded
<1>1. f[1 .. 0] = base
  <2>1. 1 .. 0 = {} /\ {} \in SUBSET (1 .. n)
    BY UpTo
  <2> QED BY <1>0, <2>1, Zenon
<1>2. ASSUME NEW k \in 0 .. n - 1 PROVE f[1 .. k + 1] = g[<<f[1 .. k], k + 1>>]
  <2>1. PICK S : S = 1 .. k + 1
    OBVIOUS
  <2>2. k \in Nat /\ k + 1 <= n
    OBVIOUS
  <2>3. \A x \in 1 .. k + 1 : x \in 1 .. n
    BY <2>2
  <2>4. S \in SUBSET (1 .. n)
    BY <2>1, <2>3
  <2>5. Max(S) = k + 1 /\ S \ {k + 1} = 1 .. k /\ S # {}
    BY <2>1, <2>2, UpTo
  <2>6. f[S] = IF S = {} THEN base ELSE g[<<f[S \ {Max(S)}], Max(S)>>]
    BY <1>0, <2>4, Zenon
  <2> QED BY <2>1, <2>5, <2>6
<1>3. ASSUME NEW k \in 0 .. n - 1, f[1 .. k] \in D PROVE f[1 .. k + 1] \in D
  <2>1. k + 1 \in 1 .. n
    OBVIOUS
  <2>2. g[<<f[1 .. k], k + 1>>] \in D
    BY <1>3, <2>1
  <2> QED BY <1>2, <2>2
<1> DEFINE T == {k \in Nat : k <= n => f[1 .. k] \in D}
<1>4. 0 \in T
  BY <1>1
<1>5. ASSUME NEW k \in Nat, k \in T PROVE k + 1 \in T
  <2> SUFFICES ASSUME k + 1 <= n PROVE f[1 .. k + 1] \in D
    <3>1. k + 1 \in Nat
      OBVIOUS
    <3> QED BY <3>1, Zenon
  <2>1. k \in 0 .. n - 1 /\ k <= n
    OBVIOUS
  <2>2. f[1 .. k] \in D
    BY <1>5, <2>1, Zenon
  <2> QED BY <1>3, <2>1, <2>2
<1>6. ASSUME NEW k \in 0 .. n PROVE f[1 .. k] \in D
  <2>1. k \in Nat /\ k <= n
    OBVIOUS
  <2>2. k \in T
    <3> HIDE DEF T
    <3> QED BY <1>4, <1>5, <2>1, NatSetInduction
  <2> QED BY <2>1, <2>2, Zenon
<1>7. n \in 0 .. n /\ \A k \in 0 .. n - 1 : k \in 0 .. n
  OBVIOUS
<1> QED BY <1>1, <1>2, <1>6, <1>7 DEF Stepwise

\* A set of some of the numbers 1 .. n has a greatest one.
LEMMA GreatestIn ==
  ASSUME NEW n \in Nat, NEW X \in SUBSET (1 .. n), X # {}
  PROVE  Max(X) \in X /\ Max(X) \in 1 .. n
<1> DEFINE T == {k \in Nat : \A Y \in SUBSET (1 .. k) : Y = {} \/ \E m \in Y : \A y \in Y : y <= m}
<1>1. 0 \in T
  BY UpTo
<1>2. ASSUME NEW k \in Nat, k \in T PROVE k + 1 \in T
  <2> SUFFICES ASSUME NEW Y \in SUBSET (1 .. k + 1), Y # {} PROVE \E m \in Y : \A y \in Y : y <= m
    OBVIOUS
  <2>1. CASE k + 1 \in Y
    BY <2>1
  <2>2. CASE k + 1 \notin Y
    <3>1. \A y \in Y : y \in 1 .. k + 1 /\ y # k + 1
      BY <2>2
    <3>2. \A y \in 1 .. k + 1 : y # k + 1 => y \in 1 .. k
      OBVIOUS
    <3>3. \A y \in Y : y \in 1 .. k
      BY <3>1, <3>2
    <3> QED BY <1>2, <3>3
  <2> QED BY <2>1, <2>2
<1>3. n \in T
  <2> HIDE DEF T
  <2> QED BY <1>1, <1>2, NatSetInduction
<1>4. PICK m \in X : \A x \in X : x <= m
  BY <1>3
<1>5. X \subseteq Int
  OBVIOUS
<1>6. Max(X) = m
  BY <1>4, <1>5, GreatestIs
<1> QED BY <1>6

\* The rows of the elements of S in a batch q, as MapThenSumSet adds them.
Picked(S) == CHOOSE x \in S : TRUE
SumOver(q, S) == CHOOSE iter : iter = [s \in SUBSET S |->
                   IF s = {} THEN 0 ELSE q[Picked(s)].rows + iter[s \ {Picked(s)}]]
\* The rows of the first k elements.
RowsTo(q, k) == SumOver(q, 1 .. k)[1 .. k]

\* The elements of a batch have so many rows.
HaveRows(q, n) == \A i \in 1 .. n : q[i].rows \in Nat

\* Sums from the greatest element down, and from any.
FromGreatest(f, q, n) == \A X \in SUBSET (1 .. n) : X # {} => f[X] = f[X \ {Max(X)}] + q[Max(X)].rows
InAnyOrder(f, q, n) == \A X \in SUBSET (1 .. n) : \A x \in X : f[X] = q[x].rows + f[X \ {x}]

\* In whatever order they are taken, the rows come to the same sum.
LEMMA AnyOrder ==
  ASSUME NEW q, NEW n \in Nat, HaveRows(q, n),
         NEW f \in [SUBSET (1 .. n) -> Nat], FromGreatest(f, q, n)
  PROVE  InAnyOrder(f, q, n)
<1>0. \A X \in SUBSET (1 .. n) : X # {} => f[X] = f[X \ {Max(X)}] + q[Max(X)].rows
  BY DEF FromGreatest
<1> DEFINE T == {m \in Nat : m <= n => \A X \in SUBSET (1 .. m) : \A x \in X : f[X] = q[x].rows + f[X \ {x}]}
<1>1. 0 \in T
  <2>1. 1 .. 0 = {}
    BY UpTo
  <2>2. \A X \in SUBSET (1 .. 0) : \A x \in X : FALSE
    BY <2>1
  <2> QED BY <2>2
<1>2. ASSUME NEW m \in Nat, m \in T PROVE m + 1 \in T
  <2> SUFFICES ASSUME m + 1 <= n, NEW X \in SUBSET (1 .. m + 1), NEW x \in X PROVE f[X] = q[x].rows + f[X \ {x}]
    <3>1. m + 1 \in Nat
      OBVIOUS
    <3> QED BY <3>1, Zenon
  <2>1. m <= n
    OBVIOUS
  <2>2. \A Y \in SUBSET (1 .. m) : \A y \in Y : f[Y] = q[y].rows + f[Y \ {y}]
    BY <1>2, <2>1, Zenon
  <2>3. \A y \in 1 .. m + 1 : y \in 1 .. n /\ (y # m + 1 => y \in 1 .. m)
    BY <2>1
  <2>4. X \in SUBSET (1 .. n) /\ \A Y \in SUBSET X : Y \in SUBSET (1 .. n)
    BY <2>3
  <2>5. CASE m + 1 \notin X
    <3>1. \A y \in X : y \in 1 .. m
      BY <2>3, <2>5
    <3> QED BY <2>2, <3>1
  <2>6. CASE m + 1 \in X
    <3>1. Max(X) = m + 1
      <4>1. X \subseteq Int /\ \A y \in X : y <= m + 1
        OBVIOUS
      <4> QED BY <2>6, <4>1, GreatestIs
    <3>2. f[X] = f[X \ {m + 1}] + q[m + 1].rows /\ q[m + 1].rows \in Nat /\ f[X \ {m + 1}] \in Nat
      <4>1. f[X] = f[X \ {m + 1}] + q[m + 1].rows
        BY <1>0, <2>4, <2>6, <3>1
      <4>2. X \ {m + 1} \in SUBSET (1 .. n) /\ m + 1 \in 1 .. n
        BY <2>4, <2>6
      <4> QED BY <4>1, <4>2 DEF HaveRows
    <3>3. CASE x = m + 1
      BY <3>2, <3>3
    <3>4. CASE x # m + 1
      <4>1. PICK Y : Y = X \ {x}
        OBVIOUS
      <4>2. Y \in SUBSET (1 .. n) /\ m + 1 \in Y /\ Y \subseteq Int /\ \A y \in Y : y <= m + 1
        BY <2>4, <2>6, <3>4, <4>1
      <4>3. Max(Y) = m + 1
        BY <4>2, GreatestIs
      <4>4. f[Y] = f[Y \ {m + 1}] + q[m + 1].rows
        BY <1>0, <4>2, <4>3
      <4>5. PICK Z : Z = X \ {m + 1}
        OBVIOUS
      <4>6. x \in Z /\ Z \in SUBSET (1 .. m)
        BY <2>3, <3>4, <4>5
      <4>7. f[Z] = q[x].rows + f[Z \ {x}]
        BY <2>2, <4>6
      <4>8. Z \ {x} = Y \ {m + 1}
        BY <4>1, <4>5
      <4>9. f[Y \ {m + 1}] \in Nat /\ q[x].rows \in Nat
        <5>1. Y \ {m + 1} \in SUBSET (1 .. n) /\ x \in 1 .. n
          BY <2>3, <4>2
        <5> QED BY <5>1 DEF HaveRows
      <4>10. PICK a \in Nat, b \in Nat, c \in Nat : a = q[x].rows /\ b = q[m + 1].rows /\ c = f[Y \ {m + 1}]
        BY <3>2, <4>9
      <4>11. f[X] = f[Z] + b /\ f[Z] = a + c /\ f[Y] = c + b
        BY <3>2, <4>4, <4>5, <4>7, <4>8, <4>10
      <4> QED BY <4>1, <4>10, <4>11
    <3> QED BY <3>3, <3>4
  <2> QED BY <2>5, <2>6
<1>3. n \in T /\ n <= n
  <2>1. n \in T
    <3> HIDE DEF T
    <3> QED BY <1>1, <1>2, NatSetInduction
  <2> QED BY <2>1, SMTT(30)
<1> QED BY <1>3, Zenon DEF InAnyOrder

\* The sum, unfolded from its greatest element: the function it chooses exists,
\* and its values are those of the fold from the first element to the last.
LEMMA SumSteps ==
  ASSUME NEW q, NEW n \in Nat, HaveRows(q, n), NEW W, W = SumOver(q, 1 .. n)
  PROVE  /\ W[1 .. 0] = 0
         /\ \A k \in 0 .. n - 1 : W[1 .. k] \in Nat /\ W[1 .. k + 1] = W[1 .. k] + q[k + 1].rows
         /\ W[1 .. n] \in Nat
<1> DEFINE g == [p \in Nat \X (1 .. n) |-> p[1] + q[p[2]].rows]
<1>1. g \in [Nat \X (1 .. n) -> Nat]
  BY DEF HaveRows
<1>2. PICK f \in [SUBSET (1 .. n) -> Nat] : Folded(f, n, 0, g)
  <2> HIDE DEF g
  <2> QED BY <1>1, FoldExists
<1>3. \A k \in 1 .. n : \A d \in Nat : g[<<d, k>>] = d + q[k].rows
  OBVIOUS
<1>4. f[1 .. 0] = 0 /\ f[1 .. n] \in Nat
      /\ \A k \in 0 .. n - 1 : f[1 .. k] \in Nat /\ f[1 .. k + 1] = g[<<f[1 .. k], k + 1>>]
  <2> HIDE DEF g
  <2>1. 0 \in Nat
    OBVIOUS
  <2>2. Stepwise(f, n, Nat, 0, g)
    BY <1>1, <1>2, <2>1, FoldSteps
  <2> QED BY <2>2 DEF Stepwise
<1>5. ASSUME NEW X \in SUBSET (1 .. n), X # {} PROVE f[X] = f[X \ {Max(X)}] + q[Max(X)].rows
  <2>1. f[X] = IF X = {} THEN 0 ELSE g[<<f[X \ {Max(X)}], Max(X)>>]
    <3> HIDE DEF g
    <3> QED BY <1>2, Zenon DEF Folded
  <2>2. Max(X) \in 1 .. n
    BY <1>5, GreatestIn
  <2>3. f[X \ {Max(X)}] \in Nat
    OBVIOUS
  <2> HIDE DEF g
  <2> QED BY <1>3, <1>5, <2>1, <2>2, <2>3
<1>6. \A X \in SUBSET (1 .. n) : \A x \in X : f[X] = q[x].rows + f[X \ {x}]
  <2>1. FromGreatest(f, q, n)
    BY <1>5 DEF FromGreatest
  <2>2. InAnyOrder(f, q, n)
    BY <2>1, AnyOrder
  <2> QED BY <2>2 DEF InAnyOrder
<1>7. f[{}] = 0
  <2>1. 1 .. 0 = {}
    BY UpTo
  <2> QED BY <1>4, <2>1
<1>8. f = [s \in SUBSET (1 .. n) |-> IF s = {} THEN 0 ELSE q[Picked(s)].rows + f[s \ {Picked(s)}]]
  <2>1. ASSUME NEW s \in SUBSET (1 .. n) PROVE f[s] = IF s = {} THEN 0 ELSE q[Picked(s)].rows + f[s \ {Picked(s)}]
    <3>1. s # {} => Picked(s) \in s
      BY DEF Picked
    <3> QED BY <1>6, <1>7, <3>1
  <2> HIDE DEF g
  <2> QED BY <2>1
<1>9. W = [s \in SUBSET (1 .. n) |-> IF s = {} THEN 0 ELSE q[Picked(s)].rows + W[s \ {Picked(s)}]]
  BY <1>8, Zenon DEF SumOver
<1>10. \A X \in SUBSET (1 .. n) : W[X] = f[X]
  <2> DEFINE T == {c \in Nat : \A X \in SUBSET (1 .. n) : Cardinality(X) <= c => W[X] = f[X]}
  <2>1. \A X \in SUBSET (1 .. n) : IsFiniteSet(X) /\ Cardinality(X) \in Nat
    <3>1. IsFiniteSet(1 .. n)
      BY FS_Interval
    <3> QED BY <3>1, FS_Subset, FS_CardinalityType
  <2>2. W[{}] = f[{}]
    <3>1. {} \in SUBSET (1 .. n)
      OBVIOUS
    <3>2. W[{}] = 0
      <4> HIDE DEF g
      <4> QED BY <1>9, <3>1
    <3> QED BY <1>7, <3>2
  <2>3. 0 \in T
    <3>1. \A X \in SUBSET (1 .. n) : Cardinality(X) <= 0 => X = {}
      <4> SUFFICES ASSUME NEW X \in SUBSET (1 .. n), Cardinality(X) <= 0 PROVE X = {}
        OBVIOUS
      <4>1. IsFiniteSet(X) /\ Cardinality(X) \in Nat
        BY <2>1
      <4>2. Cardinality(X) = 0
        BY <4>1
      <4> QED BY <4>1, <4>2, FS_EmptySet
    <3> QED BY <2>2, <3>1
  <2>4. ASSUME NEW c \in Nat, c \in T PROVE c + 1 \in T
    <3> SUFFICES ASSUME NEW X \in SUBSET (1 .. n), Cardinality(X) <= c + 1 PROVE W[X] = f[X]
      <4>1. c + 1 \in Nat
        OBVIOUS
      <4> QED BY <4>1, Zenon
    <3>1. CASE X = {}
      BY <2>2, <3>1
    <3>2. CASE X # {}
      <4>1. PICK x \in X : x = Picked(X)
        BY <3>2 DEF Picked
      <4>2. PICK Y : Y = X \ {x}
        OBVIOUS
      <4>3. Y \in SUBSET (1 .. n) /\ Cardinality(Y) <= c
        <5>1. Cardinality(Y) = Cardinality(X) - 1
          BY <2>1, <4>1, <4>2, FS_RemoveElement
        <5>2. Cardinality(X) \in Nat
          BY <2>1
        <5> QED BY <4>2, <5>1, <5>2
      <4>4. W[Y] = f[Y]
        BY <2>4, <4>3, Zenon
      <4>5. W[X] = q[x].rows + W[Y]
        <5>1. W[X] = IF X = {} THEN 0 ELSE q[Picked(X)].rows + W[X \ {Picked(X)}]
          <6> HIDE DEF g
          <6> QED BY <1>9
        <5> QED BY <3>2, <4>1, <4>2, <5>1
      <4>6. f[X] = q[x].rows + f[Y]
        BY <1>6, <4>1, <4>2
      <4> QED BY <4>4, <4>5, <4>6
    <3> QED BY <3>1, <3>2
  <2>5. ASSUME NEW X \in SUBSET (1 .. n) PROVE W[X] = f[X]
    <3>1. PICK c \in Nat : c = Cardinality(X)
      BY <2>1
    <3>2. c \in T
      <4> HIDE DEF T
      <4> QED BY <2>3, <2>4, NatSetInduction
    <3>3. Cardinality(X) <= c
      BY <3>1
    <3> QED BY <3>2, <3>3, Zenon
  <2> QED BY <2>5
<1>11. \A k \in 0 .. n : 1 .. k \in SUBSET (1 .. n)
  OBVIOUS
<1>12. \A k \in 0 .. n : W[1 .. k] = f[1 .. k]
  BY <1>10, <1>11
<1>13. 0 \in 0 .. n /\ n \in 0 .. n /\ \A k \in 0 .. n - 1 : k \in 0 .. n /\ k + 1 \in 0 .. n /\ k + 1 \in 1 .. n
  OBVIOUS
<1> HIDE DEF g
<1> QED BY <1>3, <1>4, <1>12, <1>13

\* Batches that agree on their first k elements have as many rows in them.
LEMMA SumsAgree ==
  ASSUME NEW q, NEW p, NEW n \in Nat, NEW l \in Nat, HaveRows(q, n), HaveRows(p, l),
         NEW k \in Nat, k <= n, k <= l, \A i \in 1 .. k : q[i].rows = p[i].rows
  PROVE  SumOver(q, 1 .. n)[1 .. k] = SumOver(p, 1 .. l)[1 .. k]
<1>1. PICK V : V = SumOver(q, 1 .. n)
  OBVIOUS
<1>2. PICK W : W = SumOver(p, 1 .. l)
  OBVIOUS
<1>3. V[1 .. 0] = 0 /\ \A j \in 0 .. n - 1 : V[1 .. j] \in Nat /\ V[1 .. j + 1] = V[1 .. j] + q[j + 1].rows
  BY <1>1, SumSteps
<1>4. W[1 .. 0] = 0 /\ \A j \in 0 .. l - 1 : W[1 .. j] \in Nat /\ W[1 .. j + 1] = W[1 .. j] + p[j + 1].rows
  BY <1>2, SumSteps
<1> DEFINE T == {j \in Nat : j <= k => V[1 .. j] = W[1 .. j]}
<1>5. 0 \in T
  BY <1>3, <1>4
<1>6. ASSUME NEW j \in Nat, j \in T PROVE j + 1 \in T
  <2> SUFFICES ASSUME j + 1 <= k PROVE V[1 .. j + 1] = W[1 .. j + 1]
    <3>1. j + 1 \in Nat
      OBVIOUS
    <3> QED BY <3>1, Zenon
  <2>1. j \in 0 .. n - 1 /\ j \in 0 .. l - 1 /\ j <= k /\ j + 1 \in 1 .. k
    OBVIOUS
  <2>2. V[1 .. j] = W[1 .. j]
    BY <1>6, <2>1, Zenon
  <2>3. q[j + 1].rows = p[j + 1].rows
    BY <2>1
  <2> QED BY <1>3, <1>4, <2>1, <2>2, <2>3
<1>7. k \in T /\ k <= k
  <2>1. k \in T
    <3> HIDE DEF T
    <3> QED BY <1>5, <1>6, NatSetInduction
  <2> QED BY <2>1
<1> QED BY <1>1, <1>2, <1>7, Zenon

\* The rows up to one element and to the next.
LEMMA RowsToIs ==
  ASSUME NEW q, NEW n \in Nat, HaveRows(q, n)
  PROVE  /\ RowsTo(q, 0) = 0
         /\ \A k \in 0 .. n : RowsTo(q, k) \in Nat /\ RowsTo(q, k) <= RowsTo(q, n)
         /\ \A k \in 1 .. n : RowsTo(q, k) = RowsTo(q, k - 1) + q[k].rows
<1>1. PICK W : W = SumOver(q, 1 .. n)
  OBVIOUS
<1>2. ASSUME NEW k \in 0 .. n PROVE RowsTo(q, k) = W[1 .. k]
  <2>1. k \in Nat /\ k <= n /\ k <= k
    OBVIOUS
  <2>2. \A i \in 1 .. k : i \in 1 .. n
    BY <2>1
  <2>3. HaveRows(q, k)
    BY <2>2 DEF HaveRows
  <2>4. SumOver(q, 1 .. k)[1 .. k] = SumOver(q, 1 .. n)[1 .. k]
    BY <2>1, <2>3, SumsAgree
  <2> QED BY <1>1, <2>4 DEF RowsTo
<1>3. W[1 .. 0] = 0 /\ W[1 .. n] \in Nat
      /\ \A k \in 0 .. n - 1 : W[1 .. k] \in Nat /\ W[1 .. k + 1] = W[1 .. k] + q[k + 1].rows
  BY <1>1, SumSteps
<1>4. ASSUME NEW k \in 1 .. n PROVE RowsTo(q, k) = RowsTo(q, k - 1) + q[k].rows
  <2>1. k - 1 \in 0 .. n - 1 /\ k - 1 \in 0 .. n /\ k \in 0 .. n /\ (k - 1) + 1 = k
    OBVIOUS
  <2> QED BY <1>2, <1>3, <2>1
<1>5. ASSUME NEW k \in 0 .. n PROVE RowsTo(q, k) \in Nat
  <2>1. k \in 0 .. n - 1 \/ k = n
    OBVIOUS
  <2> QED BY <1>2, <1>3, <2>1
<1>6. \A k \in 0 .. n : RowsTo(q, k) <= RowsTo(q, n)
  <2> DEFINE T == {j \in Nat : j <= n => RowsTo(q, n - j) <= RowsTo(q, n)}
  <2>1. 0 \in T
    <3>1. n - 0 = n /\ n \in 0 .. n
      OBVIOUS
    <3>2. RowsTo(q, n) \in Nat
      BY <1>5, <3>1
    <3> QED BY <3>1, <3>2
  <2>2. ASSUME NEW j \in Nat, j \in T PROVE j + 1 \in T
    <3> SUFFICES ASSUME j + 1 <= n PROVE RowsTo(q, n - (j + 1)) <= RowsTo(q, n)
      <4>1. j + 1 \in Nat
        OBVIOUS
      <4> QED BY <4>1, Zenon
    <3>1. j <= n /\ n - j \in 1 .. n /\ (n - j) - 1 = n - (j + 1) /\ n - (j + 1) \in 0 .. n /\ n \in 0 .. n
      OBVIOUS
    <3>2. RowsTo(q, n - j) <= RowsTo(q, n)
      BY <2>2, <3>1, Zenon
    <3>3. RowsTo(q, n - j) = RowsTo(q, n - (j + 1)) + q[n - j].rows
      BY <1>4, <3>1
    <3>4. q[n - j].rows \in Nat
      BY <3>1 DEF HaveRows
    <3>5. RowsTo(q, n - (j + 1)) \in Nat /\ RowsTo(q, n) \in Nat
      BY <1>5, <3>1
    <3> QED BY <3>2, <3>3, <3>4, <3>5
  <2>3. ASSUME NEW k \in 0 .. n PROVE RowsTo(q, k) <= RowsTo(q, n)
    <3>1. PICK j \in Nat : j = n - k
      OBVIOUS
    <3>2. j <= n /\ n - j = k
      BY <3>1
    <3>3. j \in T
      <4> HIDE DEF T
      <4> QED BY <2>1, <2>2, NatSetInduction
    <3> QED BY <3>2, <3>3
  <2> QED BY <2>3
<1>7. RowsTo(q, 0) = 0
  <2>1. 0 \in 0 .. n
    OBVIOUS
  <2> QED BY <1>2, <1>3, <2>1
<1> QED BY <1>4, <1>5, <1>6, <1>7

\* One more element does not change the rows of those before it.
LEMMA RowsOfPrefix ==
  ASSUME NEW q, NEW p, NEW n \in Nat, HaveRows(q, n), \A i \in 1 .. n : p[i] = q[i], NEW k \in 0 .. n
  PROVE  RowsTo(p, k) = RowsTo(q, k)
<1>1. k \in Nat /\ k <= n /\ k <= k /\ \A i \in 1 .. k : i \in 1 .. n
  OBVIOUS
<1>2. HaveRows(q, k) /\ HaveRows(p, k) /\ \A i \in 1 .. k : q[i].rows = p[i].rows
  BY <1>1 DEF HaveRows
<1>3. SumOver(q, 1 .. k)[1 .. k] = SumOver(p, 1 .. k)[1 .. k]
  BY <1>1, <1>2, SumsAgree
<1> QED BY <1>3 DEF RowsTo

LEMMA TimesLess == \A a, b, c \in Nat : b <= c => a * b <= a * c
  OBVIOUS
LEMMA TimesNext == \A a, b \in Nat : a * (b + 1) = a * b + a /\ a * b \in Nat
  OBVIOUS
LEMMA DivideIs == 
  ASSUME NEW x \in Nat, NEW a \in Nat, a > 0
  PROVE  x \div a \in Nat /\ a * (x \div a) <= x /\ x < a * (x \div a) + a
  OBVIOUS
LEMMA DivideBack ==
  ASSUME NEW a \in Nat, a > 0, NEW b \in Nat
  PROVE  (a * b) \div a = b
<1>1. PICK x \in Nat : x = a * b
  OBVIOUS
<1>2. PICK q \in Nat : q = x \div a
  BY DivideIs
<1>3. a * q <= x /\ x < a * q + a
  BY <1>2, DivideIs
<1>4. CASE q < b
  <2>1. a * (q + 1) <= a * b
    <3>1. q + 1 \in Nat /\ q + 1 <= b
      BY <1>4
    <3> QED BY <3>1, TimesLess
  <2>2. a * (q + 1) = a * q + a
    BY TimesNext
  <2> QED BY <1>1, <1>3, <2>1, <2>2
<1>5. CASE b < q
  <2>1. a * (b + 1) <= a * q
    <3>1. b + 1 \in Nat /\ b + 1 <= q
      BY <1>5
    <3> QED BY <3>1, TimesLess
  <2>2. a * (b + 1) = a * b + a /\ a * b \in Nat
    BY TimesNext
  <2> QED BY <1>1, <1>3, <2>1, <2>2
<1>6. CASE q = b
  BY <1>1, <1>2, <1>6
<1>7. q < b \/ b < q \/ q = b
  OBVIOUS
<1> QED BY <1>4, <1>5, <1>6, <1>7
-----------------------------------------------------------------------------
(***************************************************************************)
(* InstanceIO: one visit to an input, the inputs of one task, the tasks.   *)
(***************************************************************************)
\* What mergeInputs() works on.
MergeState == [buf : [Inputs -> [Units -> Nat \X Nat]], filled : [Inputs -> Nat], ok : BOOLEAN, more : BOOLEAN]

IOTyped == engine \in Engines /\ model \in Models /\ tasks \in Seq(Request)

\* Where the rows of a task begin in a buffer, and how much room they take.
Start(t) == RowUnits * RowsBefore(t)
Width(t) == tasks[t].rows * RowUnits
IsOwn(t, u) == u - Start(t) \in 0 .. Width(t) - 1

LEMMA RequestIs ==
  /\ \A x \in Sent : x.size \in Nat
  /\ \A q \in Request : /\ q.rows \in Nat /\ q.rows > 0 /\ q.inputs \in Seq(Sent)
                        /\ \A i, j \in 1 .. Len(q.inputs) : q.inputs[i].name = q.inputs[j].name => i = j
<1>1. \A x \in Sent : x.size \in Nat
  <2>1. \A x \in [name : UNION {ToSet(m) : m \in Models}, size : Sizes] : x.size \in Sizes
    OBVIOUS
  <2>2. \A x \in {[name |-> Other, size |-> 1]} : x.size = 1
    OBVIOUS
  <2>3. \A z \in Sizes : z \in Nat
    BY IOBounds
  <2>4. 1 \in Nat
    OBVIOUS
  <2> QED BY <2>1, <2>2, <2>3, <2>4, Zenon DEF Sent
<1>2. ASSUME NEW q \in Request
      PROVE  /\ q.rows \in Nat /\ q.rows > 0 /\ q.inputs \in Seq(Sent)
             /\ \A i, j \in 1 .. Len(q.inputs) : q.inputs[i].name = q.inputs[j].name => i = j
  <2>1. q.rows \in 1 .. MaxRows /\ q.inputs \in BoundedSeq(Sent, 2)
        /\ \A i, j \in DOMAIN q.inputs : q.inputs[i].name = q.inputs[j].name => i = j
    BY DEF Request
  <2>2. PICK n \in 0 .. 2 : q.inputs \in [1 .. n -> Sent]
    BY <2>1 DEF BoundedSeq, SeqOf
  <2>3. q.inputs \in Seq(Sent) /\ DOMAIN q.inputs = 1 .. Len(q.inputs)
    <3>1. n \in Nat
      OBVIOUS
    <3> QED BY <2>2, <3>1
  <2> QED BY <2>1, <2>3, IOBounds
<1> QED BY <1>1, <1>2

\* The rows before a task, as the model adds them and step by step.
LEMMA RowsBeforeIs ==
  ASSUME NEW t \in Nat \ {0}
  PROVE  RowsBefore(t) = RowsTo(tasks, t - 1)
BY Zenon DEF RowsBefore, RowsTo, SumOver, Picked, MapThenSumSet, MapThenFoldSet

LEMMA RowsBeforeSteps ==
  ASSUME IOTyped, NEW n \in Nat, n = Len(tasks)
  PROVE  /\ RowsBefore(1) = 0
         /\ \A t \in 1 .. n + 1 : RowsBefore(t) \in Nat /\ RowsBefore(t) <= RowsBefore(n + 1)
         /\ \A t \in 1 .. n : /\ tasks[t].rows \in Nat /\ tasks[t].rows > 0
                              /\ RowsBefore(t + 1) = RowsBefore(t) + tasks[t].rows
<1>1. \A t \in 1 .. n : tasks[t].rows \in Nat /\ tasks[t].rows > 0
  BY RequestIs DEF IOTyped
<1>2. HaveRows(tasks, n)
  BY <1>1 DEF HaveRows
<1>3. \A t \in 1 .. n + 1 : t \in Nat \ {0} /\ t - 1 \in 0 .. n
  OBVIOUS
<1>4. \A t \in 1 .. n + 1 : RowsBefore(t) = RowsTo(tasks, t - 1)
  BY <1>3, RowsBeforeIs
<1>5. /\ RowsTo(tasks, 0) = 0
      /\ \A k \in 0 .. n : RowsTo(tasks, k) \in Nat /\ RowsTo(tasks, k) <= RowsTo(tasks, n)
      /\ \A k \in 1 .. n : RowsTo(tasks, k) = RowsTo(tasks, k - 1) + tasks[k].rows
  BY <1>2, RowsToIs
<1>6. 1 \in 1 .. n + 1 /\ n + 1 \in 1 .. n + 1 /\ (n + 1) - 1 = n /\ 1 - 1 = 0
  OBVIOUS
<1>7. \A t \in 1 .. n : t \in 1 .. n + 1 /\ t + 1 \in 1 .. n + 1 /\ (t + 1) - 1 = t
  OBVIOUS
<1> QED BY <1>1, <1>3, <1>4, <1>5, <1>6, <1>7

\* What is copied is in its place, and nothing else is touched.
IsCopy(m, c, t, i, at, n) ==
  /\ c \in MergeState /\ c.ok = m.ok /\ c.more = m.more /\ c.filled = m.filled
  /\ \A j \in Inputs, u \in Units :
       c.buf[j][u] = IF j = i /\ u - at \in 0 .. n - 1 THEN <<t, u - at>> ELSE m.buf[j][u]

LEMMA CopyIs ==
  ASSUME NEW m \in MergeState, NEW t \in Nat, NEW i \in Inputs, NEW at \in Nat, NEW n \in Nat
  PROVE  IsCopy(m, Copy(m, t, i, at, n), t, i, at, n)
<1> DEFINE new == [u \in Units |-> IF u - at \in 0 .. n - 1 THEN <<t, u - at>> ELSE m.buf[i][u]]
<1>1. m.buf \in [Inputs -> [Units -> Nat \X Nat]]
  BY DEF MergeState
<1>2. new \in [Units -> Nat \X Nat]
  <2>1. ASSUME NEW u \in Units PROVE new[u] \in Nat \X Nat
    <3>1. m.buf[i][u] \in Nat \X Nat
      BY <1>1
    <3>2. u - at \in 0 .. n - 1 => u - at \in Nat
      OBVIOUS
    <3> QED BY <3>1, <3>2
  <2> QED BY <2>1
<1>3. Copy(m, t, i, at, n) = [m EXCEPT !.buf = [@ EXCEPT ![i] = new]]
  BY DEF Copy, MergeState
<1>4. [m.buf EXCEPT ![i] = new] \in [Inputs -> [Units -> Nat \X Nat]]
  <2> HIDE DEF new
  <2> QED BY <1>1, <1>2
<1>5. PICK b : b = [m.buf EXCEPT ![i] = new]
  OBVIOUS
<1>6. \A j \in Inputs, u \in Units : b[j][u] = IF j = i /\ u - at \in 0 .. n - 1 THEN <<t, u - at>> ELSE m.buf[j][u]
  BY <1>1, <1>5
<1>7. Copy(m, t, i, at, n) = [m EXCEPT !.buf = b]
  <2> HIDE DEF new
  <2> QED BY <1>3, <1>5 DEF MergeState
<1> HIDE DEF new
<1>8. b \in [Inputs -> [Units -> Nat \X Nat]]
  BY <1>4, <1>5
<1>9. PICK c : c = [m EXCEPT !.buf = b]
  OBVIOUS
<1>10. c \in MergeState /\ c.ok = m.ok /\ c.more = m.more /\ c.filled = m.filled /\ c.buf = b
  BY <1>8, <1>9 DEF MergeState
<1> QED BY <1>6, <1>7, <1>9, <1>10 DEF IsCopy

\* What is known of a visit that is to succeed, and what it then has done.
RoomReady(m, t, x) ==
  /\ m.more
  /\ engine # "tensorrt" => x.name \in Inputs /\ x.size = Width(t)
  /\ engine = "paddle" => Len(model) = 1
  /\ engine = "tvm" => m.filled[x.name] = Start(t)

Took(m, r, t, x) ==
  /\ x.name \in Inputs /\ r.more /\ x.size = Width(t)
  /\ \A j \in Inputs, u \in Units :
       r.buf[j][u] = IF j = x.name /\ IsOwn(t, u) THEN <<t, u - Start(t)>> ELSE m.buf[j][u]
  /\ engine = "tvm" => r.filled = [m.filled EXCEPT ![x.name] = @ + Width(t)]
  /\ engine \in {"libtorch", "paddle"} => r.filled = [m.filled EXCEPT ![x.name] = @ + tasks[t].rows]

VisitIsRight(m, r, t, x) ==
  /\ r \in MergeState /\ (r.ok => m.ok)
  /\ RoomReady(m, t, x) /\ r.ok => Took(m, r, t, x) \/ (engine = "tensorrt" /\ x.name \notin Inputs /\ r = m)

\* What a visitor may do with an input: nothing, stop, fail, or copy.
LEMMA OutcomesAre ==
  ASSUME NEW m \in MergeState
  PROVE  /\ Stop(m) \in MergeState /\ Stop(m).ok = m.ok
         /\ Fail(m) \in MergeState /\ ~Fail(m).ok
         /\ [m EXCEPT !.ok = FALSE] \in MergeState /\ ~[m EXCEPT !.ok = FALSE].ok
         /\ \A b \in BOOLEAN : [m EXCEPT !.ok = @ /\ b] \in MergeState
                               /\ [m EXCEPT !.ok = @ /\ b] = [m EXCEPT !.ok = m.ok /\ b]
         /\ \A f \in [Inputs -> Nat] : [m EXCEPT !.filled = f] \in MergeState
BY DEF MergeState, Stop, Fail

\* The names and the values of what is looked up.
LEMMA PlacesAre ==
  ASSUME IOTyped, NEW t \in 1 .. Len(tasks)
  PROVE  /\ tasks[t].rows \in Nat /\ tasks[t].rows > 0 /\ RowsBefore(t) \in Nat
         /\ RowUnits \in Nat /\ RowUnits > 0 /\ Start(t) \in Nat /\ Width(t) \in Nat
         /\ Start(t) = RowUnits * RowsBefore(t) /\ Width(t) \div tasks[t].rows = RowUnits
<1>1. PICK n \in Nat : n = Len(tasks)
  BY DEF IOTyped
<1>2. t \in 1 .. n /\ t \in 1 .. n + 1
  BY <1>1
<1>3. tasks[t].rows \in Nat /\ tasks[t].rows > 0 /\ RowsBefore(t) \in Nat
  BY <1>1, <1>2, RowsBeforeSteps
<1>4. RowUnits \in Nat /\ RowUnits > 0
  BY IOBounds
<1>5. Start(t) \in Nat
  <2>1. PICK a \in Nat, b \in Nat : a = RowUnits /\ b = RowsBefore(t)
    BY <1>3, <1>4
  <2>2. a * b \in Nat
    BY TimesNext
  <2> QED BY <2>1, <2>2 DEF Start
<1>6. PICK a \in Nat, b \in Nat : a = tasks[t].rows /\ b = RowUnits
  BY <1>3, <1>4
<1>7. a * b \in Nat /\ (a * b) \div a = b
  BY <1>3, <1>6, TimesNext, DivideBack
<1> QED BY <1>3, <1>4, <1>5, <1>6, <1>7 DEF Width, Start

\* A visitor that stops has changed nothing, one that fails is not ok any more.
LEMMA StopIs == ASSUME NEW m \in MergeState PROVE Stop(m) \in MergeState /\ Stop(m).ok = m.ok
  BY OutcomesAre

LEMMA FailIs == ASSUME NEW m \in MergeState PROVE Fail(m) \in MergeState /\ ~Fail(m).ok
  BY OutcomesAre

LEMMA BlobIsRight ==
  ASSUME IOTyped, NEW t \in 1 .. Len(tasks), NEW m \in MergeState, NEW x \in Sent, NEW known \in SUBSET Inputs,
         RoomReady(m, t, x) => x.name \in known, engine # "tvm", engine # "tensorrt"
  PROVE  VisitIsRight(m, BlobVisit(m, t, x, known), t, x)
<1>0. t \in Nat /\ x.size \in Nat
  BY RequestIs DEF IOTyped
<1>1. PICK at \in Nat, w \in Nat, rows \in Nat : at = Start(t) /\ w = Width(t) /\ rows = tasks[t].rows
  BY PlacesAre
<1>2. PICK r : r = BlobVisit(m, t, x, known)
  OBVIOUS
<1>3. CASE x.name \notin known
  <2>1. r = Stop(m)
    BY <1>2, <1>3 DEF BlobVisit
  <2>2. r \in MergeState /\ r.ok = m.ok
    BY <2>1, StopIs
  <2>3. ~RoomReady(m, t, x)
    BY <1>3
  <2> QED BY <1>2, <2>2, <2>3 DEF VisitIsRight
<1>4. CASE x.name \in known /\ (x.size \div tasks[t].rows # RowUnits \/ at + x.size > Space)
  <2>1. r = Fail(m)
    BY <1>1, <1>2, <1>4 DEF BlobVisit, Start
  <2> QED BY <1>2, <2>1, OutcomesAre DEF VisitIsRight
<1>5. CASE x.name \in known /\ ~(x.size \div tasks[t].rows # RowUnits \/ at + x.size > Space)
  <2>1. PICK c : c = Copy(m, t, x.name, at, x.size)
    OBVIOUS
  <2>0. IsCopy(m, c, t, x.name, at, x.size)
    BY <1>0, <1>5, <2>1, CopyIs
  <2>2. /\ c \in MergeState /\ c.ok = m.ok /\ c.more = m.more /\ c.filled = m.filled
        /\ \A j \in Inputs, u \in Units :
             c.buf[j][u] = IF j = x.name /\ u - at \in 0 .. x.size - 1 THEN <<t, u - at>> ELSE m.buf[j][u]
    BY <2>0 DEF IsCopy
  <2>3. r = [c EXCEPT !.filled[x.name] = @ + tasks[t].rows]
    BY <1>1, <1>2, <1>5, <2>1 DEF BlobVisit, Start
  <2>4. m.filled \in [Inputs -> Nat] /\ x.name \in Inputs
    BY <1>5 DEF MergeState
  <2>5. PICK f \in [Inputs -> Nat] : f = [m.filled EXCEPT ![x.name] = @ + tasks[t].rows]
    <3>1. PICK f : f = [m.filled EXCEPT ![x.name] = @ + rows]
      OBVIOUS
    <3>2. f \in [Inputs -> Nat]
      <4>1. m.filled[x.name] + rows \in Nat
        BY <1>1, <2>4
      <4> QED BY <2>4, <3>1, <4>1
    <3> QED BY <1>1, <3>1, <3>2
  <2>6. r = [c EXCEPT !.filled = f]
    BY <2>2, <2>3, <2>5 DEF MergeState
  <2>7. r \in MergeState /\ r.ok = m.ok /\ r.more = m.more /\ r.filled = f /\ r.buf = c.buf
    BY <2>2, <2>6 DEF MergeState
  <2>8. ASSUME RoomReady(m, t, x) PROVE Took(m, r, t, x)
    <3>1. m.more /\ x.size = w
      BY <1>1, <2>8 DEF RoomReady
    <3>2. \A j \in Inputs, u \in Units :
            r.buf[j][u] = IF j = x.name /\ IsOwn(t, u) THEN <<t, u - Start(t)>> ELSE m.buf[j][u]
      BY <1>1, <2>2, <2>7, <3>1 DEF IsOwn
    <3> QED BY <1>1, <2>4, <2>5, <2>7, <3>1, <3>2 DEF Took
  <2> QED BY <1>2, <2>7, <2>8 DEF VisitIsRight
<1> QED BY <1>1, <1>3, <1>4, <1>5

LEMMA OpenVinoIsRight ==
  ASSUME IOTyped, NEW t \in 1 .. Len(tasks), NEW m \in MergeState, NEW x \in Sent, engine = "openvino"
  PROVE  VisitIsRight(m, OpenVinoVisit(m, t, x), t, x)
<1>0. t \in Nat /\ x.size \in Nat
  BY RequestIs DEF IOTyped
<1>1. PICK rows \in Nat, before \in Nat, w \in Nat :
        rows > 0 /\ rows = tasks[t].rows /\ before = RowsBefore(t) /\ w = Width(t) /\ w \div rows = RowUnits
  BY PlacesAre
<1>2. PICK perRow \in Nat : perRow = x.size \div rows
  BY <1>0, <1>1, DivideIs
<1>3. PICK at \in Nat, n \in Nat : at = perRow * before /\ n = perRow * rows
  BY <1>1, TimesNext
<1>4. PICK r : r = OpenVinoVisit(m, t, x)
  OBVIOUS
<1>5. CASE x.name \notin Inputs
  <2>1. r = Stop(m)
    BY <1>4, <1>5 DEF OpenVinoVisit
  <2>2. ~RoomReady(m, t, x)
    BY <1>5 DEF RoomReady
  <2>3. r \in MergeState /\ r.ok = m.ok
    BY <2>1, StopIs
  <2> QED BY <1>4, <2>2, <2>3 DEF VisitIsRight
<1>6. CASE x.name \in Inputs /\ at + x.size > Space
  <2>1. r = Fail(m)
    BY <1>1, <1>2, <1>3, <1>4, <1>6 DEF OpenVinoVisit
  <2> QED BY <1>4, <2>1, OutcomesAre DEF VisitIsRight
<1>7. CASE x.name \in Inputs /\ ~(at + x.size > Space)
  <2>1. r = Copy(m, t, x.name, at, n)
    BY <1>1, <1>2, <1>3, <1>4, <1>7 DEF OpenVinoVisit
  <2>2. IsCopy(m, r, t, x.name, at, n)
    BY <1>0, <1>7, <2>1, CopyIs
  <2>3. ASSUME RoomReady(m, t, x) PROVE Took(m, r, t, x)
    <3>1. m.more /\ x.size = w
      BY <1>1, <2>3 DEF RoomReady
    <3>2. perRow = RowUnits
      BY <1>1, <1>2, <3>1
    <3>3. at = Start(t)
      BY <1>1, <1>3, <3>2 DEF Start
    <3>4. n = Width(t)
      <4>1. RowUnits \in Nat
        BY IOBounds
      <4>2. \A a, b \in Nat : a * b = b * a
        OBVIOUS
      <4> QED BY <1>1, <1>3, <3>2, <4>1, <4>2 DEF Width
    <3> QED BY <1>1, <1>7, <2>2, <3>1, <3>3, <3>4 DEF Took, IsCopy, IsOwn
  <2> QED BY <1>4, <2>2, <2>3 DEF VisitIsRight, IsCopy
<1> QED BY <1>5, <1>6, <1>7

LEMMA TvmIsRight ==
  ASSUME IOTyped, NEW t \in 1 .. Len(tasks), NEW m \in MergeState, NEW x \in Sent, engine = "tvm"
  PROVE  VisitIsRight(m, TvmVisit(m, t, x), t, x)
<1>0. t \in Nat /\ x.size \in Nat
  BY RequestIs DEF IOTyped
<1>1. PICK r : r = TvmVisit(m, t, x)
  OBVIOUS
<1>2. m.filled \in [Inputs -> Nat]
  BY DEF MergeState
<1>3. CASE x.name \notin Inputs
  <2>1. r = Stop(m)
    BY <1>1, <1>3 DEF TvmVisit
  <2>2. ~RoomReady(m, t, x)
    BY <1>3 DEF RoomReady
  <2>3. r \in MergeState /\ r.ok = m.ok
    BY <2>1, StopIs
  <2> QED BY <1>1, <2>2, <2>3 DEF VisitIsRight
<1>4. CASE x.name \in Inputs /\ m.filled[x.name] + x.size > Space
  <2>1. r = Fail(m)
    BY <1>1, <1>4 DEF TvmVisit
  <2> QED BY <1>1, <2>1, OutcomesAre DEF VisitIsRight
<1>5. CASE x.name \in Inputs /\ ~(m.filled[x.name] + x.size > Space)
  <2>1. PICK at \in Nat : at = m.filled[x.name]
    BY <1>2, <1>5
  <2>2. PICK c : c = Copy(m, t, x.name, at, x.size)
    OBVIOUS
  <2>3. IsCopy(m, c, t, x.name, at, x.size)
    BY <1>0, <1>5, <2>2, CopyIs
  <2>4. r = [c EXCEPT !.filled[x.name] = @ + x.size]
    BY <1>1, <1>5, <2>1, <2>2 DEF TvmVisit
  <2>5. PICK f \in [Inputs -> Nat] : f = [m.filled EXCEPT ![x.name] = @ + x.size]
    <3>1. PICK f : f = [m.filled EXCEPT ![x.name] = @ + x.size]
      OBVIOUS
    <3>2. m.filled[x.name] + x.size \in Nat
      BY <1>0, <1>2, <1>5
    <3> QED BY <1>2, <1>5, <3>1, <3>2
  <2>6. r = [c EXCEPT !.filled = f]
    BY <2>3, <2>4, <2>5 DEF MergeState, IsCopy
  <2>7. r \in MergeState /\ r.ok = m.ok /\ r.more = m.more /\ r.filled = f /\ r.buf = c.buf
    BY <2>3, <2>6 DEF MergeState, IsCopy
  <2>8. ASSUME RoomReady(m, t, x) PROVE Took(m, r, t, x)
    <3>1. m.more /\ x.size = Width(t) /\ at = Start(t)
      BY <2>1, <2>8 DEF RoomReady
    <3> QED BY <1>5, <2>3, <2>5, <2>7, <3>1 DEF Took, IsCopy, IsOwn
  <2> QED BY <1>1, <2>7, <2>8 DEF VisitIsRight
<1> QED BY <1>3, <1>4, <1>5

LEMMA TensorRtIsRight ==
  ASSUME IOTyped, NEW t \in 1 .. Len(tasks), NEW m \in MergeState, NEW x \in Sent, engine = "tensorrt"
  PROVE  VisitIsRight(m, TensorRtVisit(m, t, x), t, x)
<1>0. t \in Nat /\ x.size \in Nat
  BY RequestIs DEF IOTyped
<1>1. PICK r : r = TensorRtVisit(m, t, x)
  OBVIOUS
<1>2. PICK at \in Nat, w \in Nat : at = Start(t) /\ w = Width(t)
  BY PlacesAre
<1>3. CASE x.name \notin Inputs
  <2>1. r = m
    BY <1>1, <1>3 DEF TensorRtVisit
  <2> QED BY <1>1, <1>3, <2>1 DEF VisitIsRight
<1>4. CASE x.name \in Inputs /\ at + x.size > Space
  <2>1. r = [m EXCEPT !.ok = FALSE]
    BY <1>1, <1>2, <1>4 DEF TensorRtVisit, Start
  <2> QED BY <1>1, <2>1, OutcomesAre DEF VisitIsRight
<1>5. CASE x.name \in Inputs /\ ~(at + x.size > Space)
  <2>1. PICK c : c = Copy(m, t, x.name, at, x.size)
    OBVIOUS
  <2>2. IsCopy(m, c, t, x.name, at, x.size)
    BY <1>0, <1>5, <2>1, CopyIs
  <2>3. PICK b \in BOOLEAN : b = (x.size = w)
    OBVIOUS
  <2>4. r = [c EXCEPT !.ok = @ /\ x.size = tasks[t].rows * RowUnits]
    BY <1>1, <1>2, <1>5, <2>1 DEF TensorRtVisit, Start
  <2>5. c \in MergeState
    BY <2>2 DEF IsCopy
  <2>6. r = [c EXCEPT !.ok = c.ok /\ b]
    BY <1>2, <2>3, <2>4, <2>5 DEF Width, MergeState
  <2>7. r \in MergeState /\ r.ok = (c.ok /\ b) /\ r.more = c.more /\ r.buf = c.buf
    BY <2>5, <2>6 DEF MergeState
  <2>8. ASSUME RoomReady(m, t, x), r.ok PROVE Took(m, r, t, x)
    <3>1. m.more /\ x.size = w
      BY <2>3, <2>7, <2>8 DEF RoomReady
    <3> QED BY <1>2, <1>5, <2>2, <2>7, <3>1 DEF Took, IsCopy, IsOwn
  <2> QED BY <1>1, <2>2, <2>7, <2>8 DEF VisitIsRight, IsCopy
<1> QED BY <1>2, <1>3, <1>4, <1>5

\* Every visitor does what is described.
LEMMA VisitIs ==
  ASSUME IOTyped, NEW t \in 1 .. Len(tasks), NEW m \in MergeState, NEW x \in Sent
  PROVE  VisitIsRight(m, Visit1(m, t, x), t, x)
<1>1. engine \in {"openvino", "libtorch", "paddle", "topsinference", "tensorrt", "tvm"}
  BY EnginesAreKnown DEF IOTyped
<1>2. CASE ~m.more
  BY <1>2 DEF Visit1, VisitIsRight, RoomReady
<1>3. CASE m.more /\ engine = "openvino"
  BY <1>3, OpenVinoIsRight DEF Visit1
<1>4. CASE m.more /\ engine = "libtorch"
  <2>1. RoomReady(m, t, x) => x.name \in Inputs
    BY <1>4 DEF RoomReady
  <2>2. VisitIsRight(m, BlobVisit(m, t, x, Inputs), t, x)
    BY <1>4, <2>1, BlobIsRight
  <2> QED BY <1>4, <2>2 DEF Visit1
<1>5. CASE m.more /\ engine = "topsinference"
  <2>1. RoomReady(m, t, x) => x.name \in Inputs
    BY <1>5 DEF RoomReady
  <2>2. VisitIsRight(m, BlobVisit(m, t, x, Inputs), t, x)
    BY <1>5, <2>1, BlobIsRight
  <2> QED BY <1>5, <2>2 DEF Visit1, TopsVisit
<1>6. CASE m.more /\ engine = "paddle"
  <2>0. model \in Seq(ToSet(model))
    BY ModelsAreLists DEF IOTyped
  <2>1. PICK known : known = {model[i] : i \in DOMAIN model \intersect {1}}
    OBVIOUS
  <2>2. known \in SUBSET Inputs
    BY <2>0, <2>1 DEF Inputs, ToSet
  <2>3. ASSUME RoomReady(m, t, x) PROVE x.name \in known
    <3>1. x.name \in Inputs /\ Len(model) = 1
      BY <1>6, <2>3 DEF RoomReady
    <3>2. DOMAIN model = {1}
      BY <2>0, <3>1
    <3> QED BY <2>1, <3>1, <3>2 DEF Inputs, ToSet
  <2>4. RoomReady(m, t, x) => x.name \in known
    BY <2>3
  <2>5. VisitIsRight(m, BlobVisit(m, t, x, known), t, x)
    BY <1>6, <2>2, <2>4, BlobIsRight
  <2> QED BY <1>6, <2>1, <2>5, Zenon DEF Visit1, PaddleVisit
<1>7. CASE m.more /\ engine = "tvm"
  BY <1>7, TvmIsRight DEF Visit1
<1>8. CASE m.more /\ engine = "tensorrt"
  BY <1>8, TensorRtIsRight DEF Visit1
<1> QED BY <1>1, <1>2, <1>3, <1>4, <1>5, <1>6, <1>7, <1>8

\* The visits of the inputs s of a task, as the fold makes them.
InputVisits(m, t, s) == CHOOSE iter : iter = [S \in SUBSET (DOMAIN s) |->
                     IF S = {} THEN [m EXCEPT !.more = TRUE] ELSE Visit1(iter[S \ {Max(S)}], t, s[Max(S)])]

LEMMA VisitsSteps ==
  ASSUME IOTyped, NEW t \in 1 .. Len(tasks), NEW m \in MergeState, NEW n \in Nat, n = Len(tasks[t].inputs),
         NEW W, W = InputVisits(m, t, tasks[t].inputs)
  PROVE  /\ W[1 .. 0] = [m EXCEPT !.more = TRUE]
         /\ \A k \in 0 .. n : W[1 .. k] \in MergeState
         /\ \A k \in 0 .. n - 1 : W[1 .. k + 1] = Visit1(W[1 .. k], t, tasks[t].inputs[k + 1])
         /\ MergeTask(m, t) = W[1 .. n]
<1>1. PICK s \in Seq(Sent) : s = tasks[t].inputs
  BY RequestIs DEF IOTyped
<1>2. DOMAIN s = 1 .. n /\ \A k \in 1 .. n : s[k] \in Sent
  BY <1>1
<1>3. PICK base \in MergeState : base = [m EXCEPT !.more = TRUE]
  BY DEF MergeState
<1>4. \A d \in MergeState, k \in 1 .. n : Visit1(d, t, s[k]) \in MergeState
  BY <1>2, VisitIs DEF VisitIsRight
<1> DEFINE F(f, S) == IF S = {} THEN base ELSE Visit1(f[S \ {Max(S)}], t, s[Max(S)])
           g == [p \in MergeState \X (1 .. n) |-> Visit1(p[1], t, s[p[2]])]
<1>5. g \in [MergeState \X (1 .. n) -> MergeState] /\ \A d \in MergeState, k \in 1 .. n : g[<<d, k>>] = Visit1(d, t, s[k])
  BY <1>4
<1>6. PICK f \in [SUBSET (1 .. n) -> MergeState] : Folded(f, n, base, g)
  <2> HIDE DEF g
  <2> QED BY <1>3, <1>5, FoldExists
<1>7. ASSUME NEW S \in SUBSET (1 .. n) PROVE f[S] = F(f, S)
  <2>1. f[S] = IF S = {} THEN base ELSE g[<<f[S \ {Max(S)}], Max(S)>>]
    <3> HIDE DEF g
    <3> QED BY <1>6, Zenon DEF Folded
  <2>2. CASE S = {}
    BY <2>1, <2>2
  <2>3. CASE S # {}
    <3>1. Max(S) \in 1 .. n /\ f[S \ {Max(S)}] \in MergeState
      BY <2>3, GreatestIn
    <3> HIDE DEF g
    <3> QED BY <1>5, <2>1, <2>3, <3>1
  <2> QED BY <2>2, <2>3
<1>8. f = [S \in SUBSET (1 .. n) |-> F(f, S)]
  <2> HIDE DEF F, g
  <2> QED BY <1>7
<1>9. W = [S \in SUBSET (1 .. n) |-> F(W, S)]
  BY <1>1, <1>2, <1>3, <1>8, Zenon DEF InputVisits
<1>10. \A S \in SUBSET (1 .. n) : W[S] = F(W, S)
  <2> HIDE DEF F, g
  <2> QED BY <1>9
<1>11. W[1 .. 0] = base
  <2>1. 1 .. 0 = {} /\ {} \in SUBSET (1 .. n)
    BY UpTo
  <2> QED BY <1>10, <2>1
<1>12. ASSUME NEW k \in 0 .. n - 1 PROVE W[1 .. k + 1] = Visit1(W[1 .. k], t, s[k + 1])
  <2>1. PICK S : S = 1 .. k + 1
    OBVIOUS
  <2>2. k \in Nat /\ k + 1 <= n
    OBVIOUS
  <2>3. Max(S) = k + 1 /\ S \ {k + 1} = 1 .. k /\ S # {}
    BY <2>1, <2>2, UpTo
  <2>4. S \in SUBSET (1 .. n)
    <3>1. \A x \in 1 .. k + 1 : x \in 1 .. n
      BY <2>2
    <3> QED BY <2>1, <3>1
  <2>5. W[S] = F(W, S)
    <3> HIDE DEF F, g
    <3> QED BY <1>10, <2>4
  <2> QED BY <2>1, <2>3, <2>5
<1> DEFINE T == {k \in Nat : k <= n => W[1 .. k] \in MergeState}
<1>13. 0 \in T
  BY <1>3, <1>11
<1>14. ASSUME NEW k \in Nat, k \in T PROVE k + 1 \in T
  <2> SUFFICES ASSUME k + 1 <= n PROVE W[1 .. k + 1] \in MergeState
    <3>1. k + 1 \in Nat
      OBVIOUS
    <3> QED BY <3>1, Zenon
  <2>1. k \in 0 .. n - 1 /\ k <= n /\ k + 1 \in 1 .. n
    OBVIOUS
  <2>2. W[1 .. k] \in MergeState
    BY <1>14, <2>1, Zenon
  <2> QED BY <1>4, <1>12, <2>1, <2>2
<1>15. ASSUME NEW k \in 0 .. n PROVE W[1 .. k] \in MergeState
  <2>1. k \in Nat /\ k <= n
    OBVIOUS
  <2>2. k \in T
    <3> HIDE DEF T
    <3> QED BY <1>13, <1>14, <2>1, NatSetInduction
  <2> QED BY <2>1, <2>2, Zenon
<1>16. MergeTask(m, t) = W[1 .. n]
  BY <1>1, <1>2, Zenon DEF MergeTask, FoldLeft, MapThenFoldSet, InputVisits
<1> HIDE DEF F, g, T
<1> QED BY <1>1, <1>3, <1>11, <1>12, <1>15, <1>16

\* Whether i is among the first l inputs of a task.
Sees(t, l, i) == \E j \in 1 .. l : tasks[t].inputs[j].name = i

\* The tasks of which OwnResults speaks, and how far the buffers are filled
\* before a task.
GoodTask(t) == /\ engine # "tensorrt" => WellFormed(tasks[t])
               /\ engine = "paddle" => Len(model) = 1
FilledUpTo(m, t) == \A i \in Inputs : /\ engine = "tvm" => m.filled[i] = Start(t)
                                      /\ engine \in {"libtorch", "paddle"} => m.filled[i] = RowsBefore(t)

\* The first l inputs of a task are in r, and all else is as it was in m.
Inner(m, r, t, l) ==
  /\ m.ok /\ r.more
  /\ \A i \in Inputs, u \in Units : ~IsOwn(t, u) => r.buf[i][u] = m.buf[i][u]
  /\ \A i \in Inputs, u \in Units : IsOwn(t, u) /\ Sees(t, l, i) => r.buf[i][u] = <<t, u - Start(t)>>
  /\ engine = "tvm" => \A i \in Inputs : r.filled[i] = IF Sees(t, l, i) THEN Start(t) + Width(t) ELSE Start(t)
  /\ engine \in {"libtorch", "paddle"} =>
       \A i \in Inputs : r.filled[i] = IF Sees(t, l, i) THEN RowsBefore(t) + tasks[t].rows ELSE RowsBefore(t)

LEMMA InnerGoesOn ==
  ASSUME IOTyped, NEW t \in 1 .. Len(tasks), NEW m, NEW r \in MergeState, GoodTask(t),
         NEW l \in Nat, l + 1 <= Len(tasks[t].inputs), r.ok => Inner(m, r, t, l),
         Visit1(r, t, tasks[t].inputs[l + 1]).ok
  PROVE  Inner(m, Visit1(r, t, tasks[t].inputs[l + 1]), t, l + 1)
<1>1. PICK s \in Seq(Sent) : s = tasks[t].inputs /\ \A i, j \in 1 .. Len(s) : s[i].name = s[j].name => i = j
  BY RequestIs DEF IOTyped
<1>2. PICK x \in Sent : x = s[l + 1]
  BY <1>1
<1>3. PICK new : new = Visit1(r, t, x)
  OBVIOUS
<1>4. VisitIsRight(r, new, t, x) /\ new.ok
  BY <1>1, <1>2, <1>3, VisitIs
<1>5. r.ok /\ Inner(m, r, t, l)
  BY <1>4 DEF VisitIsRight
<1>6. \A i : Sees(t, l + 1, i) <=> i = x.name \/ Sees(t, l, i)
  <2>1. \A j \in 1 .. l + 1 : j = l + 1 \/ j \in 1 .. l
    OBVIOUS
  <2>2. l + 1 \in 1 .. l + 1 /\ \A j \in 1 .. l : j \in 1 .. l + 1
    OBVIOUS
  <2> QED BY <1>1, <1>2, <2>1, <2>2 DEF Sees
<1>7. ~Sees(t, l, x.name)
  <2>1. \A j \in 1 .. l : j \in 1 .. Len(s) /\ j # l + 1 /\ l + 1 \in 1 .. Len(s)
    BY <1>1
  <2> QED BY <1>1, <1>2, <2>1 DEF Sees
<1>8. RoomReady(r, t, x)
  <2>1. r.more
    BY <1>5 DEF Inner
  <2>2. engine # "tensorrt" => x.name \in Inputs /\ x.size = Width(t)
    <3>1. x \in ToSet(tasks[t].inputs)
      BY <1>1, <1>2 DEF ToSet
    <3>2. SUFFICES ASSUME engine # "tensorrt" PROVE x.name \in Inputs /\ x.size = Width(t)
      OBVIOUS
    <3>3. WellFormed(tasks[t])
      BY <3>2 DEF GoodTask
    <3> QED BY <3>1, <3>3 DEF WellFormed, Width
  <2>3. engine = "tvm" => r.filled[x.name] = Start(t)
    <3>1. SUFFICES ASSUME engine = "tvm" PROVE r.filled[x.name] = Start(t)
      OBVIOUS
    <3>2. x.name \in Inputs
      BY <2>2, <3>1
    <3> QED BY <1>5, <1>7, <3>1, <3>2 DEF Inner
  <2> QED BY <2>1, <2>2, <2>3 DEF RoomReady, GoodTask
<1>9. CASE Took(r, new, t, x)
  <2>1. x.name \in Inputs /\ new.more
        /\ \A j \in Inputs, u \in Units :
             new.buf[j][u] = IF j = x.name /\ IsOwn(t, u) THEN <<t, u - Start(t)>> ELSE r.buf[j][u]
    BY <1>9 DEF Took
  <2>2. \A i \in Inputs, u \in Units : ~IsOwn(t, u) => new.buf[i][u] = m.buf[i][u]
    <3>1. \A i \in Inputs, u \in Units : ~IsOwn(t, u) => r.buf[i][u] = m.buf[i][u]
      BY <1>5 DEF Inner
    <3> SUFFICES ASSUME NEW i \in Inputs, NEW u \in Units, ~IsOwn(t, u) PROVE new.buf[i][u] = m.buf[i][u]
      OBVIOUS
    <3>2. new.buf[i][u] = r.buf[i][u]
      BY <2>1
    <3> QED BY <3>1, <3>2
  <2>3. \A i \in Inputs, u \in Units : IsOwn(t, u) /\ Sees(t, l + 1, i) => new.buf[i][u] = <<t, u - Start(t)>>
    BY <1>5, <1>6, <2>1 DEF Inner
  <2>4. r.filled \in [Inputs -> Nat]
    BY DEF MergeState
  <2>5. engine = "tvm" => \A i \in Inputs : new.filled[i] = IF Sees(t, l + 1, i) THEN Start(t) + Width(t) ELSE Start(t)
    <3>1. SUFFICES ASSUME engine = "tvm", NEW i \in Inputs
                   PROVE new.filled[i] = IF Sees(t, l + 1, i) THEN Start(t) + Width(t) ELSE Start(t)
      OBVIOUS
    <3>2. new.filled = [r.filled EXCEPT ![x.name] = @ + Width(t)]
      BY <1>9, <3>1 DEF Took
    <3>3. r.filled[i] = IF Sees(t, l, i) THEN Start(t) + Width(t) ELSE Start(t)
      BY <1>5, <3>1 DEF Inner
    <3>4. CASE i = x.name
      BY <1>6, <1>7, <2>4, <3>2, <3>3, <3>4
    <3>5. CASE i # x.name
      BY <1>6, <2>4, <3>2, <3>3, <3>5
    <3> QED BY <3>4, <3>5
  <2>6. engine \in {"libtorch", "paddle"} =>
          \A i \in Inputs : new.filled[i] = IF Sees(t, l + 1, i) THEN RowsBefore(t) + tasks[t].rows ELSE RowsBefore(t)
    <3>1. SUFFICES ASSUME engine \in {"libtorch", "paddle"}, NEW i \in Inputs
                   PROVE new.filled[i] = IF Sees(t, l + 1, i) THEN RowsBefore(t) + tasks[t].rows ELSE RowsBefore(t)
      OBVIOUS
    <3>2. new.filled = [r.filled EXCEPT ![x.name] = @ + tasks[t].rows]
      BY <1>9, <3>1 DEF Took
    <3>3. r.filled[i] = IF Sees(t, l, i) THEN RowsBefore(t) + tasks[t].rows ELSE RowsBefore(t)
      BY <1>5, <3>1 DEF Inner
    <3>4. CASE i = x.name
      BY <1>6, <1>7, <2>4, <3>2, <3>3, <3>4
    <3>5. CASE i # x.name
      BY <1>6, <2>4, <3>2, <3>3, <3>5
    <3> QED BY <3>4, <3>5
  <2>7. Inner(m, new, t, l + 1)
    BY <1>5, <2>1, <2>2, <2>3, <2>5, <2>6 DEF Inner
  <2> QED BY <1>1, <1>2, <1>3, <2>7
<1>10. CASE engine = "tensorrt" /\ x.name \notin Inputs /\ new = r
  <2>1. \A i \in Inputs : Sees(t, l + 1, i) <=> Sees(t, l, i)
    BY <1>6, <1>10
  <2>2. Inner(m, new, t, l + 1)
    BY <1>5, <1>10, <2>1 DEF Inner
  <2> QED BY <1>1, <1>2, <1>3, <2>2
<1> QED BY <1>4, <1>8, <1>9, <1>10 DEF VisitIsRight

\* A task leaves alone what others sent, and its own inputs are in their
\* places, all of them if it is well formed.
TaskTaken(m, r, t) ==
  /\ m.ok
  /\ \A i \in Inputs, u \in Units : ~IsOwn(t, u) => r.buf[i][u] = m.buf[i][u]
  /\ WellFormed(tasks[t]) => \A i \in Inputs, u \in Units : IsOwn(t, u) => r.buf[i][u] = <<t, u - Start(t)>>
  /\ FilledUpTo(r, t + 1)

LEMMA StartsAre ==
  ASSUME IOTyped, NEW t \in 1 .. Len(tasks)
  PROVE  Start(t + 1) = Start(t) + Width(t)
<1>1. PICK n \in Nat : n = Len(tasks)
  BY DEF IOTyped
<1>2. PICK a \in Nat, b \in Nat, c \in Nat : a = RowUnits /\ b = RowsBefore(t) /\ c = tasks[t].rows
  BY PlacesAre
<1>3. RowsBefore(t + 1) = b + c
  BY <1>1, <1>2, RowsBeforeSteps
<1>4. \A x, y, z \in Nat : x * (y + z) = x * y + z * x
  OBVIOUS
<1>5. a * (b + c) = a * b + c * a
  BY <1>4
<1> QED BY <1>2, <1>3, <1>5 DEF Start, Width

LEMMA TaskIs ==
  ASSUME IOTyped, NEW t \in 1 .. Len(tasks), NEW m \in MergeState, GoodTask(t),
         m.ok => FilledUpTo(m, t), MergeTask(m, t).ok
  PROVE  TaskTaken(m, MergeTask(m, t), t)
<1>1. PICK s \in Seq(Sent) : s = tasks[t].inputs
  BY RequestIs DEF IOTyped
<1>2. PICK n \in Nat : n = Len(s)
  OBVIOUS
<1>3. PICK W : W = InputVisits(m, t, s)
  OBVIOUS
<1>4. /\ W[1 .. 0] = [m EXCEPT !.more = TRUE]
      /\ \A k \in 0 .. n : W[1 .. k] \in MergeState
      /\ \A k \in 0 .. n - 1 : W[1 .. k + 1] = Visit1(W[1 .. k], t, s[k + 1])
      /\ MergeTask(m, t) = W[1 .. n]
  BY <1>1, <1>2, <1>3, VisitsSteps
<1> DEFINE T == {l \in Nat : l <= n /\ W[1 .. l].ok => Inner(m, W[1 .. l], t, l)}
<1>5. 0 \in T
  <2> SUFFICES ASSUME W[1 .. 0].ok PROVE Inner(m, W[1 .. 0], t, 0)
    OBVIOUS
  <2>1. PICK r : r = W[1 .. 0]
    OBVIOUS
  <2>2. r.ok /\ r.more /\ r.buf = m.buf /\ r.filled = m.filled /\ m.ok
    BY <1>4, <2>1 DEF MergeState
  <2>3. \A i : ~Sees(t, 0, i)
    BY DEF Sees
  <2>4. FilledUpTo(m, t)
    BY <2>2
  <2>5. Inner(m, r, t, 0)
    BY <2>2, <2>3, <2>4 DEF Inner, FilledUpTo
  <2> QED BY <2>1, <2>5
<1>6. ASSUME NEW l \in Nat, l \in T PROVE l + 1 \in T
  <2> SUFFICES ASSUME l + 1 <= n, W[1 .. l + 1].ok PROVE Inner(m, W[1 .. l + 1], t, l + 1)
    <3>1. l + 1 \in Nat
      OBVIOUS
    <3> QED BY <3>1, Zenon
  <2>1. l \in 0 .. n - 1 /\ l \in 0 .. n /\ l <= n
    OBVIOUS
  <2>2. PICK r \in MergeState : r = W[1 .. l]
    BY <1>4, <2>1
  <2>3. W[1 .. l + 1] = Visit1(r, t, s[l + 1])
    BY <1>4, <2>1, <2>2
  <2>4. r.ok => Inner(m, r, t, l)
    BY <1>6, <2>1, <2>2, Zenon
  <2>5. l + 1 <= Len(tasks[t].inputs)
    BY <1>1, <1>2
  <2> QED BY <1>1, <2>3, <2>4, <2>5, InnerGoesOn
<1>7. PICK r : r = MergeTask(m, t)
  OBVIOUS
<1>8. Inner(m, r, t, n)
  <2>1. n \in T
    <3> HIDE DEF T
    <3> QED BY <1>5, <1>6, NatSetInduction
  <2>2. n <= n
    OBVIOUS
  <2>3. W[1 .. n].ok
    BY <1>4
  <2> QED BY <1>4, <1>7, <2>1, <2>2, <2>3, Zenon
<1>9. WellFormed(tasks[t]) => \A i \in Inputs : Sees(t, n, i)
  <2> SUFFICES ASSUME WellFormed(tasks[t]), NEW i \in Inputs PROVE Sees(t, n, i)
    OBVIOUS
  <2>1. i \in {x.name : x \in ToSet(s)}
    BY <1>1 DEF WellFormed
  <2>2. PICK j \in 1 .. n : s[j].name = i
    BY <1>2, <2>1 DEF ToSet
  <2> QED BY <1>1, <2>2 DEF Sees
<1>10. FilledUpTo(r, t + 1)
  <2>1. Start(t + 1) = Start(t) + Width(t)
    BY StartsAre
  <2>2. RowsBefore(t + 1) = RowsBefore(t) + tasks[t].rows
    <3>1. PICK k \in Nat : k = Len(tasks)
      BY DEF IOTyped
    <3> QED BY <3>1, RowsBeforeSteps
  <2>3. engine # "tensorrt" => \A i \in Inputs : Sees(t, n, i)
    BY <1>9 DEF GoodTask
  <2>4. \A i \in Inputs : engine = "tvm" => r.filled[i] = Start(t + 1)
    BY <1>8, <2>1, <2>3 DEF Inner
  <2>5. \A i \in Inputs : engine \in {"libtorch", "paddle"} => r.filled[i] = RowsBefore(t + 1)
    BY <1>8, <2>2, <2>3 DEF Inner
  <2> QED BY <2>4, <2>5 DEF FilledUpTo
<1>11. TaskTaken(m, r, t)
  BY <1>8, <1>9, <1>10 DEF TaskTaken, Inner
<1> QED BY <1>7, <1>11

LEMMA MergeTaskTyped ==
  ASSUME IOTyped, NEW t \in 1 .. Len(tasks), NEW m \in MergeState
  PROVE  MergeTask(m, t) \in MergeState
<1>1. PICK n \in Nat : n = Len(tasks[t].inputs)
  BY RequestIs DEF IOTyped
<1>2. PICK W : W = InputVisits(m, t, tasks[t].inputs)
  OBVIOUS
<1>3. /\ W[1 .. 0] = [m EXCEPT !.more = TRUE]
      /\ \A k \in 0 .. n : W[1 .. k] \in MergeState
      /\ \A k \in 0 .. n - 1 : W[1 .. k + 1] = Visit1(W[1 .. k], t, tasks[t].inputs[k + 1])
      /\ MergeTask(m, t) = W[1 .. n]
  BY <1>1, <1>2, VisitsSteps
<1>4. n \in 0 .. n
  OBVIOUS
<1> QED BY <1>3, <1>4

\* The merges of the tasks ids, as the fold makes them.
Merges(ids) == CHOOSE iter : iter = [S \in SUBSET (DOMAIN ids) |->
                 IF S = {} THEN Unfilled ELSE MergeTask(iter[S \ {Max(S)}], ids[Max(S)])]

LEMMA MergesSteps ==
  ASSUME IOTyped, NEW n \in Nat, n = Len(tasks), NEW W, W = Merges([i \in DOMAIN tasks |-> i])
  PROVE  /\ W[1 .. 0] = Unfilled
         /\ \A k \in 0 .. n : W[1 .. k] \in MergeState
         /\ \A k \in 0 .. n - 1 : W[1 .. k + 1] = MergeTask(W[1 .. k], k + 1)
         /\ Merged = W[1 .. n]
<1>1. PICK ids : ids = [i \in DOMAIN tasks |-> i]
  OBVIOUS
<1>2. DOMAIN tasks = 1 .. n /\ DOMAIN ids = 1 .. n /\ \A k \in 1 .. n : ids[k] = k
  BY <1>1 DEF IOTyped
<1>3. Unfilled \in MergeState
  <2>1. [u \in Units |-> Old] \in [Units -> Nat \X Nat]
    BY DEF Old
  <2>2. [i \in Inputs |-> [u \in Units |-> Old]] \in [Inputs -> [Units -> Nat \X Nat]]
    BY <2>1
  <2>3. [i \in Inputs |-> 0] \in [Inputs -> Nat]
    OBVIOUS
  <2> QED BY <2>2, <2>3 DEF Unfilled, MergeState
<1>4. ASSUME NEW d \in MergeState, NEW k \in 1 .. n PROVE MergeTask(d, k) \in MergeState
  <2>1. k \in 1 .. Len(tasks)
    OBVIOUS
  <2> QED BY <2>1, MergeTaskTyped
<1> DEFINE F(f, S) == IF S = {} THEN Unfilled ELSE MergeTask(f[S \ {Max(S)}], ids[Max(S)])
           g == [p \in MergeState \X (1 .. n) |-> MergeTask(p[1], p[2])]
<1>5. g \in [MergeState \X (1 .. n) -> MergeState] /\ \A d \in MergeState, k \in 1 .. n : g[<<d, k>>] = MergeTask(d, k)
  BY <1>4
<1>6. PICK f \in [SUBSET (1 .. n) -> MergeState] : Folded(f, n, Unfilled, g)
  <2> HIDE DEF g
  <2> QED BY <1>3, <1>5, FoldExists
<1>7. ASSUME NEW S \in SUBSET (1 .. n) PROVE f[S] = F(f, S)
  <2>1. f[S] = IF S = {} THEN Unfilled ELSE g[<<f[S \ {Max(S)}], Max(S)>>]
    <3> HIDE DEF g
    <3> QED BY <1>6, Zenon DEF Folded
  <2>2. CASE S = {}
    BY <2>1, <2>2
  <2>3. CASE S # {}
    <3>1. Max(S) \in 1 .. n /\ f[S \ {Max(S)}] \in MergeState
      BY <2>3, GreatestIn
    <3>2. ids[Max(S)] = Max(S)
      BY <1>2, <3>1
    <3> HIDE DEF g
    <3> QED BY <1>5, <2>1, <2>3, <3>1, <3>2
  <2> QED BY <2>2, <2>3
<1>8. f = [S \in SUBSET (1 .. n) |-> F(f, S)]
  <2> HIDE DEF F, g
  <2> QED BY <1>7
<1>9. W = [S \in SUBSET (1 .. n) |-> F(W, S)]
  <2>1. W = Merges(ids)
    BY <1>1
  <2>2. f = [S \in SUBSET (DOMAIN ids) |-> F(f, S)]
    BY <1>2, <1>8, Zenon
  <2>3. W = [S \in SUBSET (DOMAIN ids) |-> F(W, S)]
    BY <2>1, <2>2, Zenon DEF Merges
  <2> QED BY <1>2, <2>3, Zenon
<1>10. \A S \in SUBSET (1 .. n) : W[S] = F(W, S)
  <2> HIDE DEF F, g
  <2> QED BY <1>9
<1>11. W[1 .. 0] = Unfilled
  <2>1. 1 .. 0 = {} /\ {} \in SUBSET (1 .. n)
    BY UpTo
  <2> QED BY <1>10, <2>1
<1>12. ASSUME NEW k \in 0 .. n - 1 PROVE W[1 .. k + 1] = MergeTask(W[1 .. k], k + 1)
  <2>1. PICK S : S = 1 .. k + 1
    OBVIOUS
  <2>2. k \in Nat /\ k + 1 <= n /\ k + 1 \in 1 .. n
    OBVIOUS
  <2>3. Max(S) = k + 1 /\ S \ {k + 1} = 1 .. k /\ S # {}
    BY <2>1, <2>2, UpTo
  <2>4. S \in SUBSET (1 .. n)
    <3>1. \A x \in 1 .. k + 1 : x \in 1 .. n
      BY <2>2
    <3> QED BY <2>1, <3>1
  <2>5. W[S] = F(W, S)
    <3> HIDE DEF F, g
    <3> QED BY <1>10, <2>4
  <2> QED BY <1>2, <2>1, <2>2, <2>3, <2>5
<1> DEFINE T == {k \in Nat : k <= n => W[1 .. k] \in MergeState}
<1>13. 0 \in T
  BY <1>3, <1>11
<1>14. ASSUME NEW k \in Nat, k \in T PROVE k + 1 \in T
  <2> SUFFICES ASSUME k + 1 <= n PROVE W[1 .. k + 1] \in MergeState
    <3>1. k + 1 \in Nat
      OBVIOUS
    <3> QED BY <3>1, Zenon
  <2>1. k \in 0 .. n - 1 /\ k <= n /\ k + 1 \in 1 .. n
    OBVIOUS
  <2>2. W[1 .. k] \in MergeState
    BY <1>14, <2>1, Zenon
  <2> QED BY <1>4, <1>12, <2>1, <2>2
<1>15. ASSUME NEW k \in 0 .. n PROVE W[1 .. k] \in MergeState
  <2>1. k \in Nat /\ k <= n
    OBVIOUS
  <2>2. k \in T
    <3> HIDE DEF T
    <3> QED BY <1>13, <1>14, <2>1, NatSetInduction
  <2> QED BY <2>1, <2>2, Zenon
<1>16. Merged = W[1 .. n]
  BY <1>1, <1>2, Zenon DEF Merged, FoldLeftDomain, FoldLeft, MapThenFoldSet, Merges
<1> HIDE DEF F, g, T
<1> QED BY <1>11, <1>12, <1>15, <1>16

\* The tasks stand one behind the other, within the buffers.
LEMMA StartsGrow ==
  ASSUME IOTyped, NEW n \in Nat, n = Len(tasks), NEW t \in 1 .. n + 1, NEW s \in 1 .. n, s < t
  PROVE  /\ Start(s) \in Nat /\ Start(t) \in Nat /\ Width(s) \in Nat
         /\ Start(s) + Width(s) <= Start(t)
<1>1. PICK m \in Nat : m = t - 1
  OBVIOUS
<1>2. s \in 1 .. m /\ s \in 0 .. m /\ m \in 0 .. m /\ \A i \in 1 .. m : i \in 1 .. n
  BY <1>1
<1>3. HaveRows(tasks, m)
  BY <1>2, RequestIs DEF HaveRows, IOTyped
<1>4. RowsTo(tasks, s) <= RowsTo(tasks, m) /\ RowsTo(tasks, s) \in Nat /\ RowsTo(tasks, m) \in Nat
  BY <1>2, <1>3, RowsToIs
<1>5. RowsBefore(s + 1) = RowsTo(tasks, s) /\ RowsBefore(t) = RowsTo(tasks, m)
  <2>1. s + 1 \in Nat \ {0} /\ t \in Nat \ {0} /\ (s + 1) - 1 = s
    OBVIOUS
  <2> QED BY <1>1, <2>1, RowsBeforeIs
<1>6. PICK a \in Nat, b \in Nat, c \in Nat : a = RowUnits /\ b = RowsBefore(s + 1) /\ c = RowsBefore(t) /\ b <= c
  BY <1>4, <1>5, IOBounds
<1>7. a * b <= a * c /\ a * c \in Nat
  BY <1>6, TimesLess, TimesNext
<1>8. Start(s + 1) = Start(s) + Width(s)
  BY StartsAre
<1>9. Start(s) \in Nat /\ Width(s) \in Nat
  BY PlacesAre
<1> QED BY <1>6, <1>7, <1>8, <1>9 DEF Start

\* Once all tasks are merged, each well-formed one is in its own place.
AllTaken(m, t) ==
  /\ FilledUpTo(m, t + 1)
  /\ \A s \in 1 .. t : WellFormed(tasks[s]) =>
       \A i \in Inputs, u \in Units : IsOwn(s, u) => m.buf[i][u] = <<s, u - Start(s)>>

LEMMA MergedIs ==
  ASSUME IOTyped, NEW n \in Nat, n = Len(tasks), \A t \in 1 .. n : GoodTask(t), Merged.ok
  PROVE  AllTaken(Merged, n)
<1>1. PICK W : W = Merges([i \in DOMAIN tasks |-> i])
  OBVIOUS
<1>2. /\ W[1 .. 0] = Unfilled
      /\ \A k \in 0 .. n : W[1 .. k] \in MergeState
      /\ \A k \in 0 .. n - 1 : W[1 .. k + 1] = MergeTask(W[1 .. k], k + 1)
      /\ Merged = W[1 .. n]
  BY <1>1, MergesSteps
<1> DEFINE T == {t \in Nat : t <= n /\ W[1 .. t].ok => AllTaken(W[1 .. t], t)}
<1>3. 0 \in T
  <2>1. PICK m : m = W[1 .. 0]
    OBVIOUS
  <2>2. \A i \in Inputs : m.filled[i] = 0
    BY <1>2, <2>1 DEF Unfilled
  <2>3. RowsBefore(1) = 0 /\ Start(1) = 0
    <3>1. RowsBefore(1) = 0
      BY RowsBeforeSteps
    <3> QED BY <3>1, IOBounds DEF Start
  <2>4. FilledUpTo(m, 0 + 1)
    BY <2>2, <2>3 DEF FilledUpTo
  <2>5. AllTaken(m, 0)
    BY <2>4 DEF AllTaken
  <2> QED BY <2>1, <2>5
<1>4. ASSUME NEW t \in Nat, t \in T PROVE t + 1 \in T
  <2> SUFFICES ASSUME t + 1 <= n, W[1 .. t + 1].ok PROVE AllTaken(W[1 .. t + 1], t + 1)
    <3>1. t + 1 \in Nat
      OBVIOUS
    <3> QED BY <3>1, Zenon
  <2>1. t \in 0 .. n - 1 /\ t \in 0 .. n /\ t <= n /\ t + 1 \in 1 .. n /\ t + 1 \in 1 .. n + 1
    OBVIOUS
  <2>2. PICK m \in MergeState : m = W[1 .. t]
    BY <1>2, <2>1
  <2>3. PICK r : r = MergeTask(m, t + 1) /\ r = W[1 .. t + 1]
    BY <1>2, <2>1, <2>2
  <2>4. m.ok => AllTaken(m, t)
    BY <1>4, <2>1, <2>2, Zenon
  <2>5. m.ok => FilledUpTo(m, t + 1)
    BY <2>4 DEF AllTaken
  <2>6. TaskTaken(m, r, t + 1)
    <3>1. t + 1 \in 1 .. Len(tasks) /\ GoodTask(t + 1)
      BY <2>1
    <3>2. MergeTask(m, t + 1).ok
      BY <2>3
    <3> QED BY <2>3, <2>5, <3>1, <3>2, TaskIs
  <2>7. AllTaken(m, t)
    BY <2>4, <2>6 DEF TaskTaken
  <2>8. ASSUME NEW s \in 1 .. t + 1, WellFormed(tasks[s]), NEW i \in Inputs, NEW u \in Units, IsOwn(s, u)
        PROVE  r.buf[i][u] = <<s, u - Start(s)>>
    <3>1. CASE s = t + 1
      BY <2>6, <2>8, <3>1 DEF TaskTaken
    <3>2. CASE s # t + 1
      <4>1. s \in 1 .. t /\ s \in 1 .. n /\ s < t + 1
        BY <2>1, <3>2
      <4>2. Start(s) \in Nat /\ Start(t + 1) \in Nat /\ Width(s) \in Nat /\ Start(s) + Width(s) <= Start(t + 1)
        BY <2>1, <4>1, StartsGrow
      <4>3. u \in Int
        BY IOBounds DEF Units, Space
      <4>4. ~IsOwn(t + 1, u)
        BY <2>8, <4>2, <4>3 DEF IsOwn
      <4>5. r.buf[i][u] = m.buf[i][u]
        BY <2>6, <4>4 DEF TaskTaken
      <4>6. m.buf[i][u] = <<s, u - Start(s)>>
        BY <2>7, <2>8, <4>1 DEF AllTaken
      <4> QED BY <4>5, <4>6
    <3> QED BY <3>1, <3>2
  <2>9. AllTaken(r, t + 1)
    BY <2>6, <2>8 DEF AllTaken, TaskTaken
  <2> QED BY <2>3, <2>9
<1>5. n \in T /\ n <= n
  <2>1. n \in T
    <3> HIDE DEF T
    <3> QED BY <1>3, <1>4, NatSetInduction
  <2> QED BY <2>1
<1> QED BY <1>2, <1>5, Zenon

\* The invariant of InstanceIO: no batch has more rows than the buffers have room
\* for, and what was written for a task is its own.
IOInv == IOTyped /\ Total <= MaxBatchSize /\ OwnResults

\* Where the units of a row are.
UnitsFit(a, b, c, r, u) ==
  /\ (b + r - 1) * c + u - 1 = c * b + ((r - 1) * c + u - 1)
  /\ (r - 1) * c + u - 1 \in 0 .. a * c - 1

LEMMA UnitsAre == \A a, b, c \in Nat : \A r \in 1 .. a, u \in 1 .. c : UnitsFit(a, b, c, r, u)
<1> USE DEF UnitsFit
<1> SUFFICES ASSUME NEW a \in Nat, NEW b \in Nat, NEW c \in Nat, NEW r \in 1 .. a, NEW u \in 1 .. c
             PROVE  /\ (b + r - 1) * c + u - 1 = c * b + ((r - 1) * c + u - 1)
                    /\ (r - 1) * c + u - 1 \in 0 .. a * c - 1
  OBVIOUS
<1>1. PICK k \in Nat : k = r - 1 /\ k + 1 <= a
  OBVIOUS
<1>2. \A x, y, z \in Nat : (x + y) * z = z * x + y * z
  OBVIOUS
<1>3. (b + k) * c = c * b + k * c
  BY <1>2
<1>4. c * b \in Nat /\ k * c \in Nat /\ a * c \in Nat
  BY TimesNext
<1>5. k * c + c <= a * c
  <2>1. c * (k + 1) <= c * a /\ c * (k + 1) = c * k + c
    BY <1>1, TimesLess, TimesNext
  <2>2. \A x, y \in Nat : x * y = y * x
    OBVIOUS
  <2> QED BY <2>1, <2>2
<1>6. b + r - 1 = b + k
  BY <1>1
<1> QED BY <1>1, <1>3, <1>4, <1>5, <1>6

\* The rows a task gets are those the engine computed from its own.
LEMMA SplitIsOwn ==
  ASSUME IOTyped, Total <= MaxBatchSize, NEW k \in Nat, k = Len(tasks), \A s \in 1 .. k : GoodTask(s), Merged.ok,
         NEW n \in Computed(Merged), NEW t \in 1 .. k, WellFormed(tasks[t])
  PROVE  Split(Merged, n)[t] = Own(t)
<1>1. AllTaken(Merged, k)
  BY MergedIs
<1>2. PICK b \in Nat, a \in Nat, c \in Nat : b = RowsBefore(t) /\ a = tasks[t].rows /\ c = RowUnits /\ c > 0
  BY PlacesAre
<1>3. RowsBefore(t + 1) = b + a /\ RowsBefore(t + 1) <= RowsBefore(k + 1) /\ RowsBefore(k + 1) \in Nat
  <2>1. t + 1 \in 1 .. k + 1 /\ k + 1 \in 1 .. k + 1
    OBVIOUS
  <2> QED BY <1>2, <2>1, RowsBeforeSteps
<1>4. Total = RowsBefore(k + 1) /\ MaxBatchSize \in Nat
  BY IOBounds DEF Total
<1>5. b + a <= n /\ n \in Nat
  <2>1. CASE engine \in {"libtorch", "paddle"}
    <3>1. PICK i \in Inputs : n = Merged.filled[i]
      BY <2>1 DEF Computed
    <3>2. n = RowsBefore(k + 1)
      BY <1>1, <2>1, <3>1 DEF AllTaken, FilledUpTo
    <3> QED BY <1>3, <3>2
  <2>2. CASE engine = "tensorrt"
    <3>1. n = Total
      BY <2>2 DEF Computed
    <3> QED BY <1>3, <1>4, <3>1
  <2>3. CASE engine \notin {"libtorch", "paddle"} /\ engine # "tensorrt"
    <3>1. n = MaxBatchSize
      BY <2>3 DEF Computed
    <3> QED BY <1>3, <1>4, <3>1
  <2> QED BY <2>1, <2>2, <2>3
<1>6. ASSUME NEW r \in 1 .. a, NEW i \in Inputs, NEW u \in 1 .. c
      PROVE  OutputRow(Merged, n, b + r - 1)[i][u] = <<t, (r - 1) * c + u - 1>>
  <2>1. b + r - 1 < n
    BY <1>5
  <2>2. PICK v : v = (b + r - 1) * c + u - 1
    OBVIOUS
  <2>3. v = c * b + ((r - 1) * c + u - 1) /\ (r - 1) * c + u - 1 \in 0 .. a * c - 1
    <3>1. /\ (b + r - 1) * c + u - 1 = c * b + ((r - 1) * c + u - 1)
          /\ (r - 1) * c + u - 1 \in 0 .. a * c - 1
      <4>1. r \in 1 .. a /\ u \in 1 .. c /\ a \in Nat /\ b \in Nat /\ c \in Nat
        OBVIOUS
      <4>2. UnitsFit(a, b, c, r, u)
        BY <4>1, UnitsAre, Zenon
      <4> QED BY <4>2 DEF UnitsFit
    <3> QED BY <2>2, <3>1, Zenon
  <2>4. Start(t) = c * b /\ Width(t) = a * c /\ c * b \in Nat /\ a * c \in Nat
    BY <1>2, TimesNext DEF Start, Width
  <2>5. IsOwn(t, v) /\ v - Start(t) = (r - 1) * c + u - 1
    <3>1. PICK z \in 0 .. a * c - 1 : z = (r - 1) * c + u - 1
      BY <2>3
    <3>2. v = c * b + z
      BY <2>3, <3>1
    <3>3. v - c * b = z
      BY <2>4, <3>1, <3>2
    <3> QED BY <2>4, <3>1, <3>3 DEF IsOwn
  <2>6. v \in Units
    <3>1. PICK w \in Nat : w = b + a /\ w <= MaxBatchSize
      BY <1>3, <1>4
    <3>2. c * w <= c * MaxBatchSize /\ c * MaxBatchSize \in Nat
      BY <1>4, <3>1, TimesLess, TimesNext
    <3>3. c * w = c * b + a * c /\ c * MaxBatchSize = MaxBatchSize * c
      <4>1. \A x, y, z \in Nat : x * (y + z) = x * y + z * x
        OBVIOUS
      <4>2. \A x, y \in Nat : x * y = y * x
        OBVIOUS
      <4> QED BY <1>4, <3>1, <4>1, <4>2
    <3>4. PICK z \in 0 .. a * c - 1 : z = (r - 1) * c + u - 1
      BY <2>3
    <3>5. v = c * b + z
      BY <2>3, <3>4
    <3>6. v >= 0 /\ v <= c * MaxBatchSize - 1
      BY <2>4, <3>2, <3>3, <3>4, <3>5
    <3>7. v \in 0 .. c * MaxBatchSize - 1
      BY <2>4, <3>2, <3>4, <3>5, <3>6
    <3> QED BY <1>2, <3>3, <3>7 DEF Units, Space
  <2>7. Merged.buf[i][v] = <<t, v - Start(t)>>
    BY <1>1, <2>5, <2>6 DEF AllTaken
  <2>8. OutputRow(Merged, n, b + r - 1)[i][u] = Merged.buf[i][v]
    BY <1>2, <2>1, <2>2 DEF OutputRow
  <2> QED BY <2>5, <2>7, <2>8
<1>7. \A r \in 1 .. a : OutputRow(Merged, n, b + r - 1) = [i \in Inputs |-> [u \in 1 .. c |-> <<t, (r - 1) * c + u - 1>>]]
  <2> SUFFICES ASSUME NEW r \in 1 .. a
               PROVE OutputRow(Merged, n, b + r - 1) = [i \in Inputs |-> [u \in 1 .. c |-> <<t, (r - 1) * c + u - 1>>]]
    OBVIOUS
  <2>1. PICK o : o = OutputRow(Merged, n, b + r - 1)
    OBVIOUS
  <2>2. o = [i \in Inputs |-> [u \in 1 .. c |-> o[i][u]]]
    BY <1>2, <2>1 DEF OutputRow
  <2>3. \A i \in Inputs, u \in 1 .. c : o[i][u] = <<t, (r - 1) * c + u - 1>>
    BY <1>6, <2>1
  <2> QED BY <2>1, <2>2, <2>3
<1>8. Split(Merged, n)[t] = [r \in 1 .. a |-> OutputRow(Merged, n, b + r - 1)]
  <2>1. t \in DOMAIN tasks
    BY DEF IOTyped
  <2> QED BY <1>2, <2>1 DEF Split
<1>9. Own(t) = [r \in 1 .. a |-> [i \in Inputs |-> [u \in 1 .. c |-> <<t, (r - 1) * c + u - 1>>]]]
  BY <1>2 DEF Own
<1> QED BY <1>7, <1>8, <1>9

LEMMA OwnResultsFollow ==
  ASSUME IOInv, Run
  PROVE  OwnResults'
<1>1. PICK n \in Computed(Merged) : answer' = Split(Merged, n)
  BY DEF Run
<1>2. PICK k \in Nat : k = Len(tasks) /\ DOMAIN tasks = 1 .. k
  BY DEF IOInv, IOTyped
<1>3. Merged.ok /\ UNCHANGED <<engine, model, tasks>>
  BY DEF Run
<1>4. SUFFICES ASSUME NEW t \in 1 .. k, WellFormed(tasks[t]),
                      engine = "tensorrt" \/ \A s \in 1 .. k : WellFormed(tasks[s]),
                      engine = "paddle" => Len(model) = 1
               PROVE  answer'[t] = Own(t)
  <2>1. DOMAIN answer' = 1 .. k
    BY <1>1, <1>2 DEF Split
  <2>2. Inputs' = Inputs
    BY <1>3 DEF Inputs
  <2>3. \A q : WellFormed(q)' <=> WellFormed(q)
    BY <2>2 DEF WellFormed
  <2>4. \A t : Own(t)' = Own(t)
    BY <1>3, <2>2 DEF Own
  <2> QED BY <1>2, <1>3, <2>1, <2>3, <2>4 DEF OwnResults
<1>5. \A s \in 1 .. k : GoodTask(s)
  BY <1>4 DEF GoodTask
<1> QED BY <1>1, <1>2, <1>3, <1>4, <1>5, SplitIsOwn DEF IOInv

LEMMA IOInit_Inv == IOInit => IOInv
<1> SUFFICES ASSUME IOInit PROVE IOInv
  OBVIOUS
<1>1. IOTyped /\ tasks = <<>> /\ answer = <<>>
  BY DEF IOInit, IOTyped
<1>2. Total = 0
  <2>1. Len(tasks) = 0 /\ 0 + 1 = 1
    BY <1>1
  <2>2. RowsBefore(1) = 0
    BY <1>1, <2>1, RowsBeforeSteps
  <2> QED BY <2>1, <2>2 DEF Total
<1>3. OwnResults
  BY <1>1 DEF OwnResults
<1> QED BY <1>1, <1>2, <1>3, IOBounds DEF IOInv

\* The total grows by the rows of the task that joins.
LEMMA JoinKeeps ==
  ASSUME IOInv, NEW q \in Request, Join(q)
  PROVE  IOInv'
<1>1. PICK k \in Nat : k = Len(tasks) /\ DOMAIN tasks = 1 .. k
  BY DEF IOInv, IOTyped
<1>2. answer' = <<>> /\ tasks' = Append(tasks, q) /\ UNCHANGED <<engine, model>> /\ Total + q.rows <= MaxBatchSize
  BY DEF Join
<1>3. tasks' \in Seq(Request) /\ Len(tasks') = k + 1 /\ tasks'[k + 1] = q /\ \A i \in 1 .. k : tasks'[i] = tasks[i]
  BY <1>1, <1>2 DEF IOInv, IOTyped
<1>4. IOTyped'
  BY <1>2, <1>3 DEF IOInv, IOTyped
<1>5. HaveRows(tasks, k) /\ HaveRows(tasks', k + 1)
  <2>1. \A i \in 1 .. k : tasks[i] \in Request
    BY <1>1 DEF IOInv, IOTyped
  <2>2. \A i \in 1 .. k + 1 : tasks'[i] \in Request
    BY <1>3
  <2> QED BY <2>1, <2>2, RequestIs DEF HaveRows
<1>6. RowsTo(tasks', k + 1) = RowsTo(tasks', k) + q.rows
  <2>1. k + 1 \in 1 .. k + 1 /\ (k + 1) - 1 = k /\ k + 1 \in Nat
    OBVIOUS
  <2> QED BY <1>3, <1>5, <2>1, RowsToIs
<1>7. RowsTo(tasks', k) = RowsTo(tasks, k)
  <2>1. k \in 0 .. k
    OBVIOUS
  <2> QED BY <1>3, <1>5, <2>1, RowsOfPrefix
<1>8. Total = RowsTo(tasks, k)
  <2>1. k + 1 \in Nat \ {0} /\ (k + 1) - 1 = k
    OBVIOUS
  <2> QED BY <1>1, <2>1, RowsBeforeIs DEF Total
<1>9. Total' = RowsTo(tasks', k + 1)
  <2>1. PICK j : j = (k + 1) + 1 /\ j - 1 = k + 1
    OBVIOUS
  <2>2. Total' = RowsBefore(j)'
    BY <1>3, <2>1, Zenon DEF Total
  <2>3. RowsBefore(j)' = RowsTo(tasks', j - 1)
    BY Zenon DEF RowsBefore, RowsTo, SumOver, Picked, MapThenSumSet, MapThenFoldSet
  <2> QED BY <2>1, <2>2, <2>3
<1>10. OwnResults'
  BY <1>2 DEF OwnResults
<1> QED BY <1>2, <1>4, <1>6, <1>7, <1>8, <1>9, <1>10 DEF IOInv

\* Nothing that a batch is made of changes while it is answered.
LEMMA BatchStays ==
  ASSUME IOInv, UNCHANGED <<engine, model, tasks>>
  PROVE  IOTyped' /\ Total' = Total /\ (answer' = answer => OwnResults')
<1>1. IOTyped'
  BY DEF IOInv, IOTyped
<1>2. Total' = Total
  <2>1. PICK j : j = Len(tasks) + 1
    OBVIOUS
  <2>2. Total = RowsBefore(j) /\ RowsBefore(j) = RowsTo(tasks, j - 1)
    BY <2>1, Zenon DEF Total, RowsBefore, RowsTo, SumOver, Picked, MapThenSumSet, MapThenFoldSet
  <2>3. Total' = RowsBefore(j)'
    BY <2>1, Zenon DEF Total
  <2>4. RowsBefore(j)' = RowsTo(tasks', j - 1)
    BY Zenon DEF RowsBefore, RowsTo, SumOver, Picked, MapThenSumSet, MapThenFoldSet
  <2> QED BY <2>2, <2>3, <2>4
<1>3. Inputs' = Inputs
  BY DEF Inputs
<1>4. (\A q : WellFormed(q)' <=> WellFormed(q)) /\ \A t : Own(t)' = Own(t)
  BY <1>3 DEF WellFormed, Own
<1>5. answer' = answer => OwnResults'
  BY <1>4 DEF OwnResults, IOInv
<1> QED BY <1>1, <1>2, <1>5

LEMMA IONextKeeps == IOInv /\ [IONext]_iovars => IOInv'
<1> SUFFICES ASSUME IOInv, [IONext]_iovars PROVE IOInv'
  OBVIOUS
<1>1. CASE \E q \in Request : Join(q)
  BY <1>1, JoinKeeps
<1>2. ASSUME answer' = NoAnswers, UNCHANGED <<engine, model, tasks>> PROVE IOInv'
  <2>1. IOTyped' /\ Total' = Total
    BY <1>2, BatchStays
  <2>2. \A t \in DOMAIN answer' : answer'[t] = <<>>
    BY <1>2 DEF NoAnswers
  <2>3. OwnResults'
    BY <2>2 DEF OwnResults
  <2> QED BY <2>1, <2>3 DEF IOInv
<1>3. CASE Reject
  BY <1>2, <1>3 DEF Reject
<1>4. CASE EngineFails
  BY <1>2, <1>4 DEF EngineFails
<1>5. CASE Run
  <2>1. UNCHANGED <<engine, model, tasks>>
    BY <1>5 DEF Run
  <2> QED BY <1>5, <2>1, BatchStays, OwnResultsFollow DEF IOInv
<1>6. CASE NewBatch
  <2>1. tasks' = <<>> /\ answer' = <<>> /\ UNCHANGED <<engine, model>>
    BY <1>6 DEF NewBatch
  <2>2. IOTyped' /\ OwnResults'
    BY <2>1 DEF IOInv, IOTyped, OwnResults
  <2>3. Total' = 0
    <3>1. Len(tasks') = 0 /\ 0 + 1 = 1 /\ 1 - 1 = 0
      BY <2>1
    <3>2. Total' = RowsBefore(1)'
      BY <3>1, Zenon DEF Total
    <3>3. RowsBefore(1)' = RowsTo(tasks', 1 - 1)
      BY Zenon DEF RowsBefore, RowsTo, SumOver, Picked, MapThenSumSet, MapThenFoldSet
    <3>4. HaveRows(tasks', 0) /\ 0 \in Nat
      BY DEF HaveRows
    <3>5. RowsTo(tasks', 0) = 0
      BY <3>4, RowsToIs
    <3> QED BY <3>1, <3>2, <3>3, <3>5
  <2> QED BY <2>2, <2>3, IOBounds DEF IOInv
<1>7. CASE UNCHANGED iovars
  <2>1. UNCHANGED <<engine, model, tasks>> /\ answer' = answer
    BY <1>7 DEF iovars
  <2> QED BY <2>1, BatchStays DEF IOInv
<1> QED BY <1>1, <1>3, <1>4, <1>5, <1>6, <1>7 DEF IONext
-----------------------------------------------------------------------------
(***************************************************************************)
(* LiteBatch: the writers stand one task behind the other, the interpreter *)
(* has the rows of the last size it was made for.                          *)
(***************************************************************************)
LiteTyped == liteBatch \in Seq(LiteRequests)

LEMMA LiteRowsBeforeSteps ==
  ASSUME LiteTyped, NEW n \in Nat, n = Len(liteBatch)
  PROVE  /\ LiteRowsBefore(1) = 0
         /\ \A t \in 1 .. n + 1 : LiteRowsBefore(t) \in Nat /\ LiteRowsBefore(t) <= LiteRowsBefore(n + 1)
         /\ \A t \in 1 .. n : /\ liteBatch[t].rows \in Nat
                              /\ LiteRowsBefore(t + 1) = LiteRowsBefore(t) + liteBatch[t].rows
<1>1. \A t \in 1 .. n : liteBatch[t].rows \in Nat
  BY LiteRowsAreNumbers DEF LiteTyped
<1>2. HaveRows(liteBatch, n)
  BY <1>1 DEF HaveRows
<1>3. \A t \in 1 .. n + 1 : t \in Nat \ {0} /\ t - 1 \in 0 .. n
  OBVIOUS
<1>4. \A t : LiteRowsBefore(t) = RowsTo(liteBatch, t - 1)
  BY Zenon DEF LiteRowsBefore, RowsTo, SumOver, Picked, MapThenSumSet, MapThenFoldSet
<1>5. /\ RowsTo(liteBatch, 0) = 0
      /\ \A k \in 0 .. n : RowsTo(liteBatch, k) \in Nat /\ RowsTo(liteBatch, k) <= RowsTo(liteBatch, n)
      /\ \A k \in 1 .. n : RowsTo(liteBatch, k) = RowsTo(liteBatch, k - 1) + liteBatch[k].rows
  BY <1>2, RowsToIs
<1>6. 1 \in 1 .. n + 1 /\ n + 1 \in 1 .. n + 1 /\ (n + 1) - 1 = n /\ 1 - 1 = 0
  OBVIOUS
<1>7. \A t \in 1 .. n : t \in 1 .. n + 1 /\ t + 1 \in 1 .. n + 1 /\ (t + 1) - 1 = t
  OBVIOUS
<1> QED BY <1>1, <1>3, <1>4, <1>5, <1>6, <1>7

\* What the writer of an input has written after some tasks, as the fold makes it.
Writes(type, ids) == CHOOSE iter : iter = [S \in SUBSET (DOMAIN ids) |->
                       IF S = {} THEN Fresh(type) ELSE Write(type, iter[S \ {Max(S)}], ids[Max(S)])]

Pairs == Nat \X Nat

LEMMA WriteIsTyped ==
  ASSUME LiteTyped, NEW type
  PROVE  /\ Fresh(type) \in Seq(Pairs)
         /\ \A data \in Seq(Pairs), t \in 1 .. Len(liteBatch) : Write(type, data, t) \in Seq(Pairs)
<1>1. PICK n \in Nat : n = Len(liteBatch)
  BY DEF LiteTyped
<1>2. LiteTotal \in Nat
  <2>1. n + 1 \in 1 .. n + 1
    OBVIOUS
  <2> QED BY <1>1, <2>1, LiteRowsBeforeSteps DEF LiteTotal
<1>3. Fresh(type) \in Seq(Pairs)
  BY <1>2 DEF Fresh, Unspecified, Pairs
<1>4. ASSUME NEW data \in Seq(Pairs), NEW t \in 1 .. n PROVE Write(type, data, t) \in Seq(Pairs)
  <2>1. liteBatch[t].rows \in Nat
    BY <1>1, LiteRowsBeforeSteps
  <2>2. SentRows(t) \in Seq(Pairs) /\ DOMAIN SentRows(t) = 1 .. liteBatch[t].rows
    BY <2>1, SMTT(30) DEF SentRows, Pairs
  <2>3. WriteFlat(data, t) \in Seq(Pairs)
    <3>1. \A r \in DOMAIN data : <<t, r>> \in Pairs /\ data[r] \in Pairs
      BY DEF Pairs
    <3> QED BY <3>1 DEF WriteFlat
  <2>4. WriteString(data, t) \in Seq(Pairs)
    BY <2>2 DEF WriteString
  <2> QED BY <2>3, <2>4 DEF Write
<1> QED BY <1>1, <1>3, <1>4

WritesAre(W, type, i, n) ==
  /\ W[1 .. 0] = Fresh(type)
  /\ \A k \in 0 .. n : W[1 .. k] \in Seq(Pairs)
  /\ \A k \in 0 .. n - 1 : W[1 .. k + 1] = Write(type, W[1 .. k], k + 1)
  /\ MergedInput(i) = W[1 .. n]

LEMMA WritesSteps ==
  ASSUME LiteTyped, NEW i, NEW type, type = liteModel.inputs[i].type,
         NEW W, W = Writes(type, [t \in LiteTasks |-> t])
  PROVE  WritesAre(W, type, i, Len(liteBatch))
<1>0. PICK n \in Nat : n = Len(liteBatch)
  BY DEF LiteTyped
<1>1. PICK ids : ids = [t \in LiteTasks |-> t]
  OBVIOUS
<1>2. DOMAIN liteBatch = 1 .. n /\ DOMAIN ids = 1 .. n /\ \A k \in 1 .. n : ids[k] = k
  BY <1>0, <1>1 DEF LiteTyped, LiteTasks
<1> DEFINE D == Seq(Pairs)
<1>3. Fresh(type) \in D /\ \A d \in D, k \in 1 .. n : Write(type, d, k) \in D
  BY <1>0, WriteIsTyped
<1> DEFINE F(f, S) == IF S = {} THEN Fresh(type) ELSE Write(type, f[S \ {Max(S)}], ids[Max(S)])
           g == [p \in D \X (1 .. n) |-> Write(type, p[1], p[2])]
<1>5. g \in [D \X (1 .. n) -> D] /\ \A d \in D, k \in 1 .. n : g[<<d, k>>] = Write(type, d, k)
  <2> HIDE DEF D
  <2> QED BY <1>3
<1>6. PICK f \in [SUBSET (1 .. n) -> D] : Folded(f, n, Fresh(type), g)
  <2> HIDE DEF g, D
  <2> QED BY <1>3, <1>5, FoldExists
<1> HIDE DEF D
<1>7. ASSUME NEW S \in SUBSET (1 .. n) PROVE f[S] = F(f, S)
  <2>1. f[S] = IF S = {} THEN Fresh(type) ELSE g[<<f[S \ {Max(S)}], Max(S)>>]
    <3> HIDE DEF g
    <3> QED BY <1>6, Zenon DEF Folded
  <2>2. CASE S = {}
    BY <2>1, <2>2
  <2>3. CASE S # {}
    <3>1. Max(S) \in 1 .. n /\ f[S \ {Max(S)}] \in D
      BY <2>3, GreatestIn
    <3>2. ids[Max(S)] = Max(S)
      BY <1>2, <3>1
    <3> HIDE DEF g
    <3> QED BY <1>5, <2>1, <2>3, <3>1, <3>2
  <2> QED BY <2>2, <2>3
<1>8. f = [S \in SUBSET (1 .. n) |-> F(f, S)]
  <2> HIDE DEF F, g
  <2> QED BY <1>7
<1>9. W = [S \in SUBSET (1 .. n) |-> F(W, S)]
  <2>1. W = Writes(type, ids)
    BY <1>1
  <2>2. f = [S \in SUBSET (DOMAIN ids) |-> F(f, S)]
    BY <1>2, <1>8, Zenon
  <2>3. W = [S \in SUBSET (DOMAIN ids) |-> F(W, S)]
    BY <2>1, <2>2, Zenon DEF Writes
  <2> QED BY <1>2, <2>3, Zenon
<1>10. \A S \in SUBSET (1 .. n) : W[S] = F(W, S)
  <2> HIDE DEF F, g
  <2> QED BY <1>9
<1>11. W[1 .. 0] = Fresh(type)
  <2>1. 1 .. 0 = {} /\ {} \in SUBSET (1 .. n)
    BY UpTo
  <2> QED BY <1>10, <2>1
<1>12. ASSUME NEW k \in 0 .. n - 1 PROVE W[1 .. k + 1] = Write(type, W[1 .. k], k + 1)
  <2>1. PICK S : S = 1 .. k + 1
    OBVIOUS
  <2>2. k \in Nat /\ k + 1 <= n /\ k + 1 \in 1 .. n
    OBVIOUS
  <2>3. Max(S) = k + 1 /\ S \ {k + 1} = 1 .. k /\ S # {}
    BY <2>1, <2>2, UpTo
  <2>4. S \in SUBSET (1 .. n)
    <3>1. \A x \in 1 .. k + 1 : x \in 1 .. n
      BY <2>2
    <3> QED BY <2>1, <3>1
  <2>5. W[S] = F(W, S)
    <3> HIDE DEF F, g
    <3> QED BY <1>10, <2>4
  <2> QED BY <1>2, <2>1, <2>2, <2>3, <2>5
<1> DEFINE T == {k \in Nat : k <= n => W[1 .. k] \in D}
<1>13. 0 \in T
  BY <1>3, <1>11
<1>14. ASSUME NEW k \in Nat, k \in T PROVE k + 1 \in T
  <2> SUFFICES ASSUME k + 1 <= n PROVE W[1 .. k + 1] \in D
    <3>1. k + 1 \in Nat
      OBVIOUS
    <3> QED BY <3>1, Zenon
  <2>1. k \in 0 .. n - 1 /\ k <= n /\ k + 1 \in 1 .. n
    OBVIOUS
  <2>2. W[1 .. k] \in D
    BY <1>14, <2>1, Zenon
  <2> QED BY <1>3, <1>12, <2>1, <2>2
<1>15. ASSUME NEW k \in 0 .. n PROVE W[1 .. k] \in D
  <2>1. k \in Nat /\ k <= n
    OBVIOUS
  <2>2. k \in T
    <3> HIDE DEF T
    <3> QED BY <1>13, <1>14, <2>1, NatSetInduction
  <2> QED BY <2>1, <2>2, Zenon
<1>16. MergedInput(i) = W[1 .. n]
  <2>1. MergedInput(i) = Writes(liteModel.inputs[i].type, [t \in LiteTasks |-> t])[DOMAIN [t \in LiteTasks |-> t]]
    BY Zenon DEF MergedInput, FoldLeft, MapThenFoldSet, Writes
  <2>2. MergedInput(i) = Writes(type, ids)[DOMAIN ids]
    BY <1>1, <2>1
  <2> HIDE DEF F, g, T
  <2> QED BY <1>1, <1>2, <2>2
<1> HIDE DEF F, g, T
<1> QED BY <1>0, <1>11, <1>12, <1>15, <1>16 DEF D, WritesAre

\* The tasks of a batch stand one behind the other.
LEMMA LiteRowsGrow ==
  ASSUME LiteTyped, NEW n \in Nat, n = Len(liteBatch), NEW s \in 1 .. n, NEW t \in s + 1 .. n + 1
  PROVE  LiteRowsBefore(s + 1) <= LiteRowsBefore(t)
<1>1. PICK m \in Nat : m = t - 1
  OBVIOUS
<1>2. s \in 0 .. m /\ \A i \in 1 .. m : i \in 1 .. n
  BY <1>1
<1>3. HaveRows(liteBatch, m)
  BY <1>2, LiteRowsBeforeSteps DEF HaveRows
<1>4. RowsTo(liteBatch, s) <= RowsTo(liteBatch, m)
  BY <1>2, <1>3, RowsToIs
<1>5. \A k : LiteRowsBefore(k) = RowsTo(liteBatch, k - 1)
  BY Zenon DEF LiteRowsBefore, RowsTo, SumOver, Picked, MapThenSumSet, MapThenFoldSet
<1>6. (s + 1) - 1 = s
  OBVIOUS
<1> QED BY <1>1, <1>4, <1>5, <1>6

\* The rows of the first k tasks are where they belong, and there is no other.
Placed(data, k) ==
  /\ Len(data) = LiteRowsBefore(k + 1)
  /\ \A s \in 1 .. k : \A j \in 1 .. liteBatch[s].rows : data[LiteRowsBefore(s) + j] = <<s, j>>

\* The writer of strings puts the rows of every task where splitOutputs() looks for them.
LEMMA StringsArePlaced ==
  ASSUME LiteTyped, NEW n \in Nat, n = Len(liteBatch), NEW i, ~IsFlat(liteModel.inputs[i].type)
  PROVE  Placed(MergedInput(i), n)
<1>1. PICK type : type = liteModel.inputs[i].type
  OBVIOUS
<1>2. PICK W : W = Writes(type, [t \in LiteTasks |-> t])
  OBVIOUS
<1>3. /\ W[1 .. 0] = Fresh(type)
      /\ \A k \in 0 .. n : W[1 .. k] \in Seq(Pairs)
      /\ \A k \in 0 .. n - 1 : W[1 .. k + 1] = Write(type, W[1 .. k], k + 1)
      /\ MergedInput(i) = W[1 .. n]
  <2>1. WritesAre(W, type, i, Len(liteBatch))
    BY <1>1, <1>2, WritesSteps
  <2> QED BY <2>1 DEF WritesAre
<1>4. LiteRowsBefore(1) = 0
  BY LiteRowsBeforeSteps
<1> DEFINE T == {k \in Nat : k <= n => Placed(W[1 .. k], k)}
<1>5. 0 \in T
  <2>1. PICK d : d = W[1 .. 0]
    OBVIOUS
  <2>2. d = <<>> /\ Len(d) = 0
    BY <1>1, <1>3, <2>1 DEF Fresh
  <2>3. Placed(d, 0)
    BY <1>4, <2>2 DEF Placed
  <2> QED BY <2>1, <2>3
<1>6. ASSUME NEW k \in Nat, k \in T PROVE k + 1 \in T
  <2> SUFFICES ASSUME k + 1 <= n PROVE Placed(W[1 .. k + 1], k + 1)
    <3>1. k + 1 \in Nat
      OBVIOUS
    <3> QED BY <3>1, Zenon
  <2>1. k \in 0 .. n - 1 /\ k \in 0 .. n /\ k <= n /\ k + 1 \in 1 .. n /\ k + 1 \in 1 .. n + 1
    OBVIOUS
  <2>2. PICK d \in Seq(Pairs) : d = W[1 .. k]
    BY <1>3, <2>1
  <2>3. Placed(d, k)
    BY <1>6, <2>1, <2>2, Zenon
  <2>4. PICK e : e = d \o SentRows(k + 1) /\ e = W[1 .. k + 1]
    BY <1>1, <1>3, <2>1, <2>2 DEF Write, WriteString
  <2>5. PICK a \in Nat, r \in Nat : a = LiteRowsBefore(k + 1) /\ r = liteBatch[k + 1].rows /\ LiteRowsBefore((k + 1) + 1) = a + r
    BY <2>1, LiteRowsBeforeSteps
  <2>6. Len(d) = a
    BY <2>3, <2>5 DEF Placed
  <2>7. PICK sent \in Seq(Pairs) : sent = SentRows(k + 1) /\ sent = [j \in 1 .. r |-> <<k + 1, j>>] /\ Len(sent) = r
    <3>1. SentRows(k + 1) = [j \in 1 .. r |-> <<k + 1, j>>]
      BY <2>5 DEF SentRows
    <3>2. PICK z \in Nat : z = k + 1
      OBVIOUS
    <3>3. [j \in 1 .. r |-> <<z, j>>] \in Seq(Pairs) /\ Len([j \in 1 .. r |-> <<z, j>>]) = r
      BY DEF Pairs
    <3> QED BY <3>1, <3>2, <3>3
  <2>8. Len(e) = a + r
    <3>1. Len(d \o sent) = Len(d) + Len(sent)
      OBVIOUS
    <3> QED BY <2>4, <2>6, <2>7, <3>1
  <2>9. ASSUME NEW s \in 1 .. k + 1, NEW j \in 1 .. liteBatch[s].rows
        PROVE  e[LiteRowsBefore(s) + j] = <<s, j>>
    <3>1. CASE s = k + 1
      <4>1. j \in 1 .. r /\ LiteRowsBefore(s) + j = a + j
        BY <2>5, <3>1
      <4>2. e[a + j] = sent[j]
        BY <2>4, <2>6, <2>7, <4>1
      <4> QED BY <2>7, <3>1, <4>1, <4>2
    <3>2. CASE s # k + 1
      <4>1. s \in 1 .. k /\ s \in 1 .. n /\ s \in 1 .. n + 1 /\ k + 1 \in s + 1 .. n + 1
        BY <2>1, <3>2
      <4>2. PICK b \in Nat, q \in Nat : b = LiteRowsBefore(s) /\ q = liteBatch[s].rows /\ LiteRowsBefore(s + 1) = b + q
        BY <4>1, LiteRowsBeforeSteps
      <4>3. b + q <= a
        BY <2>5, <4>1, <4>2, LiteRowsGrow
      <4>4. j \in 1 .. q /\ b + j \in 1 .. a
        BY <4>2, <4>3
      <4>5. e[b + j] = d[b + j]
        BY <2>4, <2>6, <2>7, <4>4
      <4>6. d[b + j] = <<s, j>>
        BY <2>3, <4>1, <4>2 DEF Placed
      <4> QED BY <4>2, <4>5, <4>6
    <3> QED BY <3>1, <3>2
  <2>10. Placed(e, k + 1)
    BY <2>5, <2>8, <2>9 DEF Placed
  <2> QED BY <2>4, <2>10
<1>7. n \in T /\ n <= n
  <2>1. n \in T
    <3> HIDE DEF T
    <3> QED BY <1>5, <1>6, NatSetInduction
  <2> QED BY <2>1
<1> QED BY <1>3, <1>7, Zenon

\* A task that is alone gets its own rows, whatever the type of the input.
LEMMA AloneIsPlaced ==
  ASSUME LiteTyped, Len(liteBatch) = 1, NEW i
  PROVE  Placed(MergedInput(i), 1)
<1>1. CASE ~IsFlat(liteModel.inputs[i].type)
  BY <1>1, StringsArePlaced
<1>2. CASE IsFlat(liteModel.inputs[i].type)
  <2>1. PICK type : type = liteModel.inputs[i].type
    OBVIOUS
  <2>2. PICK W : W = Writes(type, [t \in LiteTasks |-> t])
    OBVIOUS
  <2>3. PICK n \in Nat : n = Len(liteBatch)
    OBVIOUS
  <2>0. n = 1
    BY <2>3
  <2>4. W[1 .. 0] = Fresh(type) /\ W[1 .. 0 + 1] = Write(type, W[1 .. 0], 0 + 1) /\ MergedInput(i) = W[1 .. n]
    <3>1. 0 \in 0 .. n - 1
      BY <2>0
    <3>2. WritesAre(W, type, i, n)
      BY <2>1, <2>2, <2>3, WritesSteps
    <3> QED BY <3>1, <3>2 DEF WritesAre
  <2>5. MergedInput(i) = WriteFlat(Fresh(type), 1)
    <3>1. 0 + 1 = 1
      OBVIOUS
    <3> QED BY <1>2, <2>0, <2>1, <2>4, <3>1 DEF Write
  <2>6. PICK r \in Nat : r = liteBatch[1].rows /\ LiteRowsBefore(1) = 0 /\ LiteRowsBefore(2) = r
    <3>1. 1 \in 1 .. n /\ 1 + 1 = 2
      BY <2>0
    <3>2. PICK z \in Nat : z = liteBatch[1].rows /\ LiteRowsBefore(1) = 0 /\ LiteRowsBefore(2) = LiteRowsBefore(1) + z
      BY <2>3, <3>1, LiteRowsBeforeSteps
    <3> QED BY <3>2
  <2>7. Fresh(type) = [x \in 1 .. r |-> Unspecified]
    <3>1. LiteTotal = r
      BY <2>6 DEF LiteTotal
    <3> QED BY <1>2, <2>1, <3>1 DEF Fresh
  <2>8. MergedInput(i) = [x \in 1 .. r |-> <<1, x>>]
    <3>1. DOMAIN Fresh(type) = 1 .. r /\ DOMAIN SentRows(1) = 1 .. r
      BY <2>6, <2>7 DEF SentRows
    <3> QED BY <2>5, <3>1 DEF WriteFlat
  <2>9. Len(MergedInput(i)) = r
    BY <2>8
  <2>10. \A j \in 1 .. r : MergedInput(i)[0 + j] = <<1, j>>
    BY <2>8
  <2> QED BY <2>6, <2>9, <2>10 DEF Placed
<1> QED BY <1>1, <1>2

\* The invariant of LiteBatch: an interpreter that can be used has in every input
\* the rows of the last size.
LiteInv ==
  /\ LiteTyped
  /\ liteState = "new" => liteBatch = <<>> /\ liteAnswer = <<>>
  /\ liteUsable => \A i \in LiteInputs : liteRows[i] = liteLast
  /\ LiteOwnRows

LEMMA LiteInit_Inv == LiteInit => LiteInv
BY DEF LiteInit, LiteInv, LiteTyped, LiteOwnRows

LEMMA CreatedKeeps == LiteInv /\ Created => LiteInv'
<1> SUFFICES ASSUME LiteInv, Created PROVE LiteInv'
  OBVIOUS
<1>1. UNCHANGED <<liteModel, liteBatch, liteAnswer>> /\ liteAnswer = <<>> /\ liteState' = "ready"
  BY DEF Created, LiteInv
<1>2. \A i, j \in LiteInputs : RowsOf(liteModel.inputs[i]) = RowsOf(liteModel.inputs[j])
  BY DEF Created, Declares, HasSignature, LiteInputs
<1>3. \A i \in LiteInputs' : liteRows'[i] = liteLast'
  <2>1. PICK j \in LiteInputs : liteLast' = RowsOf(liteModel.inputs[j])
    BY DEF Created
  <2>2. liteRows' = [i \in LiteInputs |-> RowsOf(liteModel.inputs[i])]
    BY DEF Created
  <2>3. LiteInputs' = LiteInputs
    BY <1>1 DEF LiteInputs
  <2> QED BY <1>2, <2>1, <2>2, <2>3
<1>4. LiteOwnRows'
  BY <1>1 DEF LiteOwnRows
<1> QED BY <1>1, <1>3, <1>4 DEF LiteInv, LiteTyped

\* No task is answered with its rows: there is nothing to be wrong.
LEMMA NoneAnsweredOk ==
  ASSUME \A t \in DOMAIN liteAnswer' : ~liteAnswer'[t].ok
  PROVE  LiteOwnRows'
BY DEF LiteOwnRows, AnsweredOk

LEMMA FailAllIs == FailAll => \A t \in DOMAIN liteAnswer' : ~liteAnswer'[t].ok
BY DEF FailAll

LEMMA LiteTotalStays == liteBatch' = liteBatch => LiteTotal' = LiteTotal
<1> SUFFICES ASSUME liteBatch' = liteBatch PROVE LiteTotal' = LiteTotal
  OBVIOUS
<1>1. PICK k : k = Len(liteBatch) + 1
  OBVIOUS
<1>2. LiteTotal = LiteRowsBefore(k) /\ LiteTotal' = LiteRowsBefore(k)'
  BY <1>1, Zenon DEF LiteTotal
<1>3. LiteRowsBefore(k) = RowsTo(liteBatch, k - 1) /\ LiteRowsBefore(k)' = RowsTo(liteBatch', k - 1)
  BY Zenon DEF LiteRowsBefore, RowsTo, SumOver, Picked, MapThenSumSet, MapThenFoldSet
<1> QED BY <1>2, <1>3

LEMMA ResizedIs ==
  ASSUME LiteInv, Resized
  PROVE  /\ LiteTyped' /\ liteState' # "new" /\ LiteTotal' = LiteTotal
         /\ liteUsable' => \A i \in LiteInputs' : liteRows'[i] = liteLast' /\ liteLast' = LiteTotal
<1>1. UNCHANGED <<liteModel, liteState, liteBatch>> /\ liteLast' = LiteTotal /\ liteBatch # <<>>
  BY DEF Resized, Ran
<1>2. LiteInputs' = LiteInputs
  BY <1>1 DEF LiteInputs
<1>3. LiteTotal' = LiteTotal
  BY <1>1, LiteTotalStays
<1>4. ASSUME liteUsable', NEW i \in LiteInputs PROVE liteRows'[i] = LiteTotal
  <2>1. CASE Resizes
    BY <2>1 DEF Resized
  <2>2. CASE ~Resizes
    BY <1>4, <2>2 DEF Resized, LiteInv, Resizes
  <2> QED BY <2>1, <2>2
<1> QED BY <1>1, <1>2, <1>3, <1>4 DEF LiteInv, LiteTyped

LEMMA RunBatchKeeps == LiteInv /\ RunBatch => LiteInv'
<1> SUFFICES ASSUME LiteInv, RunBatch PROVE LiteInv'
  OBVIOUS
<1>1. /\ LiteTyped' /\ liteState' # "new" /\ LiteTotal' = LiteTotal
      /\ liteUsable' => \A i \in LiteInputs' : liteRows'[i] = liteLast' /\ liteLast' = LiteTotal
  BY ResizedIs DEF RunBatch
<1>2. liteUsable' /\ UNCHANGED <<liteModel, liteState, liteBatch>>
      /\ liteAnswer' = [t \in LiteTasks |-> [ok |-> TRUE, rows |-> Result(t)]]
  BY DEF RunBatch, Resized
<1>3. PICK n \in Nat : n = Len(liteBatch) /\ LiteTasks = 1 .. n
  BY DEF LiteInv, LiteTyped, LiteTasks
<1>4. ASSUME NEW t \in 1 .. n, liteBatch[t].wants,
             Len(liteBatch) = 1 \/ (\A i \in LiteInputs : ~IsFlat(liteModel.inputs[i].type))
      PROVE  Result(t) = OwnRows(t)
  <2>1. ASSUME NEW i \in LiteInputs PROVE Placed(MergedInput(i), n)
    BY <1>3, <1>4, AloneIsPlaced, StringsArePlaced DEF LiteInv
  <2>2. ASSUME NEW i \in LiteInputs, NEW k \in 1 .. liteBatch[t].rows
        PROVE  MergedInput(i)[FirstRow(t) + k] = <<t, k>>
    BY <2>1 DEF FirstRow, Placed
  <2>3. ASSUME NEW k \in 1 .. liteBatch[t].rows
        PROVE  ResultRow(FirstRow(t) + k) = [i \in LiteInputs |-> <<t, k>>]
    BY <2>2 DEF ResultRow
  <2>4. Result(t) = [k \in 1 .. liteBatch[t].rows |-> ResultRow(FirstRow(t) + k)]
    BY <1>4 DEF Result
  <2> QED BY <2>3, <2>4 DEF OwnRows
<1>5. LiteInputs' = LiteInputs /\ DOMAIN liteAnswer' = 1 .. n /\ \A t : OwnRows(t)' = OwnRows(t)
  <2>1. LiteInputs' = LiteInputs
    BY <1>2 DEF LiteInputs
  <2> QED BY <1>2, <1>3, <2>1 DEF OwnRows
<1>6. LiteOwnRows'
  <2> SUFFICES ASSUME NEW t \in 1 .. n, AnsweredOk(t)'
               PROVE  /\ \A i \in LiteInputs' : liteRows'[i] = LiteTotal'
                      /\ Len(liteBatch') = 1 \/ (\A i \in LiteInputs' : ~IsFlat(liteModel'.inputs[i].type))
                           => liteAnswer'[t].rows = OwnRows(t)'
    BY <1>5 DEF LiteOwnRows
  <2>1. liteBatch[t].wants
    BY <1>2 DEF AnsweredOk
  <2>2. liteAnswer'[t].rows = Result(t)
    BY <1>2, <1>3
  <2> QED BY <1>1, <1>2, <1>4, <1>5, <2>1, <2>2
<1> QED BY <1>1, <1>2, <1>6 DEF LiteInv

LEMMA LiteNextKeeps == LiteInv /\ [LiteNext]_livars => LiteInv'
<1> SUFFICES ASSUME LiteInv, [LiteNext]_livars PROVE LiteInv'
  OBVIOUS
<1>1. ASSUME LiteTyped', liteState' # "new", FailAll, liteUsable' => \A i \in LiteInputs' : liteRows'[i] = liteLast'
      PROVE  LiteInv'
  BY <1>1, FailAllIs, NoneAnsweredOk DEF LiteInv
<1>2. CASE Refused
  <2>1. UNCHANGED <<liteModel, liteRows, liteUsable, liteLast, liteBatch, liteAnswer>> /\ liteAnswer = <<>> /\ liteState' = "refused"
    BY <1>2 DEF Refused, LiteInv
  <2>2. LiteOwnRows'
    BY <2>1 DEF LiteOwnRows
  <2> QED BY <2>1, <2>2 DEF LiteInv, LiteTyped, LiteInputs
<1>3. CASE Created
  BY <1>3, CreatedKeeps
<1>4. CASE \E q \in LiteRequests : LiteJoin(q)
  <2>1. PICK q \in LiteRequests : LiteJoin(q)
    BY <1>4
  <2>2. UNCHANGED <<liteModel, liteState, liteRows, liteUsable, liteLast, liteAnswer>> /\ liteAnswer = <<>>
        /\ liteState = "ready" /\ liteBatch' = Append(liteBatch, q)
    BY <2>1 DEF LiteJoin
  <2>3. LiteTyped'
    BY <2>2 DEF LiteTyped, LiteInv
  <2>4. LiteOwnRows'
    BY <2>2 DEF LiteOwnRows
  <2> QED BY <2>2, <2>3, <2>4 DEF LiteInv, LiteInputs
<1>5. CASE RejectBatch
  <2>1. UNCHANGED <<liteModel, liteState, liteRows, liteUsable, liteLast, liteBatch>> /\ liteBatch # <<>> /\ FailAll
    BY <1>5 DEF RejectBatch, Ran
  <2> QED BY <1>1, <2>1 DEF LiteInv, LiteTyped, LiteInputs
<1>6. CASE ResizeFails
  <2>1. UNCHANGED <<liteModel, liteState, liteLast, liteBatch>> /\ liteBatch # <<>> /\ FailAll /\ liteUsable' = FALSE
    BY <1>6 DEF ResizeFails, Ran
  <2> QED BY <1>1, <2>1 DEF LiteInv, LiteTyped
<1>7. CASE BatchFails
  <2>1. LiteTyped' /\ liteState' # "new" /\ (liteUsable' => \A i \in LiteInputs' : liteRows'[i] = liteLast') /\ FailAll
    BY <1>7, ResizedIs DEF BatchFails
  <2> QED BY <1>1, <2>1
<1>8. CASE RunBatch
  BY <1>8, RunBatchKeeps
<1>9. CASE NextBatch
  <2>1. UNCHANGED <<liteModel, liteState, liteRows, liteUsable, liteLast>> /\ liteBatch' = <<>> /\ liteAnswer' = <<>>
    BY <1>9 DEF NextBatch
  <2> QED BY <2>1 DEF LiteInv, LiteTyped, LiteInputs, LiteOwnRows
<1>10. CASE UNCHANGED livars
  <2>1. UNCHANGED <<liteModel, liteState, liteRows, liteUsable, liteLast, liteBatch, liteAnswer>>
    BY <1>10 DEF livars
  <2>2. LiteTotal' = LiteTotal /\ LiteInputs' = LiteInputs
    BY <2>1, LiteTotalStays DEF LiteInputs
  <2>3. LiteOwnRows'
    BY <2>1, <2>2 DEF LiteOwnRows, AnsweredOk, OwnRows, LiteInv
  <2> QED BY <2>1, <2>2, <2>3 DEF LiteInv, LiteTyped
<1> QED BY <1>2, <1>3, <1>4, <1>5, <1>6, <1>7, <1>8, <1>9, <1>10 DEF LiteNext
-----------------------------------------------------------------------------
(***************************************************************************)
(* TfBatch: what is merged is all of the tasks' rows or less than their    *)
(* sum, and then the output cannot be split.                               *)
(***************************************************************************)
\* One more sequence goes behind those that are concatenated.
LEMMA FlattenNext ==
  ASSUME NEW S, NEW s \in Seq(Seq(S)), NEW x \in Seq(S)
  PROVE  FlattenSeq(Append(s, x)) = FlattenSeq(s) \o x /\ FlattenSeq(<<>>) = <<>>
<1>1. PICK n \in Nat : n = Len(s)
  OBVIOUS
<1>2. PICK p : p = Append(s, x)
  OBVIOUS
<1>3. Len(p) = n + 1 /\ p[n + 1] = x /\ \A i \in 1 .. n : p[i] = s[i]
  BY <1>1, <1>2
<1>4. PICK h : h = Flattened(p)
  OBVIOUS
<1>5. FlattenSeq(p) = h[n + 1]
  <2>1. Len(p) # 0
    BY <1>3
  <2> QED BY <1>3, <1>4, <2>1, Zenon DEF FlattenSeq, Flattened
<1>6. \A i \in 1 .. n + 1 : h[i] = IF i = 1 THEN p[i] ELSE h[i - 1] \o p[i]
  <2>1. n + 1 \in Nat
    OBVIOUS
  <2>2. Flattened(p) = [i \in 1 .. n + 1 |-> IF i = 1 THEN p[i] ELSE Flattened(p)[i - 1] \o p[i]]
    BY <1>3, <2>1, FlattenedIs
  <2>3. h = [i \in 1 .. n + 1 |-> IF i = 1 THEN p[i] ELSE h[i - 1] \o p[i]]
    BY <1>4, <2>2, Zenon
  <2> QED BY <2>3
<1>7. Len(<<>>) = 0
  OBVIOUS
<1>8. FlattenSeq(<<>>) = <<>>
  BY <1>7, Zenon DEF FlattenSeq
<1>9. CASE n = 0
  <2>1. s = <<>> /\ n + 1 = 1 /\ 1 \in 1 .. n + 1
    <3>1. s = <<>>
      BY <1>1, <1>9, EmptySeq
    <3> QED BY <1>9, <3>1
  <2>2. h[1] = p[1] /\ p[1] = x
    BY <1>3, <1>6, <2>1
  <2>3. <<>> \o x = x
    OBVIOUS
  <2> QED BY <1>2, <1>5, <1>8, <2>1, <2>2, <2>3
<1>10. CASE n # 0
  <2>1. PICK f : f = Flattened(s)
    OBVIOUS
  <2>2. FlattenSeq(s) = f[n]
    BY <1>1, <1>10, <2>1, Zenon DEF FlattenSeq, Flattened
  <2>3. \A i \in 1 .. n : f[i] = IF i = 1 THEN s[i] ELSE f[i - 1] \o s[i]
    <3>1. Flattened(s) = [i \in 1 .. n |-> IF i = 1 THEN s[i] ELSE Flattened(s)[i - 1] \o s[i]]
      BY <1>1, FlattenedIs
    <3>2. f = [i \in 1 .. n |-> IF i = 1 THEN s[i] ELSE f[i - 1] \o s[i]]
      BY <2>1, <3>1, Zenon
    <3> QED BY <3>2
  <2> DEFINE T == {m \in Nat : m + 1 <= n => f[m + 1] = h[m + 1]}
  <2>4. 0 \in T
    <3>1. 0 + 1 = 1 /\ 1 \in 1 .. n /\ 1 \in 1 .. n + 1
      BY <1>10
    <3> QED BY <1>3, <1>6, <2>3, <3>1
  <2>5. ASSUME NEW m \in Nat, m \in T PROVE m + 1 \in T
    <3> SUFFICES ASSUME (m + 1) + 1 <= n PROVE f[(m + 1) + 1] = h[(m + 1) + 1]
      OBVIOUS
    <3>1. /\ m + 1 <= n /\ m + 2 \in 1 .. n /\ m + 2 \in 1 .. n + 1 /\ m + 2 # 1
          /\ (m + 2) - 1 = m + 1 /\ (m + 1) + 1 = m + 2
      OBVIOUS
    <3>2. f[m + 1] = h[m + 1] /\ p[m + 2] = s[m + 2]
      BY <1>3, <2>5, <3>1
    <3>3. f[m + 2] = f[m + 1] \o s[m + 2] /\ h[m + 2] = h[m + 1] \o p[m + 2]
      BY <1>6, <2>3, <3>1
    <3> QED BY <3>1, <3>2, <3>3
  <2>6. n - 1 \in T
    <3>1. n - 1 \in Nat
      BY <1>10
    <3> HIDE DEF T
    <3> QED BY <2>4, <2>5, <3>1, NatSetInduction
  <2>7. f[n] = h[n]
    <3>1. (n - 1) + 1 = n /\ n <= n
      OBVIOUS
    <3> QED BY <2>6, <3>1
  <2>8. h[n + 1] = h[n] \o p[n + 1]
    <3>1. n + 1 \in 1 .. n + 1 /\ n + 1 # 1 /\ (n + 1) - 1 = n
      BY <1>10
    <3> QED BY <1>6, <3>1
  <2> QED BY <1>2, <1>3, <1>5, <1>8, <2>2, <2>7, <2>8
<1> QED BY <1>9, <1>10

\* What stands where in two sequences one behind the other.
Joined(c, a, b) ==
  /\ Len(c) = Len(a) + Len(b)
  /\ \A j \in 1 .. Len(a) : c[j] = a[j]
  /\ \A j \in 1 .. Len(b) : c[Len(a) + j] = b[j]

LEMMA Behind ==
  ASSUME NEW S, NEW a \in Seq(S), NEW b \in Seq(S)
  PROVE  a \o b \in Seq(S) /\ Joined(a \o b, a, b)
BY DEF Joined

Tensor == [len : Nat, rows : Seq(Nat \X Nat)]

\* The rows of merged tensors, one behind the other.
Flat(m) == FlattenSeq([i \in DOMAIN m |-> m[i].rows])

LEMMA FlatNext ==
  ASSUME NEW m \in Seq(Tensor), NEW x \in Tensor
  PROVE  /\ Flat(<<>>) = <<>>
         /\ Flat(Append(m, x)) = Flat(m) \o x.rows
         /\ Flat(m) \in Seq(Nat \X Nat) /\ Append(m, x) \in Seq(Tensor)
<1>1. PICK n \in Nat : n = Len(m) /\ DOMAIN m = 1 .. n
  OBVIOUS
<1>2. PICK s : s = [i \in DOMAIN m |-> m[i].rows]
  OBVIOUS
<1>3. s \in Seq(Seq(Nat \X Nat)) /\ Len(s) = n
  <2>1. \A i \in 1 .. n : m[i].rows \in Seq(Nat \X Nat)
    <3>1. \A i \in 1 .. n : m[i] \in Tensor
      BY <1>1
    <3>2. \A y \in Tensor : y.rows \in Seq(Nat \X Nat)
      BY DEF Tensor
    <3> QED BY <3>1, <3>2
  <2> QED BY <1>1, <1>2, <2>1
<1>4. x.rows \in Seq(Nat \X Nat)
  BY DEF Tensor
<1>5. PICK p : p = Append(m, x)
  OBVIOUS
<1>6. p \in Seq(Tensor) /\ DOMAIN p = 1 .. n + 1 /\ p[n + 1] = x /\ \A i \in 1 .. n : p[i] = m[i]
  BY <1>1, <1>5
<1>7. [i \in DOMAIN p |-> p[i].rows] = Append(s, x.rows)
  <2>1. DOMAIN Append(s, x.rows) = 1 .. n + 1 /\ Append(s, x.rows)[n + 1] = x.rows
        /\ \A i \in 1 .. n : Append(s, x.rows)[i] = s[i]
    BY <1>3, <1>4
  <2>2. \A i \in 1 .. n : s[i] = m[i].rows
    BY <1>1, <1>2
  <2>3. \A i \in 1 .. n + 1 : i = n + 1 \/ i \in 1 .. n
    OBVIOUS
  <2>4. \A i \in 1 .. n + 1 : p[i].rows = Append(s, x.rows)[i]
    BY <1>6, <2>1, <2>2, <2>3
  <2>5. Append(s, x.rows) = [i \in 1 .. n + 1 |-> Append(s, x.rows)[i]]
    BY <1>3, <1>4, <2>1
  <2> QED BY <1>6, <2>4, <2>5
<1>8. Flat(p) = Flat(m) \o x.rows
  <2>1. FlattenSeq(Append(s, x.rows)) = FlattenSeq(s) \o x.rows
    BY <1>3, <1>4, FlattenNext
  <2> QED BY <1>2, <1>7, <2>1 DEF Flat
<1>9. Flat(<<>>) = <<>>
  <2>1. FlattenSeq(<<>>) = <<>>
    BY <1>3, <1>4, FlattenNext
  <2>2. [i \in DOMAIN <<>> |-> <<>>[i].rows] = <<>>
    OBVIOUS
  <2> QED BY <2>1, <2>2 DEF Flat
<1>10. Flat(m) \in Seq(Nat \X Nat)
  BY <1>2, <1>3, FlattenIsSeq DEF Flat
<1> QED BY <1>5, <1>6, <1>8, <1>9, <1>10

\* Padding: so many times the same single row.
LEMMA FlatRepeats ==
  ASSUME NEW m \in Seq(Tensor), NEW x \in Tensor, Len(x.rows) = 1, NEW n \in Nat
  PROVE  /\ m \o [i \in 1 .. n |-> x] \in Seq(Tensor)
         /\ Flat(m \o [i \in 1 .. n |-> x]) = Flat(m) \o [i \in 1 .. n |-> Head(x.rows)]
<1> DEFINE MoreRows(k) == m \o [i \in 1 .. k |-> x]
           T == {k \in Nat : MoreRows(k) \in Seq(Tensor) /\ Flat(MoreRows(k)) = Flat(m) \o [i \in 1 .. k |-> Head(x.rows)]}
<1>1. Flat(m) \in Seq(Nat \X Nat)
  BY FlatNext
<1>2. PICK z \in Nat \X Nat : z = Head(x.rows) /\ x.rows = <<z>>
  <2>1. x.rows \in Seq(Nat \X Nat)
    BY DEF Tensor
  <2> QED BY <2>1
<1>3. 0 \in T
  <2>1. [i \in 1 .. 0 |-> x] = <<>> /\ [i \in 1 .. 0 |-> z] = <<>>
    OBVIOUS
  <2>2. m \o <<>> = m /\ Flat(m) \o <<>> = Flat(m)
    BY <1>1
  <2> QED BY <1>2, <2>1, <2>2
<1>4. ASSUME NEW k \in Nat, k \in T PROVE k + 1 \in T
  <2>1. PICK a \in Seq(Tensor) : a = MoreRows(k) /\ Flat(a) = Flat(m) \o [i \in 1 .. k |-> z]
    BY <1>2, <1>4
  <2>2. MoreRows(k + 1) = Append(a, x)
    <3>1. PICK l \in Nat : l = Len(m)
      OBVIOUS
    <3>2. [i \in 1 .. k + 1 |-> x] \in Seq(Tensor) /\ [i \in 1 .. k |-> x] \in Seq(Tensor)
      OBVIOUS
    <3>3. [i \in 1 .. k + 1 |-> x] = Append([i \in 1 .. k |-> x], x)
      BY <3>2
    <3>4. \A b, c \in Seq(Tensor) : b \o Append(c, x) = Append(b \o c, x)
      OBVIOUS
    <3> QED BY <2>1, <3>2, <3>3, <3>4
  <2>3. Flat(Append(a, x)) = Flat(a) \o <<z>> /\ Append(a, x) \in Seq(Tensor)
    BY <1>2, <2>1, FlatNext
  <2>4. Flat(a) \o <<z>> = Flat(m) \o [i \in 1 .. k + 1 |-> z]
    <3>1. [i \in 1 .. k + 1 |-> z] \in Seq(Nat \X Nat) /\ [i \in 1 .. k |-> z] \in Seq(Nat \X Nat)
      OBVIOUS
    <3>2. [i \in 1 .. k + 1 |-> z] = [i \in 1 .. k |-> z] \o <<z>>
      BY <3>1
    <3>3. <<z>> \in Seq(Nat \X Nat)
      OBVIOUS
    <3>4. (Flat(m) \o [i \in 1 .. k |-> z]) \o <<z>> = Flat(m) \o ([i \in 1 .. k |-> z] \o <<z>>)
      <4>1. PICK S : S = Nat \X Nat
        OBVIOUS
      <4>2. PICK b \in Seq(S), c \in Seq(S), d \in Seq(S) : b = Flat(m) /\ c = [i \in 1 .. k |-> z] /\ d = <<z>>
        BY <1>1, <3>1, <3>3, <4>1
      <4>3. (b \o c) \o d = b \o (c \o d)
        BY ConcatAssociative
      <4> QED BY <4>2, <4>3
    <3> QED BY <2>1, <3>2, <3>4
  <2> HIDE DEF MoreRows
  <2>5. Flat(MoreRows(k + 1)) = Flat(m) \o [i \in 1 .. k + 1 |-> Head(x.rows)] /\ MoreRows(k + 1) \in Seq(Tensor)
    BY <1>2, <2>2, <2>3, <2>4
  <2>6. k + 1 \in Nat
    OBVIOUS
  <2> QED BY <2>5, <2>6, Zenon
<1>5. n \in T
  <2> HIDE DEF T
  <2> QED BY <1>3, <1>4, NatSetInduction
<1> QED BY <1>5

\* FoldLeft adds a sequence of numbers from the first to the last.
SumUp(s) == CHOOSE iter : iter = [X \in SUBSET (DOMAIN s) |-> IF X = {} THEN 0 ELSE iter[X \ {Max(X)}] + s[Max(X)]]
AddUp(s) == FoldLeft(+, 0, s)
SumsUp(W, s, n) ==
  /\ W[1 .. 0] = 0 /\ W[1 .. n] \in Nat
  /\ \A k \in 0 .. n - 1 : W[1 .. k] \in Nat /\ W[1 .. k + 1] = W[1 .. k] + s[k + 1]
  /\ AddUp(s) = W[1 .. n]

LEMMA SumUpSteps ==
  ASSUME NEW s \in Seq(Nat), NEW W, W = SumUp(s)
  PROVE  SumsUp(W, s, Len(s))
<1>0. PICK n \in Nat : n = Len(s) /\ DOMAIN s = 1 .. n
  OBVIOUS
<1> DEFINE F(f, X) == IF X = {} THEN 0 ELSE f[X \ {Max(X)}] + s[Max(X)]
           g == [p \in Nat \X (1 .. n) |-> p[1] + s[p[2]]]
<1>1. g \in [Nat \X (1 .. n) -> Nat] /\ \A d \in Nat, k \in 1 .. n : g[<<d, k>>] = d + s[k]
  BY <1>0
<1>2. PICK f \in [SUBSET (1 .. n) -> Nat] : Folded(f, n, 0, g)
  <2> HIDE DEF g
  <2> QED BY <1>1, FoldExists
<1>3. ASSUME NEW X \in SUBSET (1 .. n) PROVE f[X] = F(f, X)
  <2>1. f[X] = IF X = {} THEN 0 ELSE g[<<f[X \ {Max(X)}], Max(X)>>]
    <3> HIDE DEF g
    <3> QED BY <1>2, Zenon DEF Folded
  <2>2. CASE X = {}
    BY <2>1, <2>2
  <2>3. CASE X # {}
    <3>1. Max(X) \in 1 .. n /\ f[X \ {Max(X)}] \in Nat
      BY <2>3, GreatestIn
    <3> HIDE DEF g
    <3> QED BY <1>1, <2>1, <2>3, <3>1
  <2> QED BY <2>2, <2>3
<1>4. f = [X \in SUBSET (1 .. n) |-> F(f, X)]
  <2> HIDE DEF F, g
  <2> QED BY <1>3
<1>5. W = [X \in SUBSET (1 .. n) |-> F(W, X)]
  <2>1. f = [X \in SUBSET (DOMAIN s) |-> F(f, X)]
    BY <1>0, <1>4, Zenon
  <2>2. W = [X \in SUBSET (DOMAIN s) |-> F(W, X)]
    BY <2>1, Zenon DEF SumUp
  <2> QED BY <1>0, <2>2, Zenon
<1>6. \A X \in SUBSET (1 .. n) : W[X] = F(W, X)
  <2> HIDE DEF F, g
  <2> QED BY <1>5
<1>7. W[1 .. 0] = 0
  <2>1. 1 .. 0 = {} /\ {} \in SUBSET (1 .. n)
    BY UpTo
  <2> QED BY <1>6, <2>1
<1>8. ASSUME NEW k \in 0 .. n - 1 PROVE W[1 .. k + 1] = W[1 .. k] + s[k + 1]
  <2>1. PICK X : X = 1 .. k + 1
    OBVIOUS
  <2>2. k \in Nat /\ k + 1 <= n
    OBVIOUS
  <2>3. Max(X) = k + 1 /\ X \ {k + 1} = 1 .. k /\ X # {}
    BY <2>1, <2>2, UpTo
  <2>4. X \in SUBSET (1 .. n)
    <3>1. \A x \in 1 .. k + 1 : x \in 1 .. n
      BY <2>2
    <3> QED BY <2>1, <3>1
  <2>5. W[X] = F(W, X)
    <3> HIDE DEF F, g
    <3> QED BY <1>6, <2>4
  <2> QED BY <2>1, <2>3, <2>5
<1> DEFINE T == {k \in Nat : k <= n => W[1 .. k] \in Nat}
<1>9. 0 \in T
  BY <1>7
<1>10. ASSUME NEW k \in Nat, k \in T PROVE k + 1 \in T
  <2> SUFFICES ASSUME k + 1 <= n PROVE W[1 .. k + 1] \in Nat
    <3>1. k + 1 \in Nat
      OBVIOUS
    <3> QED BY <3>1, Zenon
  <2>1. k \in 0 .. n - 1 /\ k <= n /\ k + 1 \in 1 .. n
    OBVIOUS
  <2>2. W[1 .. k] \in Nat
    BY <1>10, <2>1, Zenon
  <2>3. s[k + 1] \in Nat
    BY <1>0, <2>1
  <2> QED BY <1>8, <2>1, <2>2, <2>3
<1>11. ASSUME NEW k \in 0 .. n PROVE W[1 .. k] \in Nat
  <2>1. k \in Nat /\ k <= n
    OBVIOUS
  <2>2. k \in T
    <3> HIDE DEF T
    <3> QED BY <1>9, <1>10, <2>1, NatSetInduction
  <2> QED BY <2>1, <2>2, Zenon
<1>12. AddUp(s) = W[1 .. n]
  <2>1. AddUp(s) = SumUp(s)[DOMAIN s]
    BY Zenon DEF AddUp, FoldLeft, MapThenFoldSet, SumUp
  <2> QED BY <1>0, <2>1
<1>13. n \in 0 .. n /\ \A k \in 0 .. n - 1 : k \in 0 .. n
  OBVIOUS
<1> HIDE DEF F, g, T
<1> QED BY <1>0, <1>7, <1>8, <1>11, <1>12, <1>13 DEF SumsUp

TTyped == allowed \in AllowedSizes /\ shapes \in Seq(Shapes)

LEMMA ShapesAre ==
  ASSUME TTyped, NEW n \in Nat, n = Len(shapes)
  PROVE  /\ Tasks = 1 .. n /\ DOMAIN shapes = 1 .. n
         /\ \A t \in 1 .. n : shapes[t].rows \in Nat /\ shapes[t].rows > 0 /\ shapes[t].len \in Nat
         /\ HaveRows(shapes, n)
         /\ BatchRows = RowsTo(shapes, n) /\ BatchRows \in Nat
<1>1. DOMAIN shapes = 1 .. n /\ \A t \in 1 .. n : shapes[t] \in Shapes
  BY DEF TTyped
<1>2. \A s \in Shapes : s.rows \in Nat /\ s.rows > 0 /\ s.len \in Nat
  BY ShapesArePositive
<1>3. HaveRows(shapes, n)
  BY <1>1, <1>2 DEF HaveRows
<1>4. BatchRows = RowsTo(shapes, n)
  <2>1. BatchRows = SumOver(shapes, Tasks)[Tasks]
    BY Zenon DEF BatchRows, SumOver, Picked, MapThenSumSet, MapThenFoldSet
  <2> QED BY <1>1, <2>1 DEF Tasks, RowsTo
<1>5. RowsTo(shapes, n) \in Nat
  <2>1. n \in 0 .. n
    OBVIOUS
  <2> QED BY <1>3, <2>1, RowsToIs
<1> QED BY <1>1, <1>2, <1>3, <1>4, <1>5 DEF Tasks

LEMMA PaddingIs == ASSUME TTyped PROVE PaddingSize \in Nat
<1>1. PICK b \in Nat : b = BatchRows
  <2>1. Len(shapes) \in Nat
    BY DEF TTyped
  <2> QED BY <2>1, ShapesAre
<1>2. PICK fit : fit = {i \in DOMAIN allowed : allowed[i] >= b}
  OBVIOUS
<1>3. allowed \in Seq(Nat \ {0})
  BY AllowedIncrease DEF TTyped
<1>4. Lowest(b) = IF fit = {} THEN b ELSE allowed[Min(fit)]
  BY <1>2, Zenon DEF Lowest
<1>5. CASE fit = {}
  BY <1>1, <1>4, <1>5 DEF PaddingSize
<1>6. CASE fit # {}
  <2>1. fit \subseteq Nat
    BY <1>2, <1>3
  <2>2. PICK i \in fit : \A j \in fit : i <= j
    BY <1>6, <2>1, LeastNumber
  <2>3. Min(fit) \in fit
    BY <2>2, Zenon DEF Min
  <2>4. PICK a \in Nat : a = allowed[Min(fit)] /\ a >= b
    <3>1. PICK j : j = Min(fit) /\ j \in fit
      BY <2>3
    <3>2. j \in DOMAIN allowed /\ allowed[j] >= b
      BY <1>2, <3>1
    <3>3. allowed[j] \in Nat \ {0}
      BY <1>3, <3>2
    <3> QED BY <3>1, <3>2, <3>3
  <2> QED BY <1>1, <1>4, <1>6, <2>4 DEF PaddingSize
<1> QED BY <1>5, <1>6

\* Nothing is padded: the tensors are those the tasks sent.
LEMMA TensorIs ==
  ASSUME TTyped, NEW n \in Nat, n = Len(shapes), NEW t \in 1 .. n
  PROVE  /\ TensorOf(t) \in Tensor /\ Padded(TensorOf(t)) = TensorOf(t)
         /\ TensorOf(t).len = shapes[t].len
         /\ TensorOf(t).rows = [k \in 1 .. shapes[t].rows |-> <<t, k>>]
         /\ Len(TensorOf(t).rows) = shapes[t].rows
<1>1. PICK r \in Nat, l \in Nat : r = shapes[t].rows /\ l = shapes[t].len
  BY ShapesAre
<1>2. TensorOf(t) = [len |-> l, rows |-> [k \in 1 .. r |-> <<t, k>>]]
  BY <1>1 DEF TensorOf
<1>3. PICK s \in Seq(Nat \X Nat) : s = [k \in 1 .. r |-> <<t, k>>] /\ Len(s) = r
  <2>1. t \in Nat
    OBVIOUS
  <2>2. [k \in 1 .. r |-> <<t, k>>] \in Seq(Nat \X Nat) /\ Len([k \in 1 .. r |-> <<t, k>>]) = r
    BY <2>1
  <2> QED BY <2>2
<1>4. PICK x \in Tensor : x = TensorOf(t) /\ x.len = l /\ x.rows = s
  <2>1. [len |-> l, rows |-> s] \in Tensor
    BY DEF Tensor
  <2> QED BY <1>2, <1>3, <2>1
<1>5. Padded(x) = x
  <2>1. x.len + 0 = x.len
    BY <1>4
  <2> QED BY <2>1 DEF Padded
<1> QED BY <1>1, <1>3, <1>4, <1>5

\* fill() adds the padding or leaves it.
LEMMA FillIs ==
  ASSUME NEW m \in Seq(Tensor), NEW x \in Tensor, Len(x.rows) > 0, PaddingSize \in Nat
  PROVE  /\ Fill(m, x) \in Seq(Tensor)
         /\ \/ Flat(Fill(m, x)) = Flat(m) /\ ~SameShape(m, [x EXCEPT !.rows = <<Head(@)>>])
            \/ Flat(Fill(m, x)) = Flat(m) \o [i \in 1 .. PaddingSize |-> Head(x.rows)]
<1>1. PICK h \in Nat \X Nat : h = Head(x.rows)
  <2>1. x.rows \in Seq(Nat \X Nat)
    BY DEF Tensor
  <2> QED BY <2>1
<1>2. PICK row \in Tensor : row = [x EXCEPT !.rows = <<Head(@)>>] /\ row.rows = <<h>>
  <2>1. x = [len |-> x.len, rows |-> x.rows] /\ x.len \in Nat
    BY DEF Tensor
  <2>2. [x EXCEPT !.rows = <<Head(@)>>] = [len |-> x.len, rows |-> <<h>>]
    BY <1>1, <2>1
  <2>3. [len |-> x.len, rows |-> <<h>>] \in Tensor
    <3>1. <<h>> \in Seq(Nat \X Nat)
      OBVIOUS
    <3> QED BY <2>1, <3>1 DEF Tensor
  <2> QED BY <2>2, <2>3
<1>3. Len(row.rows) = 1 /\ Head(row.rows) = h
  BY <1>2
<1>4. Fill(m, x) = IF SameShape(m, row) THEN m \o [i \in 1 .. PaddingSize |-> row] ELSE m
  BY <1>2, Zenon DEF Fill
<1>5. /\ m \o [i \in 1 .. PaddingSize |-> row] \in Seq(Tensor)
      /\ Flat(m \o [i \in 1 .. PaddingSize |-> row]) = Flat(m) \o [i \in 1 .. PaddingSize |-> Head(row.rows)]
  BY <1>3, FlatRepeats
<1> QED BY <1>1, <1>2, <1>3, <1>4, <1>5

\* What one task makes of the merged tensors.
LEMMA MergeTensorIs ==
  ASSUME TTyped, NEW n \in Nat, n = Len(shapes), NEW t \in 1 .. n, NEW m \in Seq(Tensor)
  PROVE  /\ MergeTensor(m, t) \in Seq(Tensor)
         /\ ~SameShape(m, TensorOf(t)) => MergeTensor(m, t) = m
         /\ SameShape(m, TensorOf(t)) /\ t # n => MergeTensor(m, t) = Append(m, TensorOf(t))
         /\ SameShape(m, TensorOf(t)) /\ t = n => MergeTensor(m, t) = Fill(Append(m, TensorOf(t)), TensorOf(t))
<1>1. PICK x \in Tensor : x = TensorOf(t) /\ Padded(x) = x /\ Len(x.rows) > 0
  <2>1. shapes[t].rows > 0
    BY ShapesAre
  <2> QED BY <2>1, TensorIs
<1>2. MergeTensor(m, t) = IF ~SameShape(m, x) THEN m ELSE IF t = n THEN Fill(Append(m, x), x) ELSE Append(m, x)
  <2>1. (IF lengths THEN Padded(TensorOf(t)) ELSE TensorOf(t)) = x
    BY <1>1
  <2> QED BY <2>1 DEF MergeTensor, IsLast
<1>3. Append(m, x) \in Seq(Tensor)
  BY FlatNext
<1>4. Fill(Append(m, x), x) \in Seq(Tensor)
  BY <1>1, <1>3, PaddingIs, FillIs
<1> QED BY <1>1, <1>2, <1>3, <1>4

\* The merged tensors after some tasks, as the fold makes them.
TensorsOf(ids) == CHOOSE iter : iter = [S \in SUBSET (DOMAIN ids) |->
                    IF S = {} THEN <<>> ELSE MergeTensor(iter[S \ {Max(S)}], ids[Max(S)])]

TensorsAre(W, n) ==
  /\ W[1 .. 0] = <<>>
  /\ \A k \in 0 .. n : W[1 .. k] \in Seq(Tensor)
  /\ \A k \in 0 .. n - 1 : W[1 .. k + 1] = MergeTensor(W[1 .. k], k + 1)
  /\ MergedRows = Flat(W[1 .. n])

LEMMA TensorsSteps ==
  ASSUME TTyped, NEW W, W = TensorsOf([t \in Tasks |-> t])
  PROVE  TensorsAre(W, Len(shapes))
<1>0. PICK n \in Nat : n = Len(shapes)
  BY DEF TTyped
<1>1. PICK ids : ids = [t \in Tasks |-> t]
  OBVIOUS
<1>2. Tasks = 1 .. n /\ DOMAIN ids = 1 .. n /\ \A k \in 1 .. n : ids[k] = k
  <2>1. Tasks = 1 .. n
    BY <1>0, ShapesAre
  <2> QED BY <1>1, <2>1
<1> DEFINE D == Seq(Tensor)
<1>3. <<>> \in D /\ \A d \in D, k \in 1 .. n : MergeTensor(d, k) \in D
  BY <1>0, MergeTensorIs
<1> DEFINE F(f, S) == IF S = {} THEN <<>> ELSE MergeTensor(f[S \ {Max(S)}], ids[Max(S)])
           g == [p \in D \X (1 .. n) |-> MergeTensor(p[1], p[2])]
<1>5. g \in [D \X (1 .. n) -> D] /\ \A d \in D, k \in 1 .. n : g[<<d, k>>] = MergeTensor(d, k)
  <2> HIDE DEF D
  <2> QED BY <1>3
<1>6. PICK f \in [SUBSET (1 .. n) -> D] : Folded(f, n, <<>>, g)
  <2> HIDE DEF g, D
  <2> QED BY <1>3, <1>5, FoldExists
<1> HIDE DEF D
<1>7. ASSUME NEW S \in SUBSET (1 .. n) PROVE f[S] = F(f, S)
  <2>1. f[S] = IF S = {} THEN <<>> ELSE g[<<f[S \ {Max(S)}], Max(S)>>]
    <3> HIDE DEF g
    <3> QED BY <1>6, Zenon DEF Folded
  <2>2. CASE S = {}
    BY <2>1, <2>2
  <2>3. CASE S # {}
    <3>1. Max(S) \in 1 .. n /\ f[S \ {Max(S)}] \in D
      BY <2>3, GreatestIn
    <3>2. ids[Max(S)] = Max(S)
      BY <1>2, <3>1
    <3> HIDE DEF g
    <3> QED BY <1>5, <2>1, <2>3, <3>1, <3>2
  <2> QED BY <2>2, <2>3
<1>8. f = [S \in SUBSET (1 .. n) |-> F(f, S)]
  <2> HIDE DEF F, g
  <2> QED BY <1>7
<1>9. W = [S \in SUBSET (1 .. n) |-> F(W, S)]
  <2>1. W = TensorsOf(ids)
    BY <1>1
  <2>2. f = [S \in SUBSET (DOMAIN ids) |-> F(f, S)]
    BY <1>2, <1>8, Zenon
  <2>3. W = [S \in SUBSET (DOMAIN ids) |-> F(W, S)]
    BY <2>1, <2>2, Zenon DEF TensorsOf
  <2> QED BY <1>2, <2>3, Zenon
<1>10. \A S \in SUBSET (1 .. n) : W[S] = F(W, S)
  <2> HIDE DEF F, g
  <2> QED BY <1>9
<1>11. W[1 .. 0] = <<>>
  <2>1. 1 .. 0 = {} /\ {} \in SUBSET (1 .. n)
    BY UpTo
  <2> QED BY <1>10, <2>1
<1>12. ASSUME NEW k \in 0 .. n - 1 PROVE W[1 .. k + 1] = MergeTensor(W[1 .. k], k + 1)
  <2>1. PICK S : S = 1 .. k + 1
    OBVIOUS
  <2>2. k \in Nat /\ k + 1 <= n /\ k + 1 \in 1 .. n
    OBVIOUS
  <2>3. Max(S) = k + 1 /\ S \ {k + 1} = 1 .. k /\ S # {}
    BY <2>1, <2>2, UpTo
  <2>4. S \in SUBSET (1 .. n)
    <3>1. \A x \in 1 .. k + 1 : x \in 1 .. n
      BY <2>2
    <3> QED BY <2>1, <3>1
  <2>5. W[S] = F(W, S)
    <3> HIDE DEF F, g
    <3> QED BY <1>10, <2>4
  <2> QED BY <1>2, <2>1, <2>2, <2>3, <2>5
<1> DEFINE T == {k \in Nat : k <= n => W[1 .. k] \in D}
<1>13. 0 \in T
  BY <1>3, <1>11
<1>14. ASSUME NEW k \in Nat, k \in T PROVE k + 1 \in T
  <2> SUFFICES ASSUME k + 1 <= n PROVE W[1 .. k + 1] \in D
    <3>1. k + 1 \in Nat
      OBVIOUS
    <3> QED BY <3>1, Zenon
  <2>1. k \in 0 .. n - 1 /\ k <= n /\ k + 1 \in 1 .. n
    OBVIOUS
  <2>2. W[1 .. k] \in D
    BY <1>14, <2>1, Zenon
  <2> QED BY <1>3, <1>12, <2>1, <2>2
<1>15. ASSUME NEW k \in 0 .. n PROVE W[1 .. k] \in D
  <2>1. k \in Nat /\ k <= n
    OBVIOUS
  <2>2. k \in T
    <3> HIDE DEF T
    <3> QED BY <1>13, <1>14, <2>1, NatSetInduction
  <2> QED BY <2>1, <2>2, Zenon
<1>16. MergedRows = Flat(W[1 .. n])
  <2>1. PICK merged : merged = FoldLeft(MergeTensor, <<>>, ids)
    OBVIOUS
  <2>2. merged = TensorsOf(ids)[DOMAIN ids]
    BY <2>1, Zenon DEF FoldLeft, MapThenFoldSet, TensorsOf
  <2>3. MergedRows = Flat(merged)
    BY <1>1, <2>1, Zenon DEF MergedRows, Flat
  <2> HIDE DEF F, g, T
  <2> QED BY <1>1, <1>2, <2>2, <2>3
<1> HIDE DEF F, g, T
<1> QED BY <1>0, <1>11, <1>12, <1>15, <1>16 DEF D, TensorsAre

\* Sizes that begin with the rows of the tasks add up to the rows to each of them.
Follows(s, k) == \A i \in 1 .. k : s[i] = shapes[i].rows

LEMMA SizesFollow ==
  ASSUME TTyped, NEW n \in Nat, n = Len(shapes), NEW s \in Seq(Nat), NEW W, SumsUp(W, s, Len(s)),
         NEW k \in Nat, k <= n, k <= Len(s), Follows(s, k)
  PROVE  W[1 .. k] = RowsTo(shapes, k)
<1>1. /\ RowsTo(shapes, 0) = 0
      /\ \A i \in 1 .. n : RowsTo(shapes, i) = RowsTo(shapes, i - 1) + shapes[i].rows
  <2>1. HaveRows(shapes, n)
    BY ShapesAre
  <2> QED BY <2>1, RowsToIs
<1>2. W[1 .. 0] = 0 /\ \A i \in 0 .. Len(s) - 1 : W[1 .. i + 1] = W[1 .. i] + s[i + 1]
  BY DEF SumsUp
<1> DEFINE T == {i \in Nat : i <= k => W[1 .. i] = RowsTo(shapes, i)}
<1>3. 0 \in T
  BY <1>1, <1>2
<1>4. ASSUME NEW i \in Nat, i \in T PROVE i + 1 \in T
  <2> SUFFICES ASSUME i + 1 <= k PROVE W[1 .. i + 1] = RowsTo(shapes, i + 1)
    <3>1. i + 1 \in Nat
      OBVIOUS
    <3> QED BY <3>1, Zenon
  <2>1. i <= k /\ i + 1 \in 1 .. k /\ i + 1 \in 1 .. n /\ (i + 1) - 1 = i /\ i \in 0 .. Len(s) - 1
    OBVIOUS
  <2>2. W[1 .. i] = RowsTo(shapes, i)
    BY <1>4, <2>1, Zenon
  <2>3. s[i + 1] = shapes[i + 1].rows
    BY <2>1 DEF Follows
  <2>4. RowsTo(shapes, i + 1) = RowsTo(shapes, i) + shapes[i + 1].rows
    BY <1>1, <2>1
  <2>5. W[1 .. i + 1] = W[1 .. i] + s[i + 1]
    BY <1>2, <2>1
  <2> QED BY <2>2, <2>3, <2>4, <2>5
<1>5. k \in T /\ k <= k
  <2>1. k \in T
    <3> HIDE DEF T
    <3> QED BY <1>3, <1>4, NatSetInduction
  <2> QED BY <2>1
<1> QED BY <1>5, Zenon

\* The sizes by which the output is split are the tasks' and the padding's.
LEMMA SplitSizesAre ==
  ASSUME TTyped, NEW n \in Nat, n = Len(shapes)
  PROVE  /\ AddUp(SplitSizes) = RowsTo(shapes, n) + PaddingSize
         /\ \A t \in 1 .. n : /\ SplitSizes[t] = shapes[t].rows
                              /\ AddUp(SubSeq(SplitSizes, 1, t - 1)) = RowsTo(shapes, t - 1)
<1>1. PICK a \in Seq(Nat) : a = [t \in Tasks |-> shapes[t].rows] /\ Len(a) = n /\ \A t \in 1 .. n : a[t] = shapes[t].rows
  <2>1. Tasks = 1 .. n /\ \A t \in 1 .. n : shapes[t].rows \in Nat
    BY ShapesAre
  <2>2. PICK a : a = [t \in 1 .. n |-> shapes[t].rows]
    OBVIOUS
  <2>3. a \in [1 .. n -> Nat]
    BY <2>1, <2>2
  <2>4. a \in Seq(Nat) /\ Len(a) = n
    BY <2>3
  <2>5. \A t \in 1 .. n : a[t] = shapes[t].rows
    BY <2>2
  <2>6. a = [t \in Tasks |-> shapes[t].rows]
    BY <2>1, <2>2
  <2> QED BY <2>4, <2>5, <2>6
<1>2. PICK p \in Nat : p = PaddingSize
  BY PaddingIs
<1>3. PICK s : s = SplitSizes
  OBVIOUS
<1>4. s = a \o (IF p > 0 THEN <<p>> ELSE <<>>)
  BY <1>1, <1>2, <1>3, Zenon DEF SplitSizes
<1>5. s \in Seq(Nat) /\ Len(s) = (IF p > 0 THEN n + 1 ELSE n) /\ (\A t \in 1 .. n : s[t] = a[t]) /\ (p > 0 => s[n + 1] = p)
  <2>1. CASE p > 0
    <3>1. s = a \o <<p>>
      BY <1>4, <2>1
    <3>2. <<p>> \in Seq(Nat) /\ Len(<<p>>) = 1 /\ <<p>>[1] = p /\ 1 \in 1 .. 1
      OBVIOUS
    <3>3. s \in Seq(Nat) /\ Len(s) = n + 1 /\ (\A t \in 1 .. n : s[t] = a[t]) /\ s[n + 1] = p
      <4>1. s \in Seq(Nat) /\ Joined(s, a, <<p>>)
        BY <3>1, <3>2, Behind
      <4> QED BY <1>1, <3>2, <4>1 DEF Joined
    <3> QED BY <2>1, <3>3
  <2>2. CASE ~(p > 0)
    <3>1. s = a
      BY <1>4, <2>2
    <3> QED BY <1>1, <2>2, <3>1
  <2> QED BY <2>1, <2>2
<1>6. RowsTo(shapes, n) \in Nat
  BY ShapesAre
<1>7. AddUp(s) = RowsTo(shapes, n) + p
  <2>1. PICK W : W = SumUp(s)
    OBVIOUS
  <2>2. SumsUp(W, s, Len(s))
    BY <1>5, <2>1, SumUpSteps
  <2>3. W[1 .. n] = RowsTo(shapes, n)
    <3>1. n <= n /\ n <= Len(s) /\ Follows(s, n)
      <4>1. n <= Len(s)
        BY <1>5
      <4>2. \A i \in 1 .. n : s[i] = shapes[i].rows
        BY <1>1, <1>5
      <4> QED BY <4>1, <4>2 DEF Follows
    <3>2. n \in Nat /\ n = Len(shapes) /\ s \in Seq(Nat)
      BY <1>1, <1>5
    <3> QED BY <2>2, <3>1, <3>2, SizesFollow, SMTT(60)
  <2>4. CASE p > 0
    <3>1. Len(s) = n + 1 /\ n \in 0 .. Len(s) - 1
      BY <1>5, <2>4
    <3>2. W[1 .. n + 1] = W[1 .. n] + s[n + 1] /\ AddUp(s) = W[1 .. n + 1]
      BY <2>2, <3>1 DEF SumsUp
    <3> QED BY <1>5, <2>3, <2>4, <3>2
  <2>5. CASE ~(p > 0)
    <3>1. Len(s) = n /\ p = 0
      BY <1>5, <2>5
    <3>2. AddUp(s) = W[1 .. n]
      BY <2>2, <3>1 DEF SumsUp
    <3> QED BY <1>6, <2>3, <3>1, <3>2
  <2> QED BY <2>4, <2>5
<1>8. ASSUME NEW t \in 1 .. n PROVE AddUp(SubSeq(s, 1, t - 1)) = RowsTo(shapes, t - 1)
  <2>1. PICK k \in Nat : k = t - 1
    OBVIOUS
  <2>2. k <= n /\ k <= Len(s) /\ \A i \in 1 .. k : i \in 1 .. n
    BY <1>5, <2>1
  <2>3. PICK q : q = SubSeq(s, 1, k)
    OBVIOUS
  <2>4. q \in Seq(Nat) /\ Len(q) = k /\ \A i \in 1 .. k : q[i] = s[i]
    BY <1>5, <2>2, <2>3
  <2>5. PICK W : W = SumUp(q)
    OBVIOUS
  <2>6. SumsUp(W, q, Len(q))
    BY <2>4, <2>5, SumUpSteps
  <2>7. Follows(q, k)
    BY <1>1, <1>5, <2>2, <2>4 DEF Follows
  <2>8. W[1 .. k] = RowsTo(shapes, k)
    <3>1. k <= Len(q)
      BY <2>4
    <3>2. n \in Nat /\ n = Len(shapes) /\ k \in Nat /\ k <= n /\ q \in Seq(Nat)
      BY <1>1, <1>5, <2>2, <2>4
    <3> QED BY <2>6, <2>7, <3>1, <3>2, SizesFollow, SMTT(60)
  <2>9. AddUp(q) = W[1 .. k]
    BY <2>4, <2>6 DEF SumsUp
  <2> QED BY <2>1, <2>3, <2>8, <2>9
<1> QED BY <1>1, <1>2, <1>3, <1>5, <1>7, <1>8

\* The rows of the first k tasks are where they belong.
InPlace(rows, k) == \A s \in 1 .. k : \A j \in 1 .. shapes[s].rows : rows[RowsTo(shapes, s - 1) + j] = <<s, j>>

\* Either all rows of the first k tasks are there, or some are missing.
Reaches(rows, k) == \/ Len(rows) = RowsTo(shapes, k) /\ InPlace(rows, k)
                    \/ Len(rows) < RowsTo(shapes, k)

LEMMA RowsReach ==
  ASSUME TTyped, NEW n \in Nat, n = Len(shapes), NEW k \in 0 .. n - 1,
         NEW rows \in Seq(Nat \X Nat), Reaches(rows, k)
  PROVE  /\ Len(rows) < RowsTo(shapes, k + 1)
         /\ rows \o TensorOf(k + 1).rows \in Seq(Nat \X Nat)
         /\ Reaches(rows \o TensorOf(k + 1).rows, k + 1)
         /\ Len(rows) = RowsTo(shapes, k) => Len(rows \o TensorOf(k + 1).rows) = RowsTo(shapes, k + 1)
<1>1. k + 1 \in 1 .. n /\ (k + 1) - 1 = k /\ k \in 0 .. n /\ k + 1 \in 0 .. n
  OBVIOUS
<1>2. HaveRows(shapes, n) /\ \A t \in 1 .. n : shapes[t].rows \in Nat /\ shapes[t].rows > 0
  BY ShapesAre
<1>3. PICK a \in Nat, r \in Nat : a = RowsTo(shapes, k) /\ r = shapes[k + 1].rows /\ r > 0 /\ RowsTo(shapes, k + 1) = a + r
  BY <1>1, <1>2, RowsToIs
<1>4. PICK sent \in Seq(Nat \X Nat) : sent = TensorOf(k + 1).rows /\ Len(sent) = r /\ sent = [j \in 1 .. r |-> <<k + 1, j>>]
  <2>1. TensorOf(k + 1) \in Tensor /\ TensorOf(k + 1).rows = [j \in 1 .. r |-> <<k + 1, j>>] /\ Len(TensorOf(k + 1).rows) = r
    BY <1>1, <1>3, TensorIs
  <2>2. TensorOf(k + 1).rows \in Seq(Nat \X Nat)
    BY <2>1 DEF Tensor
  <2> QED BY <2>1, <2>2
<1>5. PICK l \in Nat : l = Len(rows)
  OBVIOUS
<1>6. PICK e \in Seq(Nat \X Nat) : /\ e = rows \o sent /\ Len(e) = l + r
                                   /\ \A j \in 1 .. l : e[j] = rows[j]
                                   /\ \A j \in 1 .. r : e[l + j] = sent[j]
  <2>1. PICK S : S = Nat \X Nat
    OBVIOUS
  <2>2. rows \in Seq(S) /\ sent \in Seq(S)
    BY <2>1
  <2>3. rows \o sent \in Seq(S) /\ Joined(rows \o sent, rows, sent)
    BY <2>2, Behind
  <2>4. PICK e \in Seq(S) : e = rows \o sent /\ Joined(e, rows, sent)
    BY <2>3
  <2>5. Len(e) = l + r /\ (\A j \in 1 .. l : e[j] = rows[j]) /\ \A j \in 1 .. r : e[l + j] = sent[j]
    BY <1>4, <1>5, <2>4 DEF Joined
  <2> QED BY <2>1, <2>4, <2>5
<1>7. (l = a /\ InPlace(rows, k)) \/ l < a
  BY <1>3, <1>5 DEF Reaches
<1>8. ASSUME l = a, InPlace(rows, k) PROVE InPlace(e, k + 1)
  <2> SUFFICES ASSUME NEW s \in 1 .. k + 1, NEW j \in 1 .. shapes[s].rows
               PROVE  e[RowsTo(shapes, s - 1) + j] = <<s, j>>
    BY DEF InPlace
  <2>1. CASE s = k + 1
    <3>1. j \in 1 .. r /\ RowsTo(shapes, s - 1) + j = l + j
      BY <1>1, <1>3, <1>8, <2>1
    <3>2. e[l + j] = sent[j]
      BY <1>6, <3>1
    <3> QED BY <1>4, <2>1, <3>1, <3>2
  <2>2. CASE s # k + 1
    <3>1. s \in 1 .. k /\ s \in 1 .. n /\ s - 1 \in 0 .. k /\ s \in 0 .. k
      BY <2>2
    <3>2. HaveRows(shapes, k)
      <4>1. \A i \in 1 .. k : i \in 1 .. n
        OBVIOUS
      <4> QED BY <1>2, <4>1 DEF HaveRows
    <3>3. /\ RowsTo(shapes, s) <= RowsTo(shapes, k) /\ RowsTo(shapes, s - 1) \in Nat
          /\ RowsTo(shapes, s) = RowsTo(shapes, s - 1) + shapes[s].rows
      <4>1. k \in Nat
        OBVIOUS
      <4> QED BY <3>1, <3>2, <4>1, RowsToIs
    <3>4. PICK b \in Nat, q \in Nat : b = RowsTo(shapes, s - 1) /\ q = shapes[s].rows
      BY <1>2, <3>1, <3>3
    <3>5. j \in 1 .. q /\ b + j \in 1 .. l
      BY <1>3, <1>8, <3>3, <3>4, SMTT(30)
    <3>6. e[b + j] = rows[b + j]
      BY <1>6, <3>5
    <3>7. rows[b + j] = <<s, j>>
      BY <1>8, <3>1, <3>4 DEF InPlace
    <3> QED BY <3>4, <3>6, <3>7
  <2> QED BY <2>1, <2>2
<1>9. Reaches(e, k + 1)
  BY <1>3, <1>6, <1>7, <1>8, SMTT(30) DEF Reaches
<1>10. l < a + r
  BY <1>3, <1>7, SMTT(30)
<1> QED BY <1>3, <1>4, <1>5, <1>6, <1>9, <1>10

\* The rows of the tasks but the last: all of them or too few.
LEMMA TensorsReach ==
  ASSUME TTyped, NEW n \in Nat, n = Len(shapes), NEW W, TensorsAre(W, n), NEW k \in Nat, k < n
  PROVE  Reaches(Flat(W[1 .. k]), k)
<1>1. /\ W[1 .. 0] = <<>> /\ \A i \in 0 .. n : W[1 .. i] \in Seq(Tensor)
      /\ \A i \in 0 .. n - 1 : W[1 .. i + 1] = MergeTensor(W[1 .. i], i + 1)
  BY DEF TensorsAre
<1> DEFINE T == {i \in Nat : i <= k => Reaches(Flat(W[1 .. i]), i)}
<1>2. 0 \in T
  <2>1. Flat(<<>>) = <<>>
    <3>1. 0 \in 0 .. n /\ 1 \in 1 .. n
      OBVIOUS
    <3> QED BY <1>1, <3>1, TensorIs, FlatNext
  <2>2. RowsTo(shapes, 0) = 0 /\ Len(<<>>) = 0
    BY ShapesAre, RowsToIs
  <2>3. InPlace(<<>>, 0)
    BY DEF InPlace
  <2>4. Reaches(<<>>, 0)
    BY <2>2, <2>3 DEF Reaches
  <2> QED BY <1>1, <2>1, <2>4
<1>3. ASSUME NEW i \in Nat, i \in T PROVE i + 1 \in T
  <2> SUFFICES ASSUME i + 1 <= k PROVE Reaches(Flat(W[1 .. i + 1]), i + 1)
    <3>1. i + 1 \in Nat
      OBVIOUS
    <3> QED BY <3>1, Zenon
  <2>1. i \in 0 .. n - 1 /\ i \in 0 .. n /\ i <= k /\ i + 1 \in 1 .. n /\ i + 1 # n
    OBVIOUS
  <2>2. PICK m \in Seq(Tensor) : m = W[1 .. i]
    BY <1>1, <2>1
  <2>3. Reaches(Flat(m), i)
    BY <1>3, <2>1, <2>2, Zenon
  <2>4. PICK x \in Tensor : x = TensorOf(i + 1)
    BY <2>1, TensorIs
  <2>5. Flat(m) \in Seq(Nat \X Nat) /\ Flat(Append(m, x)) = Flat(m) \o x.rows
    BY FlatNext
  <2>6. /\ Len(Flat(m)) < RowsTo(shapes, i + 1) /\ Reaches(Flat(m) \o TensorOf(i + 1).rows, i + 1)
    BY <2>1, <2>3, <2>5, RowsReach
  <2>7. W[1 .. i + 1] = MergeTensor(m, i + 1)
    BY <1>1, <2>1, <2>2
  <2>8. MergeTensor(m, i + 1) = m \/ MergeTensor(m, i + 1) = Append(m, x)
    BY <2>1, <2>4, MergeTensorIs
  <2>9. CASE MergeTensor(m, i + 1) = m
    BY <2>6, <2>7, <2>9 DEF Reaches
  <2>10. CASE MergeTensor(m, i + 1) = Append(m, x)
    BY <2>4, <2>5, <2>6, <2>7, <2>10
  <2> QED BY <2>8, <2>9, <2>10
<1>4. k \in T /\ k <= k
  <2>1. k \in T
    <3> HIDE DEF T
    <3> QED BY <1>2, <1>3, NatSetInduction
  <2> QED BY <2>1
<1> QED BY <1>4, Zenon

\* When the output can be split, nothing was dropped on the way.
LEMMA NothingIsDropped ==
  ASSUME TTyped, shapes # <<>>, CanSplit(MergedRows)
  PROVE  InPlace(MergedRows, Len(shapes)) /\ MergedRows \in Seq(Nat \X Nat)
         /\ RowsTo(shapes, Len(shapes)) <= Len(MergedRows)
<1>1. PICK n \in Nat : n = Len(shapes) /\ n > 0 /\ n \in 1 .. n
  BY DEF TTyped
<1>2. PICK W : W = TensorsOf([t \in Tasks |-> t])
  OBVIOUS
<1>3. TensorsAre(W, n)
  BY <1>1, <1>2, TensorsSteps
<1>4. PICK k \in Nat : k + 1 = n /\ k < n /\ k \in 0 .. n - 1 /\ k \in 0 .. n
  <2>1. n - 1 \in Nat /\ (n - 1) + 1 = n /\ n - 1 < n /\ n - 1 \in 0 .. n - 1 /\ n - 1 \in 0 .. n
    BY <1>1
  <2> QED BY <2>1
<1>5. PICK m \in Seq(Tensor) : m = W[1 .. k] /\ W[1 .. n] = MergeTensor(m, n) /\ MergedRows = Flat(MergeTensor(m, n))
  BY <1>3, <1>4 DEF TensorsAre
<1>6. Reaches(Flat(m), k) /\ Flat(m) \in Seq(Nat \X Nat)
  <2>1. Reaches(Flat(m), k)
    BY <1>1, <1>3, <1>4, <1>5, TensorsReach
  <2>2. TensorOf(n) \in Tensor
    BY <1>1, <1>4, TensorIs
  <2> QED BY <2>1, <2>2, FlatNext
<1>7. PICK x \in Tensor : x = TensorOf(n) /\ Len(x.rows) > 0
  BY <1>1, <1>4, TensorIs, ShapesAre
<1>8. PICK p \in Nat : p = PaddingSize
  BY PaddingIs
<1>9. PICK e \in Seq(Nat \X Nat) : e = Flat(m) \o x.rows /\ e = Flat(Append(m, x)) /\ Reaches(e, n)
  <2>1. /\ Flat(m) \o TensorOf(k + 1).rows \in Seq(Nat \X Nat) /\ Reaches(Flat(m) \o TensorOf(k + 1).rows, k + 1)
    BY <1>1, <1>4, <1>6, RowsReach
  <2>2. Flat(Append(m, x)) = Flat(m) \o x.rows
    BY FlatNext
  <2> QED BY <1>4, <1>7, <2>1, <2>2
<1>10. PICK a \in Nat : a = RowsTo(shapes, n) /\ Len(Flat(m)) < a
  <2>1. Len(Flat(m)) < RowsTo(shapes, k + 1)
    BY <1>1, <1>4, <1>6, RowsReach
  <2> QED BY <1>1, <1>4, <2>1, ShapesAre
<1>11. Len(MergedRows) = a + p
  <2>1. AddUp(SplitSizes) = a + p
    BY <1>1, <1>8, <1>10, SplitSizesAre
  <2>2. AddUp(SplitSizes) = Len(MergedRows)
    BY Zenon DEF CanSplit, AddUp
  <2> QED BY <2>1, <2>2
<1>12. MergeTensor(m, n) = Fill(Append(m, x), x)
  <2>1. MergeTensor(m, n) = m \/ MergeTensor(m, n) = Fill(Append(m, x), x)
    BY <1>1, <1>4, <1>7, MergeTensorIs
  <2>2. CASE MergeTensor(m, n) = m
    BY <1>5, <1>6, <1>10, <1>11, <2>2
  <2> QED BY <2>1, <2>2
<1>0. MergedRows = Flat(Fill(Append(m, x), x))
  BY <1>5, <1>12
<1>13. PICK pad \in Seq(Nat \X Nat) : MergedRows = e \o pad /\ Len(pad) <= p
  <2>1. Append(m, x) \in Seq(Tensor)
    BY FlatNext
  <2>2. Flat(Fill(Append(m, x), x)) = e \/ Flat(Fill(Append(m, x), x)) = e \o [i \in 1 .. p |-> Head(x.rows)]
    BY <1>7, <1>8, <1>9, <2>1, FillIs
  <2>3. CASE Flat(Fill(Append(m, x), x)) = e
    <3>1. e \o <<>> = e /\ <<>> \in Seq(Nat \X Nat) /\ Len(<<>>) <= p
      OBVIOUS
    <3>2. MergedRows = e \o <<>>
      BY <1>0, <2>3, <3>1
    <3> QED BY <3>1, <3>2, Zenon
  <2>4. CASE Flat(Fill(Append(m, x), x)) = e \o [i \in 1 .. p |-> Head(x.rows)]
    <3>1. PICK h \in Nat \X Nat : h = Head(x.rows)
      <4>1. x.rows \in Seq(Nat \X Nat)
        BY DEF Tensor
      <4> QED BY <1>7, <4>1
    <3>2. PICK pad : pad = [i \in 1 .. p |-> h]
      OBVIOUS
    <3>3. pad \in Seq(Nat \X Nat) /\ Len(pad) <= p
      BY <3>2
    <3>4. MergedRows = e \o pad
      BY <1>0, <2>4, <3>1, <3>2
    <3> QED BY <3>3, <3>4, Zenon
  <2> QED BY <2>2, <2>3, <2>4
<1>14. Len(e) = a /\ InPlace(e, n)
  <2>1. Len(MergedRows) = Len(e) + Len(pad)
    BY <1>13
  <2>2. Len(e) >= a
    BY <1>11, <1>13, <2>1
  <2> QED BY <1>9, <1>10, <2>2 DEF Reaches
<1>15. InPlace(MergedRows, n)
  <2> SUFFICES ASSUME NEW s \in 1 .. n, NEW j \in 1 .. shapes[s].rows
               PROVE  MergedRows[RowsTo(shapes, s - 1) + j] = <<s, j>>
    BY DEF InPlace
  <2>1. PICK b \in Nat, q \in Nat : b = RowsTo(shapes, s - 1) /\ q = shapes[s].rows /\ b + q <= a
    <3>1. s \in 0 .. n /\ s - 1 \in 0 .. n
      OBVIOUS
    <3>2. HaveRows(shapes, n) /\ shapes[s].rows \in Nat
      BY <1>1, ShapesAre
    <3>3. RowsTo(shapes, s) <= RowsTo(shapes, n) /\ RowsTo(shapes, s) = RowsTo(shapes, s - 1) + shapes[s].rows
          /\ RowsTo(shapes, s - 1) \in Nat
      BY <3>1, <3>2, RowsToIs
    <3> QED BY <1>10, <3>2, <3>3
  <2>2. j \in 1 .. q /\ b + j \in 1 .. a
    BY <2>1
  <2>3. (e \o pad)[b + j] = e[b + j]
    BY <1>14, <2>2
  <2>4. e[b + j] = <<s, j>>
    BY <1>14, <2>1 DEF InPlace
  <2> QED BY <1>13, <2>1, <2>3, <2>4
<1>16. MergedRows \in Seq(Nat \X Nat)
  BY <1>13
<1> QED BY <1>1, <1>10, <1>11, <1>15, <1>16

LEMMA PartIs ==
  ASSUME TTyped, shapes # <<>>, CanSplit(MergedRows), NEW t \in Tasks
  PROVE  Part(MergedRows, t) = TensorOf(t).rows
<1>1. PICK n \in Nat : n = Len(shapes) /\ t \in 1 .. n
  <2>1. Len(shapes) \in Nat /\ Tasks = 1 .. Len(shapes)
    BY DEF TTyped, Tasks
  <2> QED BY <2>1
<1>2. PICK rows \in Seq(Nat \X Nat) : rows = MergedRows /\ InPlace(rows, n) /\ RowsTo(shapes, n) <= Len(rows)
  BY <1>1, NothingIsDropped
<1>3. PICK b \in Nat, q \in Nat : b = RowsTo(shapes, t - 1) /\ q = shapes[t].rows /\ b + q <= Len(rows)
  <2>1. t \in 0 .. n /\ t - 1 \in 0 .. n
    BY <1>1
  <2>2. HaveRows(shapes, n) /\ shapes[t].rows \in Nat /\ RowsTo(shapes, n) \in Nat
    BY <1>1, ShapesAre
  <2>3. RowsTo(shapes, t) <= RowsTo(shapes, n) /\ RowsTo(shapes, t) = RowsTo(shapes, t - 1) + shapes[t].rows
        /\ RowsTo(shapes, t - 1) \in Nat
    BY <1>1, <2>1, <2>2, RowsToIs
  <2> QED BY <1>2, <2>2, <2>3
<1>4. Part(MergedRows, t) = SubSeq(rows, b + 1, b + q)
  <2>1. AddUp(SubSeq(SplitSizes, 1, t - 1)) = b /\ SplitSizes[t] = q
    BY <1>1, <1>3, SplitSizesAre
  <2>2. Part(MergedRows, t) = SubSeq(MergedRows, AddUp(SubSeq(SplitSizes, 1, t - 1)) + 1,
                                     AddUp(SubSeq(SplitSizes, 1, t - 1)) + SplitSizes[t])
    BY Zenon DEF Part, AddUp
  <2> QED BY <1>2, <2>1, <2>2
<1>5. SubSeq(rows, b + 1, b + q) = [j \in 1 .. q |-> rows[b + j]]
  <2>1. SubSeq(rows, b + 1, b + q) = [j \in 1 .. (1 + (b + q) - (b + 1)) |-> rows[(b + 1) + j - 1]]
    OBVIOUS
  <2>2. 1 + (b + q) - (b + 1) = q /\ \A j \in 1 .. q : (b + 1) + j - 1 = b + j
    OBVIOUS
  <2> QED BY <2>1, <2>2
<1>6. \A j \in 1 .. q : rows[b + j] = <<t, j>>
  BY <1>1, <1>2, <1>3 DEF InPlace
<1>7. TensorOf(t).rows = [j \in 1 .. q |-> <<t, j>>]
  BY <1>3 DEF TensorOf
<1> QED BY <1>4, <1>5, <1>6, <1>7

\* Tensors of one shape, with no padding to add or none that could differ.
SameTensors ==
  /\ \A s, t \in Tasks : shapes[s] = shapes[t]
  /\ PaddingSize = 0 \/ \A t \in Tasks : shapes[t].rows = 1

\* Merged tensors that begin with one that has rows r and length l.
BeginsWith(m, r, l) == m # <<>> => Head(m).len = l /\ Len(Head(m).rows) = r

LEMMA BeginsStill ==
  ASSUME NEW m \in Seq(Tensor), NEW x \in Tensor, BeginsWith(m, Len(x.rows), x.len)
  PROVE  SameShape(m, x) /\ BeginsWith(Append(m, x), Len(x.rows), x.len)
<1>1. CASE m = <<>>
  <2>1. Head(Append(m, x)) = x
    BY <1>1
  <2> QED BY <1>1, <2>1 DEF SameShape, BeginsWith
<1>2. CASE m # <<>>
  <2>1. Head(Append(m, x)) = Head(m)
    BY <1>2
  <2> QED BY <1>2, <2>1 DEF SameShape, BeginsWith
<1> QED BY <1>1, <1>2

LEMMA AlikeMerge ==
  ASSUME TTyped, shapes # <<>>, SameTensors
  PROVE  CanSplit(MergedRows)
<1>1. PICK n \in Nat : n = Len(shapes) /\ n > 0 /\ n \in 1 .. n
  BY DEF TTyped
<1>2. PICK W : W = TensorsOf([t \in Tasks |-> t])
  OBVIOUS
<1>3. TensorsAre(W, n)
  BY <1>1, <1>2, TensorsSteps
<1>4. /\ W[1 .. 0] = <<>> /\ \A i \in 0 .. n : W[1 .. i] \in Seq(Tensor)
      /\ \A i \in 0 .. n - 1 : W[1 .. i + 1] = MergeTensor(W[1 .. i], i + 1)
      /\ MergedRows = Flat(W[1 .. n])
  BY <1>3 DEF TensorsAre
<1>5. PICK r \in Nat, l \in Nat : \A t \in 1 .. n : shapes[t].rows = r /\ shapes[t].len = l
  <2>1. Tasks = 1 .. n /\ shapes[n].rows \in Nat /\ shapes[n].len \in Nat
    BY <1>1, ShapesAre
  <2>2. \A t \in 1 .. n : shapes[t] = shapes[n]
    BY <1>1, <2>1 DEF SameTensors
  <2> QED BY <2>1, <2>2
<1>6. ASSUME NEW t \in 1 .. n
      PROVE  TensorOf(t) \in Tensor /\ TensorOf(t).len = l /\ Len(TensorOf(t).rows) = r
  BY <1>1, <1>5, TensorIs
<1>7. r > 0 /\ RowsTo(shapes, 0) = 0 /\ \A i \in 0 .. n - 1 : RowsTo(shapes, i + 1) = RowsTo(shapes, i) + r
  <2>1. HaveRows(shapes, n) /\ shapes[n].rows > 0
    BY <1>1, ShapesAre
  <2>2. \A i \in 0 .. n - 1 : i + 1 \in 1 .. n /\ (i + 1) - 1 = i
    OBVIOUS
  <2>3. RowsTo(shapes, 0) = 0 /\ \A k \in 1 .. n : RowsTo(shapes, k) = RowsTo(shapes, k - 1) + shapes[k].rows
    BY <2>1, RowsToIs
  <2> QED BY <1>1, <1>5, <2>1, <2>2, <2>3
<1> DEFINE All(m, i) == BeginsWith(m, r, l) /\ Len(Flat(m)) = RowsTo(shapes, i)
           T == {i \in Nat : i < n => All(W[1 .. i], i)}
<1>8. 0 \in T
  <2>1. Flat(<<>>) = <<>>
    BY <1>1, <1>4, <1>6, FlatNext
  <2>2. BeginsWith(<<>>, r, l) /\ Len(<<>>) = 0
    BY DEF BeginsWith
  <2> QED BY <1>4, <1>7, <2>1, <2>2
<1>9. ASSUME NEW i \in Nat, i < n, All(W[1 .. i], i)
      PROVE  /\ W[1 .. i] \in Seq(Tensor) /\ SameShape(W[1 .. i], TensorOf(i + 1))
             /\ All(Append(W[1 .. i], TensorOf(i + 1)), i + 1)
  <2>1. i \in 0 .. n - 1 /\ i \in 0 .. n /\ i + 1 \in 1 .. n
    BY <1>9
  <2>2. PICK m \in Seq(Tensor) : m = W[1 .. i]
    BY <1>4, <2>1
  <2>3. PICK x \in Tensor : x = TensorOf(i + 1) /\ x.len = l /\ Len(x.rows) = r
    BY <1>6, <2>1
  <2>4. SameShape(m, x) /\ BeginsWith(Append(m, x), r, l)
    BY <1>9, <2>2, <2>3, BeginsStill
  <2>5. Flat(Append(m, x)) = Flat(m) \o x.rows /\ Flat(m) \in Seq(Nat \X Nat) /\ x.rows \in Seq(Nat \X Nat)
    BY FlatNext DEF Tensor
  <2>6. Len(Flat(m) \o x.rows) = Len(Flat(m)) + r
    BY <2>3, <2>5
  <2>7. Len(Flat(Append(m, x))) = RowsTo(shapes, i + 1)
    BY <1>7, <1>9, <2>1, <2>2, <2>5, <2>6
  <2> QED BY <2>2, <2>3, <2>4, <2>7
<1>10. ASSUME NEW i \in Nat, i \in T PROVE i + 1 \in T
  <2> SUFFICES ASSUME i + 1 < n PROVE All(W[1 .. i + 1], i + 1)
    <3>1. i + 1 \in Nat
      OBVIOUS
    <3> HIDE DEF All
    <3> QED BY <3>1, Zenon
  <2>1. i < n /\ i \in 0 .. n - 1 /\ i + 1 \in 1 .. n /\ i + 1 # n
    OBVIOUS
  <2>2. All(W[1 .. i], i)
    <3> HIDE DEF All
    <3> QED BY <1>10, <2>1, Zenon
  <2> HIDE DEF All
  <2>3. W[1 .. i] \in Seq(Tensor) /\ SameShape(W[1 .. i], TensorOf(i + 1)) /\ All(Append(W[1 .. i], TensorOf(i + 1)), i + 1)
    BY <1>9, <2>1, <2>2
  <2>4. W[1 .. i + 1] = Append(W[1 .. i], TensorOf(i + 1))
    BY <1>1, <1>4, <2>1, <2>3, MergeTensorIs
  <2> QED BY <2>3, <2>4
<1>11. PICK k \in Nat : k + 1 = n /\ k < n /\ k \in 0 .. n - 1
  <2>1. n - 1 \in Nat /\ (n - 1) + 1 = n /\ n - 1 < n /\ n - 1 \in 0 .. n - 1
    BY <1>1
  <2> QED BY <2>1
<1>12. All(W[1 .. k], k)
  <2>1. k \in T
    <3> HIDE DEF T
    <3> QED BY <1>8, <1>10, NatSetInduction
  <2> HIDE DEF All
  <2> QED BY <1>11, <2>1, Zenon
<1>13. PICK m \in Seq(Tensor), x \in Tensor :
         /\ m = W[1 .. k] /\ x = TensorOf(n) /\ SameShape(m, x)
         /\ BeginsWith(Append(m, x), r, l) /\ Len(Flat(Append(m, x))) = RowsTo(shapes, n)
  BY <1>1, <1>6, <1>9, <1>11, <1>12
<1>14. MergedRows = Flat(Fill(Append(m, x), x))
  <2>1. MergeTensor(m, n) = Fill(Append(m, x), x)
    BY <1>1, <1>13, MergeTensorIs
  <2>2. W[1 .. n] = MergeTensor(m, n)
    BY <1>4, <1>11, <1>13
  <2> QED BY <1>4, <2>1, <2>2
<1>15. PICK p \in Nat : p = PaddingSize
  BY PaddingIs
<1>16. PICK e \in Seq(Nat \X Nat) : e = Flat(Append(m, x)) /\ Len(e) = RowsTo(shapes, n)
  <2>1. Append(m, x) \in Seq(Tensor)
    BY FlatNext
  <2>2. Flat(Append(m, x)) \in Seq(Nat \X Nat)
    BY <2>1, FlatNext
  <2> QED BY <1>13, <2>2
<1>17. Len(x.rows) = r /\ x.len = l /\ x.rows \in Seq(Nat \X Nat)
  BY <1>1, <1>6, <1>13 DEF Tensor
<1>18. PICK h \in Nat \X Nat : h = Head(x.rows)
  BY <1>7, <1>17
<1>19. Len(e \o [i \in 1 .. p |-> h]) = RowsTo(shapes, n) + p
  <2>1. PICK pad \in Seq(Nat \X Nat) : pad = [i \in 1 .. p |-> h] /\ Len(pad) = p
    <3>1. [i \in 1 .. p |-> h] \in Seq(Nat \X Nat) /\ Len([i \in 1 .. p |-> h]) = p
      OBVIOUS
    <3> QED BY <3>1
  <2>2. Len(e \o pad) = Len(e) + Len(pad)
    OBVIOUS
  <2> QED BY <1>16, <2>1, <2>2
<1>20. Len(MergedRows) = RowsTo(shapes, n) + p
  <2>0. RowsTo(shapes, n) \in Nat
    BY <1>1, ShapesAre
  <2>1. PICK row : row = [x EXCEPT !.rows = <<Head(@)>>]
    OBVIOUS
  <2>2. \/ Flat(Fill(Append(m, x), x)) = e /\ ~SameShape(Append(m, x), row)
        \/ Flat(Fill(Append(m, x), x)) = e \o [i \in 1 .. p |-> h]
    <3>1. Append(m, x) \in Seq(Tensor) /\ Len(x.rows) > 0
      BY <1>7, <1>17, FlatNext
    <3> QED BY <1>15, <1>16, <1>18, <2>1, <3>1, FillIs
  <2>3. CASE p = 0
    <3>1. [i \in 1 .. 0 |-> h] = <<>> /\ e \o <<>> = e
      OBVIOUS
    <3> QED BY <1>14, <1>16, <2>0, <2>2, <2>3, <3>1
  <2>4. CASE p # 0
    <3>1. r = 1
      <4>1. n \in Tasks
        BY <1>1, ShapesAre
      <4> QED BY <1>1, <1>5, <1>15, <2>4, <4>1 DEF SameTensors
    <3>2. row.len = l /\ Len(row.rows) = 1
      <4>1. x = [len |-> x.len, rows |-> x.rows]
        BY DEF Tensor
      <4>2. row.len = x.len /\ row.rows = <<h>>
        BY <1>18, <2>1, <4>1
      <4> QED BY <1>17, <4>2
    <3>3. SameShape(Append(m, x), row)
      BY <1>13, <3>1, <3>2 DEF SameShape, BeginsWith
    <3> QED BY <1>14, <1>19, <2>2, <3>3
  <2> QED BY <2>3, <2>4
<1>21. AddUp(SplitSizes) = RowsTo(shapes, n) + p
  BY <1>1, <1>15, SplitSizesAre
<1>22. AddUp(SplitSizes) = Len(MergedRows)
  BY <1>20, <1>21
<1> QED BY <1>22, Zenon DEF CanSplit, AddUp

\* The invariant of TfBatch: its property and its types are enough.
TInv == TTyped /\ RowsAreOwn /\ EqualTasksMerge

LEMMA TInit_Inv == TInit => TInv
BY EmptySeq DEF TInit, TInv, TTyped, RowsAreOwn, EqualTasksMerge

LEMMA PaddingStays == UNCHANGED <<allowed, shapes>> => PaddingSize' = PaddingSize
<1> SUFFICES ASSUME UNCHANGED <<allowed, shapes>> PROVE PaddingSize' = PaddingSize
  OBVIOUS
<1>1. BatchRows = SumOver(shapes, Tasks)[Tasks] /\ BatchRows' = SumOver(shapes', Tasks')[Tasks']
  BY Zenon DEF BatchRows, SumOver, Picked, MapThenSumSet, MapThenFoldSet
<1>2. Tasks' = Tasks
  BY DEF Tasks
<1>3. PICK b : b = BatchRows /\ b = BatchRows'
  BY <1>1, <1>2
<1>4. Lowest(b)' = Lowest(b)
  BY DEF Lowest
<1>5. PaddingSize = Lowest(b) - b /\ PaddingSize' = Lowest(b)' - b
  BY <1>3 DEF PaddingSize, Lowest
<1> QED BY <1>4, <1>5

\* A batch gets its answers while nothing else of it changes.
LEMMA MergedAnswersKeep ==
  ASSUME TInv, UNCHANGED <<allowed, lengths, shapes>>, shapes # <<>>,
         \A t \in DOMAIN outcome' : outcome'[t].status = "ok" => outcome'[t].rows = TensorOf(t).rows,
         \A t \in DOMAIN outcome' : outcome'[t].status = "shape" => t \in Tasks /\ ~CanSplit(MergedRows)
  PROVE  TInv'
<1>1. TTyped' /\ Tasks' = Tasks /\ \A t : TensorOf(t)' = TensorOf(t)
  BY DEF TInv, TTyped, Tasks, TensorOf
<1>2. RowsAreOwn'
  BY <1>1 DEF RowsAreOwn
<1>3. EqualTasksMerge'
  <2> SUFFICES ASSUME NEW t \in DOMAIN outcome', \A s \in Tasks : shapes[s] = shapes[t],
                      PaddingSize = 0 \/ shapes[t].rows = 1, outcome'[t].status = "shape"
               PROVE  FALSE
    BY <1>1, PaddingStays DEF EqualTasksMerge
  <2>1. t \in Tasks /\ ~CanSplit(MergedRows)
    OBVIOUS
  <2>2. SameTensors
    BY DEF SameTensors
  <2> QED BY <2>1, <2>2, AlikeMerge DEF TInv
<1> QED BY <1>1, <1>2, <1>3 DEF TInv

LEMMA TNextKeeps == TInv /\ [TNext]_tvars => TInv'
<1> SUFFICES ASSUME TInv, [TNext]_tvars PROVE TInv'
  OBVIOUS
<1>1. CASE \E s \in Shapes : Schedule(s)
  <2>1. PICK s \in Shapes : Schedule(s)
    BY <1>1
  <2>2. outcome' = <<>> /\ allowed' = allowed /\ shapes' = Append(shapes, s)
    BY <2>1 DEF Schedule
  <2> QED BY <2>2 DEF TInv, TTyped, RowsAreOwn, EqualTasksMerge
<1>2. CASE AllTimeout
  <2>1. UNCHANGED <<allowed, lengths, shapes>> /\ shapes # <<>> /\ outcome' = AllDone("timeout")
    BY <1>2 DEF AllTimeout
  <2>2. \A t \in DOMAIN outcome' : outcome'[t].status = "timeout"
    BY <2>1 DEF AllDone
  <2> QED BY <2>1, <2>2, MergedAnswersKeep
<1>3. CASE RunFails
  <2>1. UNCHANGED <<allowed, lengths, shapes>> /\ shapes # <<>> /\ outcome' = AllDone("session")
    BY <1>3 DEF RunFails
  <2>2. \A t \in DOMAIN outcome' : outcome'[t].status = "session"
    BY <2>1 DEF AllDone
  <2> QED BY <2>1, <2>2, MergedAnswersKeep
<1>4. CASE BadSplit
  <2>1. UNCHANGED <<allowed, lengths, shapes>> /\ shapes # <<>> /\ outcome' = AllDone("shape") /\ ~CanSplit(MergedRows)
    BY <1>4 DEF BadSplit
  <2>2. \A t \in DOMAIN outcome' : outcome'[t].status = "shape" /\ t \in Tasks
    BY <2>1 DEF AllDone
  <2> QED BY <2>1, <2>2, MergedAnswersKeep
<1>5. CASE Dispatch
  <2>1. UNCHANGED <<allowed, lengths, shapes>> /\ shapes # <<>> /\ CanSplit(MergedRows)
        /\ outcome' = [t \in Tasks |-> [status |-> "ok", rows |-> Part(MergedRows, t)]]
    BY <1>5 DEF Dispatch
  <2>2. \A t \in DOMAIN outcome' : outcome'[t].status = "ok" /\ t \in Tasks /\ outcome'[t].rows = Part(MergedRows, t)
    BY <2>1
  <2>3. \A t \in Tasks : Part(MergedRows, t) = TensorOf(t).rows
    BY <2>1, PartIs DEF TInv
  <2> QED BY <2>1, <2>2, <2>3, MergedAnswersKeep
<1>6. CASE UNCHANGED tvars
  <2>1. UNCHANGED <<allowed, lengths, shapes, outcome>>
    BY <1>6 DEF tvars
  <2>2. PaddingSize' = PaddingSize /\ Tasks' = Tasks /\ \A t : TensorOf(t)' = TensorOf(t)
    BY <2>1, PaddingStays DEF Tasks, TensorOf
  <2> QED BY <2>1, <2>2 DEF TInv, TTyped, RowsAreOwn, EqualTasksMerge
<1> QED BY <1>1, <1>2, <1>3, <1>4, <1>5, <1>6 DEF TNext

\* Whatever the plug-in, the requests, the failures and the sizes of the batches
\* before: the rows that a task is answered with are those computed from its
\* own, in each of the three kinds of batch (processBatch() of the plug-ins, of
\* TensorFlow Lite, and TensorFlow's InferentialBatch).
THEOREM BatchesAlwaysKeepRows == IOSpec /\ LiteSpec /\ TSpec => []BatchesKeepRows
<1>1. IOSpec => []OwnResults
  <2>1. IOInv => OwnResults
    BY DEF IOInv
  <2> QED BY <2>1, IOInit_Inv, IONextKeeps, PTL DEF IOSpec
<1>2. LiteSpec => []LiteOwnRows
  <2>1. LiteInv => LiteOwnRows
    BY DEF LiteInv
  <2> QED BY <2>1, LiteInit_Inv, LiteNextKeeps, PTL DEF LiteSpec
<1>3. TSpec => []RowsAreOwn /\ []EqualTasksMerge
  <2>1. TInv => RowsAreOwn /\ EqualTasksMerge
    BY DEF TInv
  <2> QED BY <2>1, TInit_Inv, TNextKeeps, PTL DEF TSpec
<1>4. OwnResults /\ LiteOwnRows /\ RowsAreOwn /\ EqualTasksMerge => BatchesKeepRows
  BY DEF BatchesKeepRows
<1> QED BY <1>1, <1>2, <1>3, <1>4, PTL
=============================================================================
