------------------------- MODULE Computations_proofs -------------------------
(***************************************************************************)
(* What nine modules do for every value of their constants: the index of   *)
(* the served models answers every request with the model it must          *)
(* (ServingIndex), the process parses its command line, starts and ends in *)
(* order (ServerMain), TensorFlow's runtime gives every request its own    *)
(* answer, whatever shares a batch with it (TfRuntime), the instances of a *)
(* plug-in are whole, own all there is and have room (InstanceLoad),       *)
(* directories are copied and deleted exactly (FileTree), the policies     *)
(* select the versions they describe (VersionSelect), a request goes where *)
(* its target says (RestApi), configurations are sane and survive          *)
(* (ModelConfigs), and the model compiler finds the shortest way and       *)
(* leaves what is there alone (ModelCompiler).                             *)
(***************************************************************************)
EXTENDS ServingIndex, ServerMain, TfRuntime, InstanceLoad, FileTree, VersionSelect, RestApi,
        ModelConfigs, ModelCompiler,
        WellFoundedInduction, FiniteSetTheorems, SequenceTheorems, TLAPS

(***************************************************************************)
(* ServingIndex.  The index is the one of the finite set of served models: *)
(* sorted, each name's models stand together with the newest one last.     *)
(***************************************************************************)
\* The number of models of M before m.
Rank(M, m) == Cardinality({x \in M : Before(x, m)})

\* A model is a name's rank and an int.
LEMMA IdsAreNumbers ==
  ASSUME NEW x \in Ids
  PROVE  x[1] \in Names /\ x[1] \in Nat /\ x[2] \in Int /\ x = <<x[1], x[2]>>
<1>1. x[1] \in Names /\ x[2] \in Versions /\ x = <<x[1], x[2]>>
  BY DEF Ids
<1>2. Versions \subseteq Int
  <2>1. Modulus \div 2 \in Int
    BY ModulusIsEven
  <2> QED BY <2>1, VersionsAreInt
<1> QED BY <1>1, <1>2, NamesAreRanks

\* Names and versions give a strict total order.
LEMMA BeforeIsOrder ==
  ASSUME NEW a \in Ids, NEW b \in Ids, NEW c \in Ids
  PROVE  /\ ~Before(a, a)
         /\ Before(a, b) /\ Before(b, c) => Before(a, c)
         /\ a = b \/ Before(a, b) \/ Before(b, a)
<1>1. \A x \in Ids : x[1] \in Nat /\ x[2] \in Int /\ x = <<x[1], x[2]>>
  BY IdsAreNumbers
<1> QED BY <1>1 DEF Before

\* A model has more models before it than one that is before it.
LEMMA RankGrows ==
  ASSUME NEW M, M \subseteq Ids, IsFiniteSet(M), NEW a \in M, NEW b \in M
  PROVE  /\ Rank(M, a) \in 0 .. Cardinality(M) - 1
         /\ Before(a, b) <=> Rank(M, a) < Rank(M, b)
         /\ Rank(M, a) = Rank(M, b) => a = b
<1> DEFINE Below(m) == {x \in M : Before(x, m)}
<1>1. ASSUME NEW m \in M
      PROVE  /\ IsFiniteSet(Below(m)) /\ Cardinality(Below(m)) \in Nat
             /\ Cardinality(Below(m)) < Cardinality(M)
  <2>1. m \notin Below(m)
    BY <1>1, BeforeIsOrder
  <2>2. Below(m) \subseteq M /\ Below(m) # M
    BY <2>1, <1>1
  <2>3. IsFiniteSet(Below(m)) /\ Cardinality(Below(m)) <= Cardinality(M) /\ Cardinality(Below(m)) # Cardinality(M)
    BY <2>2, FS_Subset
  <2>4. Cardinality(Below(m)) \in Nat /\ Cardinality(M) \in Nat
    BY <2>3, FS_CardinalityType
  <2> QED BY <2>3, <2>4
<1>2. ASSUME NEW m \in M, NEW n \in M, Before(m, n)
      PROVE  Cardinality(Below(m)) < Cardinality(Below(n))
  <2>1. Below(m) \subseteq Below(n)
    BY <1>2, BeforeIsOrder
  <2>2. m \in Below(n) /\ m \notin Below(m)
    BY <1>2, BeforeIsOrder
  <2>3. Cardinality(Below(m)) <= Cardinality(Below(n)) /\ Cardinality(Below(m)) # Cardinality(Below(n))
    BY <1>1, <2>1, <2>2, FS_Subset
  <2>4. Cardinality(Below(m)) \in Nat /\ Cardinality(Below(n)) \in Nat
    BY <1>1
  <2> QED BY <2>3, <2>4
<1>3. Cardinality(M) \in Nat
  BY FS_CardinalityType
<1>4. Rank(M, a) = Cardinality(Below(a)) /\ Rank(M, b) = Cardinality(Below(b))
  BY DEF Rank
<1>5. a = b \/ Before(a, b) \/ Before(b, a)
  BY BeforeIsOrder
<1> HIDE DEF Below
<1> QED BY <1>1, <1>2, <1>3, <1>4, <1>5, BeforeIsOrder

\* Every model has its place, and the places are in order.
LEMMA SortedIsOrdered ==
  ASSUME NEW M, M \subseteq Ids, IsFiniteSet(M)
  PROVE  LET s == Sorted(M)
             n == Cardinality(M)
         IN /\ n \in Nat /\ DOMAIN s = 1 .. n
            /\ \A i \in 1 .. n : s[i] \in M /\ Rank(M, s[i]) = i - 1
            /\ \A m \in M : \E i \in 1 .. n : s[i] = m
<1> DEFINE s == Sorted(M)
           n == Cardinality(M)
<1>1. n \in Nat
  BY FS_CardinalityType
<1>2. DOMAIN s = 1 .. n
  BY DEF Sorted
<1>3. \A r \in 0 .. n - 1 : \E m \in M : Rank(M, m) = r
  <2> DEFINE f == [m \in M |-> Rank(M, m)]
  <2>1. f \in Injection(M, 0 .. n - 1)
    <3>1. f \in [M -> 0 .. n - 1] /\ \A a, b \in M : f[a] = f[b] => a = b
      BY RankGrows
    <3> HIDE DEF f
    <3> QED BY <3>1 DEF Injection, IsInjective
  <2>2. IsFiniteSet(0 .. n - 1) /\ Cardinality(0 .. n - 1) = n
    BY <1>1, FS_Interval
  <2>3. f \in Surjection(M, 0 .. n - 1)
    <3> HIDE DEF f
    <3> QED BY <2>1, <2>2, FS_Injection
  <2>4. \A r \in 0 .. n - 1 : \E m \in M : f[m] = r
    <3> HIDE DEF f
    <3> QED BY <2>3 DEF Surjection
  <2> QED BY <2>4
<1>4. ASSUME NEW i \in 1 .. n PROVE s[i] \in M /\ Rank(M, s[i]) = i - 1
  <2>1. i - 1 \in 0 .. n - 1
    BY <1>1
  <2>2. \E m \in M : Cardinality({x \in M : Before(x, m)}) = i - 1
    BY <1>3, <2>1 DEF Rank
  <2>3. s[i] = CHOOSE m \in M : Cardinality({x \in M : Before(x, m)}) = i - 1
    BY DEF Sorted
  <2> QED BY <2>2, <2>3 DEF Rank
<1>5. ASSUME NEW m \in M PROVE \E i \in 1 .. n : s[i] = m
  <2>1. Rank(M, m) \in 0 .. n - 1
    BY RankGrows
  <2>2. Rank(M, m) + 1 \in 1 .. n
    BY <1>1, <2>1
  <2>3. s[Rank(M, m) + 1] \in M /\ Rank(M, s[Rank(M, m) + 1]) = Rank(M, m)
    BY <1>4, <2>1, <2>2
  <2> QED BY <2>2, <2>3, RankGrows
<1> QED BY <1>1, <1>2, <1>4, <1>5

\* The neighbours tell which model is the first and which the last of its name.
LEMMA BoundariesAreEnds ==
  ASSUME NEW M, M \subseteq Ids, IsFiniteSet(M), NEW i \in 1 .. Cardinality(M)
  PROVE  LET s == Sorted(M)
         IN /\ IsBoundary(s, i - 1, i) <=> \A x \in M : x[1] = s[i][1] => s[i][2] <= x[2]
            /\ IsBoundary(s, i + 1, i) <=> \A x \in M : x[1] = s[i][1] => x[2] <= s[i][2]
<1> DEFINE s == Sorted(M)
           n == Cardinality(M)
<1>1. /\ n \in Nat /\ DOMAIN s = 1 .. n
      /\ \A k \in 1 .. n : s[k] \in M /\ Rank(M, s[k]) = k - 1
      /\ \A m \in M : \E k \in 1 .. n : s[k] = m
  BY SortedIsOrdered
<1> HIDE DEF s, n
<1>2. \A j, k \in 1 .. n : Before(s[j], s[k]) <=> j < k
  <2> SUFFICES ASSUME NEW j \in 1 .. n, NEW k \in 1 .. n PROVE Before(s[j], s[k]) <=> j < k
    OBVIOUS
  <2>1. s[j] \in M /\ s[k] \in M /\ Rank(M, s[j]) = j - 1 /\ Rank(M, s[k]) = k - 1
    BY <1>1
  <2>2. Before(s[j], s[k]) <=> Rank(M, s[j]) < Rank(M, s[k])
    BY <2>1, RankGrows
  <2> QED BY <2>1, <2>2
<1>3. \A k \in 1 .. n : s[k][1] \in Nat /\ s[k][2] \in Int
  BY <1>1, IdsAreNumbers
<1>4. i \in 1 .. n /\ i \in Int
  BY DEF n
<1>5. ASSUME IsBoundary(s, i - 1, i), NEW x \in M, x[1] = s[i][1] PROVE s[i][2] <= x[2]
  <2>1. PICK k \in 1 .. n : s[k] = x
    BY <1>1
  <2> SUFFICES ASSUME s[k][2] < s[i][2] PROVE FALSE
    BY <1>3, <1>4, <2>1
  <2>2. k < i
    BY <1>2, <1>4, <1>5, <2>1 DEF Before
  <2>3. i - 1 \in 1 .. n /\ (k = i - 1 \/ k < i - 1) /\ i - 1 < i
    BY <1>1, <1>4, <2>2
  <2>4. s[i - 1][1] # s[i][1]
    BY <1>1, <1>5, <2>3 DEF IsBoundary
  <2>5. s[k][1] <= s[i - 1][1] /\ s[i - 1][1] <= s[i][1]
    BY <1>2, <1>3, <1>4, <2>3 DEF Before
  <2> QED BY <1>3, <1>4, <1>5, <2>1, <2>3, <2>4, <2>5
<1>6. ASSUME IsBoundary(s, i + 1, i), NEW x \in M, x[1] = s[i][1] PROVE x[2] <= s[i][2]
  <2>1. PICK k \in 1 .. n : s[k] = x
    BY <1>1
  <2> SUFFICES ASSUME s[i][2] < s[k][2] PROVE FALSE
    BY <1>3, <1>4, <2>1
  <2>2. i < k
    BY <1>2, <1>4, <1>5, <1>6, <2>1 DEF Before
  <2>3. i + 1 \in 1 .. n /\ (k = i + 1 \/ i + 1 < k) /\ i < i + 1
    BY <1>1, <1>4, <2>2
  <2>4. s[i + 1][1] # s[i][1]
    BY <1>1, <1>6, <2>3 DEF IsBoundary
  <2>5. s[i][1] <= s[i + 1][1] /\ s[i + 1][1] <= s[k][1]
    BY <1>2, <1>3, <1>4, <2>3 DEF Before
  <2> QED BY <1>3, <1>4, <1>6, <2>1, <2>3, <2>4, <2>5
<1>7. ASSUME ~IsBoundary(s, i - 1, i) PROVE \E x \in M : x[1] = s[i][1] /\ ~(s[i][2] <= x[2])
  <2>1. i - 1 \in 1 .. n /\ s[i - 1][1] = s[i][1] /\ i - 1 < i
    BY <1>1, <1>4, <1>7 DEF IsBoundary
  <2>2. s[i - 1][2] < s[i][2]
    BY <1>2, <1>3, <1>4, <2>1 DEF Before
  <2> QED BY <1>1, <1>3, <1>4, <2>1, <2>2
<1>8. ASSUME ~IsBoundary(s, i + 1, i) PROVE \E x \in M : x[1] = s[i][1] /\ ~(x[2] <= s[i][2])
  <2>1. i + 1 \in 1 .. n /\ s[i + 1][1] = s[i][1] /\ i < i + 1
    BY <1>1, <1>4, <1>8 DEF IsBoundary
  <2>2. s[i][2] < s[i + 1][2]
    BY <1>2, <1>3, <1>4, <2>1 DEF Before
  <2> QED BY <1>1, <1>3, <1>4, <2>1, <2>2
<1> QED BY <1>5, <1>6, <1>7, <1>8 DEF s

\* A name with a model has a first and a last one.
LEMMA EndsExist ==
  ASSUME NEW N, N \subseteq Ids, IsFiniteSet(N), N # {}, \A x, y \in N : x[1] = y[1]
  PROVE  /\ \E m \in N : \A x \in N : m[2] <= x[2]
         /\ \E m \in N : \A x \in N : x[2] <= m[2]
<1> DEFINE s == Sorted(N)
           n == Cardinality(N)
<1>1. /\ n \in Nat
      /\ \A k \in 1 .. n : s[k] \in N /\ Rank(N, s[k]) = k - 1
      /\ \A m \in N : \E k \in 1 .. n : s[k] = m
  BY SortedIsOrdered
<1> HIDE DEF s, n
<1>2. 1 \in 1 .. n /\ n \in 1 .. n
  <2>1. \E k \in 1 .. n : TRUE
    BY <1>1
  <2> QED BY <1>1, <2>1
<1>3. ASSUME NEW x \in N PROVE s[1][2] <= x[2] /\ x[2] <= s[n][2]
  <2>1. PICK k \in 1 .. n : s[k] = x
    BY <1>1
  <2>2. Rank(N, s[1]) = 0 /\ Rank(N, s[n]) = n - 1 /\ Rank(N, x) = k - 1
    BY <1>1, <1>2, <2>1
  <2>3. ~Before(x, s[1]) /\ ~Before(s[n], x)
    <3>1. ~(k - 1 < 0) /\ ~(n - 1 < k - 1)
      BY <1>1
    <3>2. s[1] \in N /\ s[n] \in N
      BY <1>1, <1>2
    <3> QED BY <2>2, <3>1, <3>2, RankGrows
  <2>4. s[1] \in N /\ s[n] \in N
    BY <1>1, <1>2
  <2>5. x[1] = s[1][1] /\ x[1] = s[n][1]
    BY <2>4
  <2>6. s[1][2] \in Int /\ s[n][2] \in Int /\ x[2] \in Int
    BY <2>4, IdsAreNumbers
  <2> QED BY <2>3, <2>5, <2>6 DEF Before
<1> QED BY <1>1, <1>2, <1>3

\* A model that is the oldest, or the newest, of its name's.
Oldest(M, m) == \A x \in M : x[1] = m[1] => m[2] <= x[2]
Newest(M, m) == \A x \in M : x[1] = m[1] => x[2] <= m[2]

\* What emplace() adds for all the models.
LEMMA IndexIs ==
  ASSUME NEW M, M \subseteq Ids, IsFiniteSet(M)
  PROVE  Index(M) = {<<Specific(m), m>> : m \in M}
                    \union {<<Earliest(m[1]), m>> : m \in {x \in M : Oldest(M, x)}}
                    \union {<<Latest(m[1]), m>> : m \in {x \in M : Newest(M, x)}}
<1> DEFINE s == Sorted(M)
           n == Cardinality(M)
           S(m) == {<<Specific(m), m>>}
           E(m) == {<<Earliest(m[1]), m>> : p \in {q \in {0} : Oldest(M, m)}}
           L(m) == {<<Latest(m[1]), m>> : p \in {q \in {0} : Newest(M, m)}}
<1>1. /\ DOMAIN s = 1 .. n
      /\ \A i \in 1 .. n : s[i] \in M
      /\ \A m \in M : \E i \in 1 .. n : s[i] = m
  BY SortedIsOrdered
<1>2. \A i \in 1 .. n : /\ IsBoundary(s, i - 1, i) <=> Oldest(M, s[i])
                        /\ IsBoundary(s, i + 1, i) <=> Newest(M, s[i])
  BY BoundariesAreEnds DEF Oldest, Newest
<1>3. Index(M) = UNION {Entries(s, i) : i \in 1 .. n}
  BY <1>1 DEF Index
<1> HIDE DEF s, n
<1>4. ASSUME NEW i \in 1 .. n
      PROVE  Entries(s, i) = S(s[i]) \union E(s[i]) \union L(s[i])
  BY <1>2 DEF Entries
<1>5. UNION {Entries(s, i) : i \in 1 .. n} = UNION {S(m) \union E(m) \union L(m) : m \in M}
  <2> HIDE DEF S, E, L
  <2> QED BY <1>1, <1>4
<1> QED BY <1>3, <1>5

\* What a request asks for.
LEMMA FromIs ==
  ASSUME NEW spec \in ModelSpec
  PROVE  /\ spec.name \in Names
         /\ spec.choice = "version" => From(spec) = Specific(<<spec.name, ToInt(spec.value)>>)
         /\ spec.choice = "stable" => From(spec) = Earliest(spec.name)
         /\ spec.choice \notin {"version", "stable"} => From(spec) = Latest(spec.name)
<1>1. spec.name \in Names
  BY DEF ModelSpec
<1>2. spec.choice = "version" => From(spec) = Specific(<<spec.name, ToInt(spec.value)>>)
  BY Zenon DEF From
<1>3. spec.choice = "stable" => From(spec) = Earliest(spec.name)
  <2>1. "stable" # "version"
    OBVIOUS
  <2> QED BY <2>1, Zenon DEF From
<1>4. spec.choice \notin {"version", "stable"} => From(spec) = Latest(spec.name)
  BY Zenon DEF From
<1> QED BY <1>1, <1>2, <1>3, <1>4

\* The index is the one of the ready models, which are finitely many.
IndexInv == ready \subseteq Ids /\ IsFiniteSet(ready) /\ index = Index(ready)

\* Nothing is served at the beginning.
LEMMA InitIndexInv == Init => IndexInv
<1> SUFFICES ASSUME Init PROVE IndexInv
  OBVIOUS
<1>1. IsFiniteSet(ready) /\ ready \subseteq Ids /\ ready = {}
  BY FS_EmptySet DEF Init
<1>2. Index(ready) = {}
  BY <1>1, IndexIs
<1> QED BY <1>1, <1>2 DEF IndexInv, Init

\* Whatever is loaded or unloaded, the index is made anew of what is served.
LEMMA NextIndexInv == IndexInv /\ [Next]_vars => IndexInv'
<1> SUFFICES ASSUME IndexInv, [Next]_vars PROVE IndexInv'
  OBVIOUS
<1>1. ASSUME NEW id \in Ids, Load(id) PROVE IndexInv'
  BY <1>1, FS_AddElement DEF Load, IndexInv
<1>2. ASSUME NEW id \in Ids, Unload(id) PROVE IndexInv'
  BY <1>2, FS_RemoveElement DEF Unload, IndexInv
<1>3. CASE UNCHANGED vars
  BY <1>3 DEF vars, IndexInv
<1> QED BY <1>1, <1>2, <1>3 DEF Next

\* The boundaries of a name are its oldest and its newest model.
LEMMA IndexInvServesEnds == IndexInv => EndsAreServed
<1> SUFFICES ASSUME IndexInv, NEW spec \in ModelSpec, spec.choice # "version"
             PROVE  LET vs == ReadyVersions(spec.name)
                        ans == Lookup(index, spec)
                    IN IF vs = {} THEN ans = None
                       ELSE /\ ans \in ready /\ ans[1] = spec.name
                            /\ \A v \in vs : IF spec.choice = "stable" THEN ans[2] <= v ELSE v <= ans[2]
  BY DEF EndsAreServed
<1> DEFINE nm == spec.name
           ans == Lookup(index, spec)
           found == {e \in index : e[1] = From(spec)}
           N == {r \in ready : r[1] = nm}
           E == {<<Earliest(m[1]), m>> : m \in {x \in ready : Oldest(ready, x)}}
           L == {<<Latest(m[1]), m>> : m \in {x \in ready : Newest(ready, x)}}
           S == {<<Specific(m), m>> : m \in ready}
<1>1. index = S \union E \union L
  BY IndexIs DEF IndexInv
<1>2. ReadyVersions(nm) = {id[2] : id \in N}
  BY DEF ReadyVersions
<1>3. IsFiniteSet(N) /\ N \subseteq Ids /\ \A x, y \in N : x[1] = y[1]
  BY FS_Subset DEF IndexInv
<1>4. ans = IF found = {} THEN None ELSE (CHOOSE e \in found : TRUE)[2]
  BY DEF Lookup
<1>5. CASE spec.choice = "stable"
  <2>1. From(spec) = Earliest(nm)
    BY <1>5, FromIs
  <2>2. found = {<<Earliest(m[1]), m>> : m \in {x \in N : Oldest(ready, x)}}
    BY <1>1, <2>1 DEF Earliest, Latest, Specific
  <2> HIDE DEF found, ans
  <2>3. CASE N = {}
    BY <1>2, <1>4, <2>2, <2>3 DEF ans
  <2>4. CASE N # {}
    <3>1. PICK m \in N : \A x \in N : m[2] <= x[2]
      BY <1>3, <2>4, EndsExist
    <3>2. <<Earliest(m[1]), m>> \in found
      BY <2>2, <3>1 DEF Oldest
    <3>3. ans \in N /\ Oldest(ready, ans)
      <4>1. (CHOOSE e \in found : TRUE) \in found
        BY <3>2
      <4>2. PICK x \in N : Oldest(ready, x) /\ (CHOOSE e \in found : TRUE) = <<Earliest(x[1]), x>>
        BY <2>2, <4>1
      <4>3. ans = (CHOOSE e \in found : TRUE)[2]
        BY <1>4, <3>2, Zenon
      <4>4. ans = x
        <5>1. \A e, a, b : e = <<a, b>> => e[2] = b
          OBVIOUS
        <5> QED BY <4>2, <4>3, <5>1, Zenon
      <4> QED BY <4>2, <4>4
    <3> QED BY <1>2, <1>5, <2>4, <3>3 DEF Oldest, ans
  <2> QED BY <2>3, <2>4
<1>6. CASE spec.choice # "stable"
  <2>1. From(spec) = Latest(nm)
    BY <1>6, FromIs
  <2>2. found = {<<Latest(m[1]), m>> : m \in {x \in N : Newest(ready, x)}}
    BY <1>1, <2>1 DEF Earliest, Latest, Specific
  <2> HIDE DEF found, ans
  <2>3. CASE N = {}
    BY <1>2, <1>4, <2>2, <2>3 DEF ans
  <2>4. CASE N # {}
    <3>1. PICK m \in N : \A x \in N : x[2] <= m[2]
      BY <1>3, <2>4, EndsExist
    <3>2. <<Latest(m[1]), m>> \in found
      BY <2>2, <3>1 DEF Newest
    <3>3. ans \in N /\ Newest(ready, ans)
      <4>1. (CHOOSE e \in found : TRUE) \in found
        BY <3>2
      <4>2. PICK x \in N : Newest(ready, x) /\ (CHOOSE e \in found : TRUE) = <<Latest(x[1]), x>>
        BY <2>2, <4>1
      <4>3. ans = (CHOOSE e \in found : TRUE)[2]
        BY <1>4, <3>2, Zenon
      <4>4. ans = x
        <5>1. \A e, a, b : e = <<a, b>> => e[2] = b
          OBVIOUS
        <5> QED BY <4>2, <4>3, <5>1, Zenon
      <4> QED BY <4>2, <4>4
    <3> QED BY <1>2, <1>6, <2>4, <3>3 DEF Newest, ans
  <2> QED BY <2>3, <2>4
<1> QED BY <1>5, <1>6

\* An id that is found is the one of the model itself.
LEMMA IndexInvIsSpecific == IndexInv => SpecificIsExact
<1> SUFFICES ASSUME IndexInv, NEW spec \in ModelSpec, spec.choice = "version", ToInt(spec.value) = spec.value
             PROVE  Lookup(index, spec) = IF <<spec.name, spec.value>> \in ready
                                          THEN <<spec.name, spec.value>> ELSE None
  BY DEF SpecificIsExact
<1> DEFINE id == <<spec.name, spec.value>>
           found == {e \in index : e[1] = From(spec)}
<1>1. From(spec) = Specific(id)
  BY FromIs
<1>2. index = {<<Specific(m), m>> : m \in ready}
              \union {<<Earliest(m[1]), m>> : m \in {x \in ready : Oldest(ready, x)}}
              \union {<<Latest(m[1]), m>> : m \in {x \in ready : Newest(ready, x)}}
  BY IndexIs DEF IndexInv
<1>3. \A m \in ready : Specific(m) = Specific(id) => m = id
  <2>1. \A m \in ready : m = <<m[1], m[2]>>
    BY IdsAreNumbers DEF IndexInv
  <2> QED BY <2>1 DEF Specific
<1>4. found = {<<Specific(m), m>> : m \in {x \in ready : x = id}}
  BY <1>1, <1>2, <1>3 DEF Specific, Earliest, Latest
<1>5. Lookup(index, spec) = IF found = {} THEN None ELSE (CHOOSE e \in found : TRUE)[2]
  BY DEF Lookup
<1> HIDE DEF found
<1>6. CASE id \in ready
  <2>1. found = {<<Specific(id), id>>}
    BY <1>4, <1>6
  <2>2. (CHOOSE e \in found : TRUE) = <<Specific(id), id>>
    BY <2>1
  <2> QED BY <1>5, <1>6, <2>1, <2>2
<1>7. CASE id \notin ready
  <2>1. found = {}
    BY <1>4, <1>7
  <2> QED BY <1>5, <1>7, <2>1
<1> QED BY <1>6, <1>7

\* A request for the newest, the oldest or a named version is answered with exactly
\* that served model, or with nothing when it is not served, after any number of
\* loads and unloads (BoardedModels::normal() and searchFor() with their wrap-around).
THEOREM IndexServesExactly == Spec => []IndexIsExact
<1>1. IndexInv => IndexIsExact
  BY IndexInvServesEnds, IndexInvIsSpecific DEF IndexIsExact
<1> QED BY <1>1, InitIndexInv, NextIndexInv, PTL DEF Spec
-----------------------------------------------------------------------------
(***************************************************************************)
(* ServerMain.  Two servers at most run, those that the options ask for,   *)
(* and the base roles that stand are the last ones made.                   *)
(***************************************************************************)
\* The greatest and the least of a set, once they are known to be there.
LEMMA GreatestIs ==
  ASSUME NEW S, S \subseteq Int, NEW m \in S, \A x \in S : x <= m
  PROVE  Max(S) = m
<1>1. \A y \in S : m >= y
  OBVIOUS
<1>2. Max(S) \in S /\ \A y \in S : Max(S) >= y
  BY <1>1 DEF Max
<1>3. Max(S) >= m /\ m >= Max(S) /\ Max(S) \in Int /\ m \in Int
  BY <1>1, <1>2
<1> QED BY <1>3

\* The loops, the servers, and where main() is once the arguments are parsed.
Loops == {"StorageLoop", "BoardingLoop"}
Servers == {"GrpcServer", "HttpServer"}
Begun == {"grpc", "http", "wait", "undefined", "exit"}

\* What the variables hold.
MainTypes ==
  /\ smArgs \in Seq(CliArgs)
  /\ smNext \in Nat \ {0} /\ smNext <= Len(smArgs) + 1
  /\ DOMAIN smValues = DOMAIN Defaults
  /\ smMain \in Begun \union {"new", "parsing"}
  /\ smServers \subseteq Servers /\ smRounds \subseteq Loops /\ smRoles \subseteq ToSet(Bases)

\* The arguments before the next one are parsed, and all of them before the
\* servers start.
ArgsParsed ==
  /\ smMain = "new" => smNext = 1
  /\ \A i \in 1 .. smNext - 1 : Good(smArgs[i])
  /\ smMain \in {"grpc", "http", "wait", "undefined"} => smNext \notin DOMAIN smArgs
  /\ \A name \in DOMAIN smValues : smValues[name] = LastOf(name)

\* What runs was started by the options, after they were parsed.
StartedByOptions ==
  /\ smMain \in {"new", "parsing"} => smServers = {} /\ smRounds = {}
  /\ smRounds # {} => smValues["loading_method"] = Named("automatic")
  /\ "GrpcServer" \in smServers => Port("grpc_port") > 0
  /\ "HttpServer" \in smServers => Port("http_port") > 0

\* The roles that stand are the first ones of the bases, the servers and with
\* them the handlers on top.
RolesStand ==
  /\ smMain # "exit" => smRoles = ToSet(Bases)
  /\ \A i, j \in DOMAIN Bases : i < j /\ Bases[j] \in smRoles => Bases[i] \in smRoles
  /\ smHandlers \subseteq smServers /\ smServers \subseteq smRoles

\* All of them.
MainInv == MainTypes /\ ArgsParsed /\ StartedByOptions /\ RolesStand

\* The base roles of the server core, in the order of their construction.
LEMMA BasesAre ==
  /\ DOMAIN Bases = 1 .. 9
  /\ \A i, j \in 1 .. 9 : Bases[i] = Bases[j] => i = j
  /\ ToSet(Bases) = {"StorageLoop", "BoardingLoop", "ModelStore", "ManagedStore", "ServingStore", "EventBus",
                     "PredictImpl", "GrpcServer", "HttpServer"}
  /\ Bases[1] = "StorageLoop" /\ Bases[2] = "BoardingLoop" /\ Bases[3] = "ModelStore" /\ Bases[4] = "ManagedStore"
  /\ Bases[5] = "ServingStore" /\ Bases[6] = "EventBus" /\ Bases[7] = "PredictImpl" /\ Bases[8] = "GrpcServer"
  /\ Bases[9] = "HttpServer"
<1>1. DOMAIN Bases = 1 .. 9
  BY DEF Bases
<1>2. /\ Bases[1] = "StorageLoop" /\ Bases[2] = "BoardingLoop" /\ Bases[3] = "ModelStore" /\ Bases[4] = "ManagedStore"
      /\ Bases[5] = "ServingStore" /\ Bases[6] = "EventBus" /\ Bases[7] = "PredictImpl" /\ Bases[8] = "GrpcServer"
      /\ Bases[9] = "HttpServer"
  BY DEF Bases
<1>3. \A i \in 1 .. 9 : i = 1 \/ i = 2 \/ i = 3 \/ i = 4 \/ i = 5 \/ i = 6 \/ i = 7 \/ i = 8 \/ i = 9
  OBVIOUS
<1>4. \A i, j \in 1 .. 9 : Bases[i] = Bases[j] => i = j
  BY <1>2, <1>3
<1>5. ToSet(Bases) = {"StorageLoop", "BoardingLoop", "ModelStore", "ManagedStore", "ServingStore", "EventBus",
                     "PredictImpl", "GrpcServer", "HttpServer"}
  <2> HIDE DEF Bases
  <2>1. ToSet(Bases) = {Bases[i] : i \in 1 .. 9}
    BY <1>1 DEF ToSet
  <2> QED BY <2>1, <1>2, <1>3
<1> QED BY <1>1, <1>2, <1>4, <1>5

\* The options' names.
LEMMA OptionsAre ==
  /\ {"loading_method", "grpc_port", "http_port"} \subseteq DOMAIN Defaults
  /\ DOMAIN Defaults = {o[1] : o \in Options}
<1>1. DOMAIN Defaults = {o[1] : o \in Options}
  BY DEF Defaults
<1>2. DOMAIN OptionSets = 1 .. 3 /\ OptionSets[1] = GrpcOptionSet /\ OptionSets[2] = HttpOptionSet
      /\ OptionSets[3] = ModelOptionSet
  BY DEF OptionSets
<1>3. <<"grpc_port", "int">> \in ToSet(GrpcOptionSet)
  BY DEF GrpcOptionSet, ToSet
<1>4. <<"http_port", "int">> \in ToSet(HttpOptionSet)
  BY DEF HttpOptionSet, ToSet
<1>5. <<"loading_method", "string">> \in ToSet(ModelOptionSet)
  BY DEF ModelOptionSet, ToSet
<1>6. {<<"grpc_port", "int">>, <<"http_port", "int">>, <<"loading_method", "string">>} \subseteq Options
  BY <1>2, <1>3, <1>4, <1>5 DEF Options
<1> QED BY <1>1, <1>6

\* What the options say stays, once they are parsed.
LEMMA ParsedStays ==
  ASSUME MainInv, UNCHANGED <<smArgs, smNext, smValues>>,
         smMain' \in {"grpc", "http", "wait", "undefined"} => smNext \notin DOMAIN smArgs,
         smMain' = "new" => smMain = "new"
  PROVE  ArgsParsed'
<1>1. \A name : LastOf(name)' = LastOf(name)
  BY DEF LastOf
<1> QED BY <1>1 DEF MainInv, ArgsParsed

\* A role that stands is below the ones that stand, and the next one above all.
LEMMA NextStands ==
  ASSUME MainInv, smRoles # {}
  PROVE  \E k \in 1 .. 9 : /\ NextRole = Bases[k] /\ Bases[k] \in smRoles
                          /\ \A i \in 1 .. 9 : Bases[i] \in smRoles => i <= k
<1>1. Standing \subseteq 1 .. 9
  BY BasesAre DEF Standing
<1>2. PICK j \in 1 .. 9 : Bases[j] \in smRoles
  <2>1. ToSet(Bases) = {Bases[i] : i \in 1 .. 9}
    BY BasesAre DEF ToSet
  <2> QED BY <2>1 DEF MainInv, MainTypes
<1> DEFINE T(k) == Bases[k] \in smRoles /\ \A i \in 1 .. 9 : Bases[i] \in smRoles => i <= k
<1>3. \E k \in 1 .. 9 : T(k)
  <2> SUFFICES ASSUME \A k \in 1 .. 9 : ~T(k) PROVE FALSE
    OBVIOUS
  <2>1. Bases[9] \notin smRoles
    <3>1. \A i \in 1 .. 9 : i <= 9
      OBVIOUS
    <3> QED BY <3>1
  <2> HIDE DEF T
  <2> QED
    BY <2>1, <1>2, BasesAre DEF T
<1>4. PICK k \in 1 .. 9 : T(k)
  BY <1>3
<1>5. k \in Standing /\ \A i \in Standing : i <= k
  BY <1>1, <1>4, BasesAre DEF Standing
<1>6. Max(Standing) = k
  <2>1. Standing \subseteq Int /\ k \in Standing /\ \A x \in Standing : x <= k
    BY <1>1, <1>5
  <2> HIDE DEF T
  <2> QED BY <2>1, GreatestIs
<1> QED BY <1>4, <1>6 DEF NextRole

\* Nothing is parsed and nothing runs.
LEMMA InitMainInv == SmInit => MainInv
<1> SUFFICES ASSUME SmInit PROVE MainInv
  OBVIOUS
<1> USE DEF SmInit
<1>1. MainTypes
  BY DEF MainTypes, Begun
<1>2. ArgsParsed
  <2>1. 1 .. smNext - 1 = {}
    OBVIOUS
  <2>2. \A name : LastOf(name) = Defaults[name]
    BY <2>1 DEF LastOf
  <2> QED BY <2>1, <2>2 DEF ArgsParsed
<1>3. StartedByOptions /\ RolesStand
  BY BasesAre DEF StartedByOptions, RolesStand, ToSet
<1> QED BY <1>1, <1>2, <1>3 DEF MainInv

\* An argument sets its own option, or ends the program.
LEMMA ParseArgKeeps == MainInv /\ ParseArg => MainInv'
<1> SUFFICES ASSUME MainInv, ParseArg PROVE MainInv'
  OBVIOUS
<1> DEFINE arg == smArgs[smNext]
<1>0. smNext \in 1 .. Len(smArgs) /\ smArgs \in Seq(CliArgs) /\ smNext \in Nat \ {0}
  BY DEF MainInv, MainTypes, ParseArg
<1>1. Good(arg) /\ arg.name \in DOMAIN smValues
  BY OptionsAre DEF ParseArg, Good, Parses, MainInv, MainTypes
<1>2. /\ smValues' = [smValues EXCEPT ![arg.name] = arg.token] /\ smNext' = smNext + 1
      /\ UNCHANGED <<smArgs, smMain, smServers, smChannels, smHandlers, smRounds, smRoles>>
      /\ smMain = "parsing"
  BY DEF ParseArg
<1>3. MainTypes'
  BY <1>0, <1>2 DEF MainInv, MainTypes
<1>4. ArgsParsed'
  <2>1. 1 .. smNext' - 1 = (1 .. smNext - 1) \union {smNext}
    BY <1>0, <1>2
  <2>2. \A i \in 1 .. smNext' - 1 : Good(smArgs[i])
    BY <1>1, <2>1 DEF MainInv, ArgsParsed
  <2>3. ASSUME NEW name \in DOMAIN smValues'
        PROVE  smValues'[name] = LastOf(name)'
    <3> DEFINE given == {i \in 1 .. smNext - 1 : smArgs[i].name = name}
               now == {i \in 1 .. smNext' - 1 : smArgs'[i].name = name}
    <3>1. name \in DOMAIN smValues /\ smValues[name] = LastOf(name)
      BY <1>2, <2>3 DEF MainInv, ArgsParsed
    <3>2. CASE name = arg.name
      <4>1. smNext \in now /\ now \subseteq Int /\ \A x \in now : x <= smNext
        BY <1>0, <1>2, <2>1, <3>2
      <4>2. Max(now) = smNext
        BY <4>1, GreatestIs
      <4>3. LastOf(name)' = smArgs[smNext].token
        BY <4>1, <4>2, <1>2 DEF LastOf
      <4> QED BY <4>3, <1>2, <3>1, <3>2
    <3>3. CASE name # arg.name
      <4>1. now = given
        BY <2>1, <3>3, <1>2
      <4>2. LastOf(name)' = LastOf(name)
        BY <4>1, <1>2 DEF LastOf
      <4> QED BY <4>2, <1>2, <3>1, <3>3
    <3> QED BY <3>2, <3>3
  <2> QED BY <1>2, <2>2, <2>3 DEF ArgsParsed, Good
<1>5. StartedByOptions'
  BY <1>2 DEF MainInv, StartedByOptions
<1>6. RolesStand'
  BY <1>2 DEF MainInv, RolesStand
<1> QED BY <1>3, <1>4, <1>5, <1>6 DEF MainInv

\* A step of the main thread after the first one, which changes none of the
\* values, handlers, rounds and roles, and starts at most the servers it may.
LEMMA MainGoesOn ==
  ASSUME MainInv, UNCHANGED <<smArgs, smNext, smValues, smHandlers, smRounds, smRoles>>,
         smMain \notin {"new", "exit"}, smMain' \in Begun,
         smMain = "parsing" => smMain' = "exit" \/ smNext \notin DOMAIN smArgs,
         \/ UNCHANGED smServers
         \/ smServers' = smServers \union {"GrpcServer"} /\ Port("grpc_port") > 0
         \/ smServers' = smServers \union {"HttpServer"} /\ Port("http_port") > 0
  PROVE  MainInv'
<1>1. MainTypes'
  BY DEF MainInv, MainTypes, Servers
<1>2. ArgsParsed'
  BY ParsedStays DEF MainInv, ArgsParsed, MainTypes, Begun
<1>3. StartedByOptions'
  BY DEF MainInv, StartedByOptions, Port, Begun
<1>4. RolesStand'
  <2>1. smRoles = ToSet(Bases) /\ smServers' \subseteq smRoles
    BY BasesAre DEF MainInv, RolesStand
  <2> QED BY <2>1 DEF MainInv, RolesStand
<1> QED BY <1>1, <1>2, <1>3, <1>4 DEF MainInv

\* The role that is destroyed is the last one that stands.
LEMMA RolesGo == MainInv /\ Destroy => MainInv'
<1> SUFFICES ASSUME MainInv, Destroy PROVE MainInv'
  OBVIOUS
<1>1. PICK k \in 1 .. 9 : /\ NextRole = Bases[k] /\ Bases[k] \in smRoles
                          /\ \A i \in 1 .. 9 : Bases[i] \in smRoles => i <= k
  BY NextStands DEF Destroy
<1>2. /\ UNCHANGED <<smArgs, smNext, smValues, smMain, smHandlers, smRounds>> /\ smMain = "exit"
      /\ smServers' = smServers \ {Bases[k]} /\ smRoles' = smRoles \ {Bases[k]} /\ Bases[k] \notin smHandlers
  BY <1>1 DEF Destroy
<1>3. MainTypes'
  BY <1>2 DEF MainInv, MainTypes
<1>4. ArgsParsed'
  BY <1>2, ParsedStays
<1>5. StartedByOptions'
  BY <1>2 DEF MainInv, StartedByOptions, Port
<1>6. RolesStand'
  <2>1. \A i, j \in 1 .. 9 : i < j /\ Bases[j] \in smRoles' => Bases[i] \in smRoles'
    <3> SUFFICES ASSUME NEW i \in 1 .. 9, NEW j \in 1 .. 9, i < j, Bases[j] \in smRoles'
                 PROVE  Bases[i] \in smRoles'
      OBVIOUS
    <3>1. Bases[j] \in smRoles /\ j <= k /\ j # k
      BY <1>1, <1>2
    <3>2. i # k /\ Bases[i] \in smRoles
      BY <3>1, BasesAre DEF MainInv, RolesStand
    <3> QED BY <3>2, <1>2, BasesAre
  <2>2. smHandlers' \subseteq smServers' /\ smServers' \subseteq smRoles'
    BY <1>2 DEF MainInv, RolesStand
  <2> QED BY <2>1, <2>2, <1>2, BasesAre DEF RolesStand
<1> QED BY <1>3, <1>4, <1>5, <1>6 DEF MainInv

\* Every other step of main() keeps what has been parsed.
LEMMA NextMainInv == MainInv /\ [SmNext]_smvars => MainInv'
<1> SUFFICES ASSUME MainInv, [SmNext]_smvars PROVE MainInv'
  OBVIOUS
<1> DEFINE OfStart == <<smArgs, smNext, smValues, smRoles>>
<1>1. ASSUME NEW args \in SeqOf(CliArgs, CliMaxArgs), Call(args) PROVE MainInv'
  <2>1. args \in Seq(CliArgs)
    BY CliBound DEF SeqOf
  <2>2. smMain = "new" /\ smMain' = "parsing" /\ smArgs' = args /\ smNext = 1
        /\ UNCHANGED <<smNext, smValues, smServers, smHandlers, smRounds, smRoles>>
    BY <1>1 DEF Call, Main, MainInv, ArgsParsed
  <2>3. MainTypes'
    BY <2>1, <2>2 DEF MainInv, MainTypes
  <2>4. ArgsParsed'
    <3>1. 1 .. smNext - 1 = {} /\ 1 .. smNext' - 1 = {}
      BY <2>2
    <3>2. \A name : LastOf(name)' = LastOf(name)
      BY <2>2, <3>1 DEF LastOf
    <3> QED BY <2>2, <3>1, <3>2 DEF MainInv, ArgsParsed
  <2>5. StartedByOptions' /\ RolesStand'
    BY <2>2 DEF MainInv, StartedByOptions, RolesStand, Port
  <2> QED BY <2>3, <2>4, <2>5 DEF MainInv
<1>2. CASE ParseArg
  BY <1>2, ParseArgKeeps
<1>3. CASE InvalidOption
  BY <1>3, MainGoesOn DEF InvalidOption, Main, Begun
<1>4. CASE ConfigFails
  BY <1>4, MainGoesOn DEF ConfigFails, Main, Begun
<1>5. CASE Configured
  BY <1>5, MainGoesOn DEF Configured, Main, Begun
<1>6. CASE GrpcStarts
  BY <1>6, MainGoesOn DEF GrpcStarts, Main, Begun
<1>7. CASE NoGrpc
  BY <1>7, MainGoesOn DEF NoGrpc, Main, Begun
<1>8. CASE GrpcFails
  BY <1>8, MainGoesOn DEF GrpcFails, Main, Begun
<1>9. CASE GrpcUndefined
  BY <1>9, MainGoesOn DEF GrpcUndefined, Main, Begun
<1>10. CASE HttpStarts
  BY <1>10, MainGoesOn DEF HttpStarts, Main, Begun
<1>11. CASE NoHttp
  BY <1>11, MainGoesOn DEF NoHttp, Main, Begun
<1>12. CASE HttpFails
  BY <1>12, MainGoesOn DEF HttpFails, Main, Begun
<1>13. CASE Waited
  BY <1>13, MainGoesOn DEF Waited, Main, Begun
<1>14. CASE Destroy
  BY <1>14, RolesGo
<1>15. ASSUME UNCHANGED <<smArgs, smNext, smValues, smMain, smServers, smRoles>>,
              smHandlers' \subseteq smServers, smRounds' \subseteq Loops,
              smRounds' \subseteq smRounds \/ Polls
       PROVE  MainInv'
  <2>1. MainTypes'
    BY <1>15 DEF MainInv, MainTypes
  <2>2. ArgsParsed'
    BY <1>15, ParsedStays DEF MainInv, ArgsParsed
  <2>3. StartedByOptions'
    BY <1>15 DEF MainInv, StartedByOptions, Port, Polls
  <2>4. RolesStand'
    BY <1>15 DEF MainInv, RolesStand
  <2> QED BY <2>1, <2>2, <2>3, <2>4 DEF MainInv
<1>16. ASSUME NEW s \in {"GrpcServer", "HttpServer"}, Begins(s) \/ Ends(s) PROVE MainInv'
  BY <1>15, <1>16 DEF Begins, Ends, MainInv, MainTypes, RolesStand
<1>17. ASSUME NEW l \in {"StorageLoop", "BoardingLoop"}, LoopBegins(l) \/ LoopEnds(l) PROVE MainInv'
  BY <1>15, <1>17 DEF LoopBegins, LoopEnds, MainInv, MainTypes, RolesStand, Loops
<1>18. CASE UNCHANGED smvars
  BY <1>18, <1>15 DEF smvars, MainInv, MainTypes, RolesStand
<1> QED
  BY <1>1, <1>2, <1>3, <1>4, <1>5, <1>6, <1>7, <1>8, <1>9, <1>10, <1>11, <1>12, <1>13, <1>14, <1>16, <1>17,
     <1>18 DEF SmNext

\* And so it always is.
LEMMA MainInvariance == SmSpec => []MainInv
  BY InitMainInv, NextMainInv, PTL DEF SmSpec

\* What was started by the options and stands in order is orderly.
LEMMA MainInvIsOrderly == MainInv => OrderlyMain
<1> SUFFICES ASSUME MainInv PROVE OrderlyMain
  OBVIOUS
<1>1. \A name \in DOMAIN smValues : smValues[name] = LastOf(name)
  BY DEF MainInv, ArgsParsed
<1>2. ASSUME smMain \in {"grpc", "http", "wait", "undefined"}, NEW i \in DOMAIN smArgs PROVE Good(smArgs[i])
  <2>1. DOMAIN smArgs = 1 .. Len(smArgs) /\ smNext \notin DOMAIN smArgs /\ smNext \in Nat \ {0}
        /\ smNext <= Len(smArgs) + 1 /\ Len(smArgs) \in Nat
    BY <1>2 DEF MainInv, MainTypes, ArgsParsed
  <2>2. i \in 1 .. smNext - 1
    BY <2>1
  <2> QED BY <2>2 DEF MainInv, ArgsParsed
<1>3. smHandlers # {} => Alive(HandlerUses)
  <2> SUFFICES ASSUME smHandlers # {} PROVE Alive(HandlerUses)
    OBVIOUS
  <2>1. Bases[8] \in smRoles \/ Bases[9] \in smRoles
    <3>1. "GrpcServer" \in smRoles \/ "HttpServer" \in smRoles
      BY DEF MainInv, RolesStand, MainTypes, Servers
    <3> QED BY <3>1, BasesAre
  <2>2. Bases[5] \in smRoles /\ Bases[7] \in smRoles
    <3>1. 5 \in 1 .. 9 /\ 7 \in 1 .. 9 /\ 8 \in 1 .. 9 /\ 9 \in 1 .. 9 /\ 5 < 8 /\ 5 < 9 /\ 7 < 8 /\ 7 < 9
      OBVIOUS
    <3> QED BY <2>1, <3>1, BasesAre DEF MainInv, RolesStand
  <2> QED BY <2>2, BasesAre DEF Alive, HandlerUses
<1>4. ASSUME NEW l \in smRounds, ~Alive(Uses(l))
      PROVE  smMain = "exit" /\ smValues["loading_method"] = Named("automatic")
  <2>1. smValues["loading_method"] = Named("automatic")
    BY DEF MainInv, StartedByOptions
  <2>2. smMain # "exit" => Alive(Uses(l))
    <3>1. CASE l = "StorageLoop"
      BY <3>1, BasesAre DEF MainInv, RolesStand, Alive, Uses
    <3>2. CASE l = "BoardingLoop"
      BY <3>2, BasesAre DEF MainInv, RolesStand, Alive, Uses
    <3> QED BY <3>1, <3>2 DEF MainInv, MainTypes, Loops
  <2> QED BY <1>4, <2>1, <2>2
<1> QED BY <1>1, <1>2, <1>3, <1>4 DEF OrderlyMain, MainInv, StartedByOptions

\* Every option has the last value it was given, config() is reached only
\* without a bad argument, a server serves only on a port above 0, no handler of
\* one meets a role that is destroyed, and a loop's round does only when main()
\* returns with the method "automatic" (StartServer, ProgramOptions, ServerCoreImpl).
THEOREM MainIsOrderly == SmSpec => []OrderlyMain
  BY MainInvariance, MainInvIsOrderly, PTL
-----------------------------------------------------------------------------
(***************************************************************************)
(* TfRuntime.  A task that has not been told is in one place, an open      *)
(* batch or the part of a closed one that has yet to be told, whatever has *)
(* become of the model.                                                    *)
(***************************************************************************)
\* A request that asks for some of the outputs of a model that was loaded.
Asks(r) ==
  \E model \in TfModels :
    /\ KeyOf(r.call) \in DOMAIN model.graph
    /\ LET def == model.graph[KeyOf(r.call)]
       IN /\ r.aliases \in Orders(WantedAliases(def, r.call))
          /\ r.names = [i \in DOMAIN r.aliases |-> def.outs[r.aliases[i]]]

\* A response that has, for every output wanted, the tensor of its name.
Whole(r, c) ==
  \E model \in TfModels :
    /\ KeyOf(r.call) \in DOMAIN model.graph
    /\ LET def == model.graph[KeyOf(r.call)]
       IN r.response = [alias \in WantedAliases(def, r.call) |-> <<def.outs[alias], c>>]

\* A request past its deadline, and the outputs that are its own.
Late(r) == Deadline(r) <= tfNow
Own(r, c) == [i \in DOMAIN r.names |-> <<r.names[i], c>>]

\* A request that is with the runtime, and the one of a client that has its answer.
Fields == {"pc", "call", "begun", "ins", "names", "aliases", "outputs", "task", "told"}
IsTask(r, c) ==
  /\ DOMAIN r = Fields /\ r = [f \in Fields |-> r[f]]
  /\ r.pc \in {"run", "waits"} /\ r.call \in TfCalls /\ r.begun \in Nat
  /\ Asks(r)
  /\ r.outputs \in {<<>>, Own(r, c)}
  /\ r.pc = "run" => r.outputs = <<>> /\ r.task = "none" /\ r.told = "none"
  /\ r.task = "timeout" => Late(r)

IsAnswer(r, c) ==
  /\ r.pc = "answered" /\ r.call \in TfCalls /\ r.begun \in Nat
  /\ r.status = "ok" => Whole(r, c)
  /\ r.status = "timeout" => Late(r)

\* The tasks that a batch thread has taken and not told yet.
Untold(t) == IF tfBatch[t].pc = "idle" THEN {} ELSE tfBatch[t].told + 1 .. Len(tfBatch[t].tasks)

\* What a batch thread that is not idle works on.
IsBatch(b) ==
  /\ DOMAIN b = {"pc", "signature", "tasks", "told", "status"}
  /\ b = [f \in {"pc", "signature", "tasks", "told", "status"} |-> b[f]]
  /\ b.pc \in {"closed", "runs", "tells"}
  /\ b.tasks \in Seq(TfClients) /\ b.told \in 0 .. Len(b.tasks)
  /\ b.pc \in {"closed", "runs"} => b.told = 0 /\ b.tasks # <<>>

\* What the variables hold.
TfTypes ==
  /\ plan \in TfModels \union {TfNoModel}
  /\ tfNow \in Nat
  /\ tfRequest = [c \in TfClients |-> tfRequest[c]]
  /\ tfBatch = [t \in TfThreads |-> tfBatch[t]]
  /\ \A s \in DOMAIN tfQueue : tfQueue[s] \in Seq(TfClients)
  /\ \A t \in TfThreads : tfBatch[t] = NoBatch \/ IsBatch(tfBatch[t])

\* Every client is idle, has a handle, an answer or a task.
RequestsAre == \A c \in TfClients : \/ tfRequest[c] = TfIdle
                                    \/ tfRequest[c] = TfFound
                                    \/ IsAnswer(tfRequest[c], c)
                                    \/ IsTask(tfRequest[c], c)

\* A task that has been scheduled and has not been told.
Pending(c) == tfRequest[c].pc = "waits" /\ tfRequest[c].told = "none" /\ tfRequest[c].task = "pending"

\* Every task that is not told is in one place ...
QueuedOnce ==
  \A s \in DOMAIN tfQueue : \A i \in DOMAIN tfQueue[s] :
    /\ Pending(tfQueue[s][i]) /\ tfRequest[tfQueue[s][i]].outputs = <<>>
    /\ \A r \in DOMAIN tfQueue : \A j \in DOMAIN tfQueue[r] :
         tfQueue[s][i] = tfQueue[r][j] => s = r /\ i = j
    /\ \A t \in TfThreads : \A j \in Untold(t) : tfBatch[t].tasks[j] # tfQueue[s][i]

\* ... and a task that was taken is late when its batch is.
TakenOnce ==
  \A t \in TfThreads : \A i \in Untold(t) :
    /\ Pending(tfBatch[t].tasks[i])
    /\ tfBatch[t].pc \in {"closed", "runs"} => tfRequest[tfBatch[t].tasks[i]].outputs = <<>>
    /\ tfBatch[t].status = "timeout" => Late(tfRequest[tfBatch[t].tasks[i]])
    /\ \A u \in TfThreads : \A j \in Untold(u) :
         tfBatch[t].tasks[i] = tfBatch[u].tasks[j] => t = u /\ i = j

\* A client that waits and has not been told.
Untouched(c) == tfRequest[c].pc = "waits" /\ tfRequest[c].told = "none"

\* Its place, one of those that QueuedOnce and TakenOnce speak of.
HasPlace(c) ==
  \/ \E s \in DOMAIN tfQueue : \E i \in DOMAIN tfQueue[s] : tfQueue[s][i] = c
  \/ \E t \in TfThreads : \E i \in Untold(t) : tfBatch[t].tasks[i] = c

\* Every task that is not told is in a place at all.
Kept == \A c \in TfClients : Untouched(c) => HasPlace(c)

\* All of them.
TfInv == TfTypes /\ RequestsAre /\ QueuedOnce /\ TakenOnce /\ Kept
-----------------------------------------------------------------------------
\* An order of a set visits every element.
LEMMA OrdersVisitAll ==
  ASSUME NEW S, IsFiniteSet(S), NEW f \in Orders(S)
  PROVE  /\ Cardinality(S) \in Nat /\ DOMAIN f = 1 .. Cardinality(S) /\ f \in Seq(S) /\ Len(f) = Cardinality(S)
         /\ {f[i] : i \in DOMAIN f} = S
<1> DEFINE n == Cardinality(S)
<1>1. n \in Nat
  BY FS_CardinalityType
<1>2. f \in [1 .. n -> S] /\ \A i, j \in DOMAIN f : f[i] = f[j] => i = j
  BY DEF Orders
<1>3. f \in Injection(1 .. n, S)
  BY <1>2 DEF Injection, IsInjective
<1>4. Cardinality(1 .. n) = n
  BY <1>1, FS_Interval
<1>5. f \in Surjection(1 .. n, S)
  BY <1>3, <1>4, FS_Injection
<1>6. \A x \in S : \E i \in 1 .. n : f[i] = x
  BY <1>5 DEF Surjection
<1>7. f \in Seq(S) /\ Len(f) = n
  BY <1>1, <1>2
<1> QED BY <1>1, <1>2, <1>6, <1>7

\* What a request may ask for is finite.
LEMMA WantedIsFinite ==
  ASSUME NEW model \in TfModels, NEW call \in TfCalls, KeyOf(call) \in DOMAIN model.graph
  PROVE  IsFiniteSet(WantedAliases(model.graph[KeyOf(call)], call))
BY TfMapsAreFinite DEF WantedAliases

\* What postprocess() makes of the outputs.
Response(aliases, outputs) ==
  [alias \in {aliases[i] : i \in DOMAIN outputs} |->
     outputs[CHOOSE i \in DOMAIN outputs : aliases[i] = alias]]

\* The outputs of a request, when they are as many as its aliases, are whole.
LEMMA CompleteIsWhole ==
  ASSUME NEW r, NEW c, Asks(r), r.call \in TfCalls, NEW outputs, outputs \in {<<>>, Own(r, c)},
         Len(outputs) = Len(r.aliases), NEW a, a.call = r.call,
         a.response = Response(r.aliases, outputs)
  PROVE  Whole(a, c)
<1>1. PICK model \in TfModels :
        /\ KeyOf(r.call) \in DOMAIN model.graph
        /\ r.aliases \in Orders(WantedAliases(model.graph[KeyOf(r.call)], r.call))
        /\ r.names = [i \in DOMAIN r.aliases |-> model.graph[KeyOf(r.call)].outs[r.aliases[i]]]
  BY DEF Asks
<1> DEFINE def == model.graph[KeyOf(r.call)]
           W == WantedAliases(def, r.call)
           n == Cardinality(W)
<1>2. /\ n \in Nat /\ DOMAIN r.aliases = 1 .. n /\ Len(r.aliases) = n
      /\ {r.aliases[i] : i \in 1 .. n} = W
  BY <1>1, WantedIsFinite, OrdersVisitAll
<1>3. DOMAIN outputs = 1 .. n
  <2>1. CASE outputs = <<>>
    BY <1>2, <2>1
  <2>2. CASE outputs = Own(r, c)
    BY <1>1, <1>2, <2>2 DEF Own
  <2> QED BY <2>1, <2>2
<1>4. \A i \in 1 .. n : outputs[i] = <<def.outs[r.aliases[i]], c>>
  <2>1. CASE outputs = <<>>
    BY <1>3, <2>1
  <2>2. CASE outputs = Own(r, c)
    BY <1>1, <1>2, <2>2 DEF Own
  <2> QED BY <2>1, <2>2
<1> HIDE DEF n, W, def
<1> DEFINE At(alias) == CHOOSE i \in DOMAIN outputs : r.aliases[i] = alias
<1>5. ASSUME NEW alias \in W
      PROVE  outputs[At(alias)] = <<def.outs[alias], c>>
  <2>1. \E i \in DOMAIN outputs : r.aliases[i] = alias
    BY <1>2, <1>3
  <2>2. At(alias) \in 1 .. n /\ r.aliases[At(alias)] = alias
    BY <1>3, <2>1
  <2> QED BY <1>4, <2>2
<1>6. a.response = [alias \in W |-> <<def.outs[alias], c>>]
  <2>1. {r.aliases[i] : i \in DOMAIN outputs} = W
    BY <1>2, <1>3
  <2>2. a.response = [alias \in W |-> outputs[At(alias)]]
    BY <2>1 DEF Response
  <2> HIDE DEF At
  <2> QED BY <1>5, <2>2
<1> QED BY <1>1, <1>6 DEF Whole, W, def

\* postprocess() gives a request an answer.
LEMMA PostprocessAnswers ==
  ASSUME NEW c \in TfClients, IsTask(tfRequest[c], c), NEW status, NEW outputs,
         outputs \in {<<>>, Own(tfRequest[c], c)}, status = "timeout" => Late(tfRequest[c]),
         Postprocess(c, status, outputs)
  PROVE  \E r : IsAnswer(r, c) /\ tfRequest' = [tfRequest EXCEPT ![c] = r]
<1> DEFINE q == tfRequest[c]
           A(st, resp) == [pc |-> "answered", call |-> q.call, begun |-> q.begun, status |-> st, response |-> resp]
<1>1. \A st, resp : AnswersNow(c, st, resp) => tfRequest' = [tfRequest EXCEPT ![c] = A(st, resp)]
  BY DEF AnswersNow, Answered
<1>2. q.call \in TfCalls /\ q.begun \in Nat /\ Asks(q)
  BY DEF IsTask
<1>3. CASE status # "ok"
  <2>1. AnswersNow(c, status, <<>>)
    BY <1>3 DEF Postprocess
  <2>2. IsAnswer(A(status, <<>>), c)
    BY <1>2, <1>3 DEF IsAnswer, Late, Deadline
  <2> QED BY <1>1, <2>1, <2>2
<1>4. CASE status = "ok" /\ ~IsComplete(c, outputs)
  <2>1. AnswersNow(c, "invalid", <<>>)
    BY <1>4 DEF Postprocess
  <2>2. IsAnswer(A("invalid", <<>>), c)
    BY <1>2 DEF IsAnswer
  <2> QED BY <1>1, <2>1, <2>2
<1>5. CASE status = "ok" /\ IsComplete(c, outputs)
  <2> DEFINE resp == Response(q.aliases, outputs)
  <2>1. AnswersNow(c, "ok", resp)
    BY <1>5 DEF Postprocess, Response
  <2>2. Len(outputs) = Len(q.aliases)
    BY <1>5 DEF IsComplete
  <2>3. A("ok", resp).call = q.call /\ A("ok", resp).response = resp
    OBVIOUS
  <2>4. Whole(A("ok", resp), c)
    <3> HIDE DEF A
    <3> QED BY <1>2, <2>2, <2>3, CompleteIsWhole
  <2>5. IsAnswer(A("ok", resp), c)
    BY <1>2, <2>4 DEF IsAnswer
  <2> HIDE DEF A, resp
  <2> QED BY <1>1, <2>1, <2>5
<1> QED BY <1>3, <1>4, <1>5
-----------------------------------------------------------------------------
\* No model, no request, no batch.
LEMMA InitTfInv == TfInit => TfInv
<1> SUFFICES ASSUME TfInit PROVE TfInv
  OBVIOUS
<1>1. \A c \in TfClients : tfRequest[c] = TfIdle
  BY DEF TfInit
<1>2. \A t \in TfThreads : tfBatch[t] = NoBatch /\ Untold(t) = {}
  BY DEF TfInit, Untold, NoBatch
<1>3. DOMAIN tfQueue = {}
  BY DEF TfInit
<1>4. TfTypes
  BY <1>2, <1>3 DEF TfInit, TfTypes
<1>5. Kept
  BY <1>1 DEF Kept, Untouched, TfIdle
<1> QED BY <1>1, <1>2, <1>3, <1>4, <1>5 DEF TfInv, RequestsAre, QueuedOnce, TakenOnce

\* Requests keep their answers and tasks while time goes on.
LEMMA RequestsStay ==
  ASSUME TfInv, UNCHANGED tfRequest, tfNow' = tfNow \/ tfNow' = tfNow + 1
  PROVE  /\ RequestsAre'
         /\ \A c \in TfClients : IsTask(tfRequest[c], c) /\ Late(tfRequest[c]) => Late(tfRequest[c])'
<1>1. ASSUME NEW c \in TfClients, tfRequest[c].call \in TfCalls, tfRequest[c].begun \in Nat
      PROVE  Late(tfRequest[c]) => Late(tfRequest[c])'
  <2>1. Timeout(tfRequest[c].call) \in Int
    BY <1>1, TfNumbers, TfMapsAreFinite DEF Timeout
  <2>2. Deadline(tfRequest[c]) \in Int /\ Deadline(tfRequest[c])' = Deadline(tfRequest[c])
    BY <1>1, <2>1 DEF Deadline
  <2>3. tfNow \in Nat
    BY DEF TfInv, TfTypes
  <2> QED BY <2>2, <2>3 DEF Late
<1>2. \A d \in TfClients : /\ IsAnswer(tfRequest[d], d) => IsAnswer(tfRequest[d], d)'
                           /\ IsTask(tfRequest[d], d) => IsTask(tfRequest[d], d)'
  <2>1. \A d \in TfClients : /\ Asks(tfRequest[d])' = Asks(tfRequest[d])
                             /\ Own(tfRequest[d], d)' = Own(tfRequest[d], d)
                             /\ Whole(tfRequest[d], d)' = Whole(tfRequest[d], d)
    BY DEF Asks, Own, Whole
  <2> QED BY <1>1, <2>1 DEF IsAnswer, IsTask
<1> QED BY <1>1, <1>2 DEF TfInv, RequestsAre, IsTask

\* Nothing else matters, and where the plan model is matters to nobody's task.
LEMMA TfStutters ==
  ASSUME TfInv, plan' \in TfModels \union {TfNoModel}, UNCHANGED <<tfRequest, tfQueue, tfBatch, tfNow>>
  PROVE  TfInv'
<1>1. TfTypes'
  BY DEF TfInv, TfTypes, IsBatch
<1>2. RequestsAre'
  BY RequestsStay
<1>3. \A t : Untold(t)' = Untold(t)
  BY DEF Untold
<1>4. QueuedOnce'
  BY <1>3 DEF TfInv, QueuedOnce, Pending
<1>5. TakenOnce'
  BY <1>3 DEF TfInv, TakenOnce, Pending, Late, Deadline
<1>6. Kept'
  BY <1>3 DEF TfInv, Kept, Untouched, HasPlace
<1> QED BY <1>1, <1>2, <1>4, <1>5, <1>6 DEF TfInv

\* A step of a request whose task is in no place.
LEMMA OneRequestChanges ==
  ASSUME TfInv, NEW c \in TfClients, ~Pending(c), NEW r,
         r \in {TfIdle, TfFound} \/ IsAnswer(r, c) \/ (IsTask(r, c) /\ r.pc = "run"),
         tfRequest' = [tfRequest EXCEPT ![c] = r], UNCHANGED <<plan, tfQueue, tfBatch, tfNow>>
  PROVE  TfInv'
<1>1. \A d \in TfClients : tfRequest'[d] = IF d = c THEN r ELSE tfRequest[d]
  BY DEF TfInv, TfTypes
<1>2. \A t : Untold(t)' = Untold(t)
  BY DEF Untold
<1>3. \A d \in TfClients : Pending(d) => Pending(d)' /\ tfRequest'[d] = tfRequest[d]
  BY <1>1 DEF Pending
<1>4. \A s \in DOMAIN tfQueue : \A i \in DOMAIN tfQueue[s] : tfQueue[s][i] \in TfClients
  BY DEF TfInv, TfTypes
<1>5. \A t \in TfThreads : \A i \in Untold(t) : tfBatch[t].tasks[i] \in TfClients
  BY DEF TfInv, TfTypes, IsBatch, Untold, NoBatch
<1>6. TfTypes'
  BY DEF TfInv, TfTypes, IsBatch
<1>7. RequestsAre'
  <2>1. \A d \in TfClients : \/ tfRequest'[d] \in {TfIdle, TfFound}
                             \/ IsAnswer(tfRequest'[d], d)
                             \/ IsTask(tfRequest'[d], d)
    BY <1>1 DEF TfInv, RequestsAre
  <2>2. \A q : Late(q)' = (Deadline(q) <= tfNow)
    BY DEF Late, Deadline
  <2>3. \A d \in TfClients : /\ IsAnswer(tfRequest'[d], d) => IsAnswer(tfRequest[d], d)'
                             /\ IsTask(tfRequest'[d], d) => IsTask(tfRequest[d], d)'
    BY <2>2 DEF IsAnswer, IsTask, Late, Whole, Asks, Own, Deadline
  <2> QED BY <2>1, <2>3 DEF RequestsAre
<1>8. QueuedOnce'
  BY <1>2, <1>3, <1>4 DEF TfInv, QueuedOnce
<1>9. TakenOnce'
  <2>1. \A t \in TfThreads : \A i \in Untold(t) :
          Late(tfRequest[tfBatch[t].tasks[i]]) => Late(tfRequest[tfBatch[t].tasks[i]])'
    BY <1>3, <1>5 DEF Late, Deadline, TfInv, TakenOnce
  <2> QED BY <1>2, <1>3, <1>5, <2>1 DEF TfInv, TakenOnce
<1>10. Kept'
  <2>1. ~Untouched(c)' /\ \A d \in TfClients : d # c /\ Untouched(d)' => Untouched(d)
    BY <1>1 DEF Untouched, TfIdle, TfFound, IsAnswer
  <2>2. \A d : HasPlace(d) => HasPlace(d)'
    BY <1>2 DEF HasPlace
  <2> QED BY <2>1, <2>2 DEF TfInv, Kept
<1> QED BY <1>6, <1>7, <1>8, <1>9, <1>10 DEF TfInv

\* A request that is refused has its answer; any other asks for what the model has.
LEMMA PreprocessKeeps ==
  ASSUME TfInv, NEW c \in TfClients, NEW call \in TfCalls, Preprocess(c, call)
  PROVE  TfInv'
<1> DEFINE empty == [pc |-> "run", call |-> call, begun |-> tfNow, ins |-> {}, names |-> <<>>,
                     aliases |-> <<>>, outputs |-> <<>>, task |-> "none", told |-> "none"]
<1>1. plan \in TfModels /\ ~Pending(c) /\ tfNow \in Nat
      /\ UNCHANGED <<plan, tfQueue, tfBatch, tfNow>>
  BY DEF Preprocess, TfInv, TfTypes, Pending
<1>2. CASE KeyOf(call) \in DOMAIN plan.graph /\ IsPredictable(plan.graph[KeyOf(call)], call)
  <2> DEFINE def == plan.graph[KeyOf(call)]
  <2>1. PICK aliases \in Orders(WantedAliases(def, call)) :
          tfRequest' = [tfRequest EXCEPT ![c] =
            [empty EXCEPT !.ins = FilledInputs(def, call), !.aliases = aliases,
                          !.names = [i \in DOMAIN aliases |-> def.outs[aliases[i]]]]]
    BY <1>2 DEF Preprocess
  <2> DEFINE r == [empty EXCEPT !.ins = FilledInputs(def, call), !.aliases = aliases,
                                !.names = [i \in DOMAIN aliases |-> def.outs[aliases[i]]]]
  <2>2. /\ DOMAIN r = Fields /\ r = [f \in Fields |-> r[f]] /\ r.pc = "run" /\ r.call = call /\ r.begun = tfNow
        /\ r.aliases = aliases /\ r.names = [i \in DOMAIN aliases |-> def.outs[aliases[i]]]
        /\ r.outputs = <<>> /\ r.task = "none" /\ r.told = "none"
    BY DEF Fields
  <2>3. tfRequest' = [tfRequest EXCEPT ![c] = r]
    BY <2>1
  <2> HIDE DEF r
  <2>4. Asks(r)
    BY <1>1, <1>2, <2>2 DEF Asks
  <2>5. IsTask(r, c)
    BY <1>1, <2>2, <2>4 DEF IsTask
  <2> QED BY <1>1, <2>2, <2>3, <2>5, OneRequestChanges
<1>3. CASE ~(KeyOf(call) \in DOMAIN plan.graph /\ IsPredictable(plan.graph[KeyOf(call)], call))
  <2>1. tfRequest' = [tfRequest EXCEPT ![c] = Answered(empty, "invalid", <<>>)]
    BY <1>3 DEF Preprocess
  <2>2. IsAnswer(Answered(empty, "invalid", <<>>), c)
    BY <1>1 DEF IsAnswer, Answered
  <2> HIDE DEF empty
  <2> QED BY <1>1, <2>1, <2>2, OneRequestChanges
<1> QED BY <1>2, <1>3

\* A request that is answered is in no place.
LEMMA AnswersKeep ==
  ASSUME TfInv, NEW c \in TfClients, tfRequest[c].pc \in {"run", "waits"}, ~Pending(c),
         NEW status, NEW outputs, outputs \in {<<>>, Own(tfRequest[c], c)},
         status = "timeout" => Late(tfRequest[c]), Postprocess(c, status, outputs),
         UNCHANGED <<plan, tfQueue, tfBatch, tfNow>>
  PROVE  TfInv'
<1>1. IsTask(tfRequest[c], c)
  BY DEF TfInv, RequestsAre, IsAnswer, TfIdle, TfFound
<1>2. PICK r : IsAnswer(r, c) /\ tfRequest' = [tfRequest EXCEPT ![c] = r]
  BY <1>1, PostprocessAnswers
<1> QED BY <1>2, OneRequestChanges

\* The steps of a client whose task is in no place.
LEMMA ClientKeeps ==
  ASSUME TfInv, NEW c \in TfClients,
         \/ FindPlan(c) \/ UseNoModel(c) \/ RunAlone(c) \/ RefuseTask(c) \/ ScheduleOnNull(c)
         \/ AwaitTask(c) \/ Forget(c)
  PROVE  TfInv'
<1>1. CASE RunAlone(c)
  <2>1. tfRequest[c].pc = "run" /\ ~Pending(c) /\ UNCHANGED <<plan, tfQueue, tfBatch, tfNow>>
    BY <1>1 DEF RunAlone, Pending
  <2>2. CASE Postprocess(c, "ok", Own(tfRequest[c], c))
    BY <2>1, <2>2, AnswersKeep
  <2>3. CASE Postprocess(c, "session", <<>>)
    BY <2>1, <2>3, AnswersKeep
  <2> QED BY <1>1, <2>2, <2>3 DEF RunAlone, Own
<1>2. CASE RefuseTask(c)
  <2>1. tfRequest[c].pc = "run" /\ ~Pending(c) /\ UNCHANGED <<plan, tfQueue, tfBatch, tfNow>>
        /\ Postprocess(c, "full", <<>>)
    BY <1>2 DEF RefuseTask, Pending
  <2> QED BY <2>1, AnswersKeep
<1>3. CASE ScheduleOnNull(c) \/ UseNoModel(c)
  BY <1>3, TfStutters DEF ScheduleOnNull, UseNoModel, TfInv, TfTypes
<1>4. CASE AwaitTask(c)
  <2>1. tfRequest[c].pc = "waits" /\ ~Pending(c) /\ UNCHANGED <<plan, tfQueue, tfBatch, tfNow>>
    BY <1>4 DEF AwaitTask, Pending
  <2>2. IsTask(tfRequest[c], c)
    BY <2>1 DEF TfInv, RequestsAre, IsAnswer, TfIdle, TfFound
  <2>3. PICK status \in IF tfRequest[c].task = "gone" THEN Garbage ELSE {tfRequest[c].task} :
          Postprocess(c, status, tfRequest[c].outputs)
    BY <1>4 DEF AwaitTask
  <2>4. status = "timeout" => Late(tfRequest[c])
    BY <2>2, <2>3 DEF Garbage, IsTask
  <2>5. tfRequest[c].outputs \in {<<>>, Own(tfRequest[c], c)}
    BY <2>2 DEF IsTask
  <2> QED BY <2>1, <2>3, <2>4, <2>5, AnswersKeep
<1>5. CASE Forget(c) \/ FindPlan(c)
  BY <1>5, OneRequestChanges DEF Forget, FindPlan, Pending
<1> QED BY <1>1, <1>2, <1>3, <1>4, <1>5

\* The batch that is open takes a task that is in no place.
LEMMA ScheduleTaskKeeps ==
  ASSUME TfInv, NEW c \in TfClients, ScheduleTask(c)
  PROVE  TfInv'
<1> DEFINE q == AskedSignature(c)
           r == [tfRequest[c] EXCEPT !.pc = "waits", !.task = "pending", !.begun = tfNow]
           n == Len(tfQueue[q]) + 1
<1>1. /\ tfRequest[c].pc = "run" /\ q \in DOMAIN tfQueue
      /\ tfQueue' = [tfQueue EXCEPT ![q] = Append(@, c)]
      /\ tfRequest' = [tfRequest EXCEPT ![c] = r]
      /\ UNCHANGED <<plan, tfBatch, tfNow>>
  BY DEF ScheduleTask
<1>2. IsTask(tfRequest[c], c) /\ ~Pending(c)
  BY <1>1 DEF TfInv, RequestsAre, IsAnswer, TfIdle, TfFound, Pending
<1>3. /\ r.pc = "waits" /\ r.task = "pending" /\ r.begun = tfNow /\ r.told = "none" /\ r.outputs = <<>>
      /\ r.call = tfRequest[c].call /\ r.names = tfRequest[c].names /\ r.aliases = tfRequest[c].aliases
      /\ DOMAIN r = Fields /\ r = [f \in Fields |-> r[f]]
  BY <1>1, <1>2 DEF IsTask, Fields
<1> HIDE DEF r, q
<1>4. \A d \in TfClients : tfRequest'[d] = IF d = c THEN r ELSE tfRequest[d]
  BY <1>1 DEF TfInv, TfTypes
<1>5. IsTask(r, c)
  <2>1. Asks(r)
    BY <1>2, <1>3 DEF IsTask, Asks
  <2>2. tfNow \in Nat
    BY DEF TfInv, TfTypes
  <2> QED BY <1>2, <1>3, <2>1, <2>2 DEF IsTask
<1>6. \A t : Untold(t)' = Untold(t)
  BY <1>1 DEF Untold
<1>7. \A s \in DOMAIN tfQueue : /\ tfQueue[s] \in Seq(TfClients) /\ DOMAIN tfQueue[s] = 1 .. Len(tfQueue[s])
                                /\ Len(tfQueue[s]) \in Nat
                                /\ \A i \in DOMAIN tfQueue[s] : tfQueue[s][i] \in TfClients
  BY DEF TfInv, TfTypes
<1>8. \A t \in TfThreads : \A i \in Untold(t) : tfBatch[t].tasks[i] \in TfClients
  BY DEF TfInv, TfTypes, IsBatch, Untold, NoBatch
<1>9. /\ DOMAIN tfQueue' = DOMAIN tfQueue
      /\ \A s \in DOMAIN tfQueue : s # q => tfQueue'[s] = tfQueue[s]
      /\ tfQueue'[q] = Append(tfQueue[q], c) /\ DOMAIN tfQueue'[q] = 1 .. n
      /\ n \notin DOMAIN tfQueue[q] /\ DOMAIN tfQueue'[q] = DOMAIN tfQueue[q] \union {n}
      /\ tfQueue'[q][n] = c /\ \A i \in DOMAIN tfQueue[q] : tfQueue'[q][i] = tfQueue[q][i]
  BY <1>1, <1>7
<1> HIDE DEF n
<1>10. \A s \in DOMAIN tfQueue : \A i \in DOMAIN tfQueue'[s] :
         \/ s = q /\ i = n /\ tfQueue'[s][i] = c
         \/ i \in DOMAIN tfQueue[s] /\ tfQueue'[s][i] = tfQueue[s][i] /\ tfQueue[s][i] \in TfClients
             /\ tfQueue[s][i] # c /\ ~(s = q /\ i = n)
  <2>1. \A s \in DOMAIN tfQueue : \A i \in DOMAIN tfQueue[s] : tfQueue[s][i] # c
    BY <1>2 DEF TfInv, QueuedOnce
  <2> QED BY <1>1, <1>7, <1>9, <2>1
<1>11. \A t \in TfThreads : \A i \in Untold(t) : tfBatch[t].tasks[i] # c
  BY <1>2 DEF TfInv, TakenOnce
<1>12. \A d \in TfClients : d # c => tfRequest'[d] = tfRequest[d] /\ (Pending(d) => Pending(d)')
  BY <1>4 DEF Pending
<1>13. Pending(c)' /\ tfRequest'[c].outputs = <<>>
  BY <1>3, <1>4 DEF Pending
<1>14. TfTypes'
  <2>1. \A s \in DOMAIN tfQueue' : tfQueue'[s] \in Seq(TfClients)
    BY <1>1, <1>7, <1>9
  <2> QED BY <1>1, <2>1 DEF TfInv, TfTypes, IsBatch
<1>15. RequestsAre'
  <2>1. \A d \in TfClients : \/ tfRequest'[d] \in {TfIdle, TfFound}
                             \/ IsAnswer(tfRequest'[d], d)
                             \/ IsTask(tfRequest'[d], d)
    BY <1>4, <1>5 DEF TfInv, RequestsAre
  <2>2. \A d \in TfClients : /\ IsAnswer(tfRequest'[d], d) => IsAnswer(tfRequest[d], d)'
                             /\ IsTask(tfRequest'[d], d) => IsTask(tfRequest[d], d)'
    BY <1>1 DEF IsAnswer, IsTask, Late, Whole, Asks, Own, Deadline
  <2> QED BY <2>1, <2>2 DEF RequestsAre
<1>16. QueuedOnce'
  <2> SUFFICES ASSUME NEW s \in DOMAIN tfQueue, NEW i \in DOMAIN tfQueue'[s]
               PROVE  /\ Pending(tfQueue[s][i])' /\ tfRequest'[tfQueue'[s][i]].outputs = <<>>
                      /\ \A u \in DOMAIN tfQueue : \A j \in DOMAIN tfQueue'[u] :
                           tfQueue'[s][i] = tfQueue'[u][j] => s = u /\ i = j
                      /\ \A t \in TfThreads : \A j \in Untold(t) : tfBatch[t].tasks[j] # tfQueue'[s][i]
    BY <1>1, <1>6, <1>9 DEF QueuedOnce
  <2>1. CASE s = q /\ i = n
    <3>1. tfQueue'[s][i] = c
      BY <1>9, <2>1
    <3>2. Pending(tfQueue[s][i])' /\ tfRequest'[tfQueue'[s][i]].outputs = <<>>
      BY <1>13, <3>1 DEF Pending
    <3> QED BY <1>10, <1>11, <2>1, <3>1, <3>2
  <2>2. CASE ~(s = q /\ i = n)
    <3>1. i \in DOMAIN tfQueue[s] /\ tfQueue'[s][i] = tfQueue[s][i] /\ tfQueue[s][i] \in TfClients /\ tfQueue[s][i] # c
      BY <1>10, <2>2
    <3>2. Pending(tfQueue[s][i])' /\ tfRequest'[tfQueue'[s][i]].outputs = <<>>
      BY <1>12, <3>1 DEF TfInv, QueuedOnce, Pending
    <3> QED BY <1>10, <3>1, <3>2 DEF TfInv, QueuedOnce
  <2> QED BY <2>1, <2>2
<1>17. TakenOnce'
  <2>1. \A t \in TfThreads : \A i \in Untold(t) :
          Late(tfRequest[tfBatch[t].tasks[i]]) => Late(tfRequest[tfBatch[t].tasks[i]])'
    BY <1>1, <1>8, <1>11, <1>12 DEF Late, Deadline
  <2> QED BY <1>1, <1>6, <1>8, <1>11, <1>12, <2>1 DEF TfInv, TakenOnce
<1>18. Kept'
  <2>1. HasPlace(c)'
    BY <1>1, <1>9 DEF HasPlace
  <2>2. \A d : HasPlace(d) => HasPlace(d)'
    <3>1. \A s \in DOMAIN tfQueue : \A i \in DOMAIN tfQueue[s] : i \in DOMAIN tfQueue'[s] /\ tfQueue'[s][i] = tfQueue[s][i]
      BY <1>9
    <3> QED BY <1>1, <1>6, <1>9, <3>1 DEF HasPlace
  <2>3. \A d \in TfClients : d # c /\ Untouched(d)' => Untouched(d)
    BY <1>4 DEF Untouched
  <2> QED BY <2>1, <2>2, <2>3 DEF TfInv, Kept
<1> QED BY <1>14, <1>15, <1>16, <1>17, <1>18 DEF TfInv

\* The thread of a pending task's client waits.
LEMMA PendingIsTask ==
  ASSUME TfInv, NEW c \in TfClients, Pending(c)
  PROVE  IsTask(tfRequest[c], c)
BY DEF TfInv, RequestsAre, Pending, IsAnswer, TfIdle, TfFound

\* Whoever is in a place is a client.
LEMMA PlacesAreOfClients ==
  ASSUME TfInv
  PROVE  /\ \A s \in DOMAIN tfQueue : \A i \in DOMAIN tfQueue[s] : tfQueue[s][i] \in TfClients
         /\ \A t \in TfThreads : \A i \in Untold(t) : tfBatch[t].tasks[i] \in TfClients
<1>1. \A s \in DOMAIN tfQueue : \A i \in DOMAIN tfQueue[s] : tfQueue[s][i] \in TfClients
  BY DEF TfInv, TfTypes
<1>2. \A t \in TfThreads : \A i \in Untold(t) : tfBatch[t].tasks[i] \in TfClients
  BY DEF TfInv, TfTypes, IsBatch, Untold, NoBatch
<1> QED BY <1>1, <1>2

\* What is late stays late.
LEMMA TickKeeps ==
  ASSUME TfInv, Tick
  PROVE  TfInv'
<1>1. tfNow' = tfNow + 1 /\ UNCHANGED <<plan, tfRequest, tfQueue, tfBatch>> /\ tfNow \in Nat
  BY DEF Tick, TfInv, TfTypes
<1>2. TfTypes'
  BY <1>1 DEF TfInv, TfTypes, IsBatch
<1>3. \A t : Untold(t)' = Untold(t)
  BY <1>1 DEF Untold
<1>4. QueuedOnce'
  BY <1>1, <1>3 DEF TfInv, QueuedOnce, Pending
<1>5. TakenOnce'
  <2>1. ASSUME NEW t \in TfThreads, NEW i \in Untold(t), Late(tfRequest[tfBatch[t].tasks[i]])
        PROVE  Late(tfRequest[tfBatch[t].tasks[i]])'
    <3>1. tfBatch[t].tasks[i] \in TfClients /\ Pending(tfBatch[t].tasks[i])
      BY PlacesAreOfClients DEF TfInv, TakenOnce
    <3> QED BY <1>1, <2>1, <3>1, PendingIsTask, RequestsStay
  <2> QED BY <1>1, <1>3, <2>1 DEF TfInv, TakenOnce, Pending
<1>6. RequestsAre' /\ Kept'
  BY <1>1, <1>3, RequestsStay DEF TfInv, Kept, Untouched, HasPlace
<1> QED BY <1>2, <1>4, <1>5, <1>6 DEF TfInv

\* The queues of a model are empty when it is loaded ...
LEMMA LoadPlanKeeps ==
  ASSUME TfInv, NEW model \in TfModels, LoadPlan(model)
  PROVE  TfInv'
<1>1. /\ plan' = model /\ UNCHANGED <<tfRequest, tfBatch, tfNow>>
      /\ \A c \in TfClients : tfRequest[c].pc \in {"idle", "answered"}
      /\ \/ tfQueue' = [s \in Signatures(model) |-> <<>>]
         \/ tfQueue' = <<>>
  BY DEF LoadPlan, HasHandle
<1>2. \A s \in DOMAIN tfQueue' : tfQueue'[s] = <<>>
  BY <1>1
<1>3. TfTypes'
  <2>1. <<>> \in Seq(TfClients)
    OBVIOUS
  <2>2. \A s \in DOMAIN tfQueue' : tfQueue'[s] \in Seq(TfClients)
    BY <1>2, <2>1, Zenon
  <2> QED BY <1>1, <2>2 DEF TfInv, TfTypes, IsBatch
<1>4. QueuedOnce'
  BY <1>2 DEF QueuedOnce
<1>5. \A t : Untold(t)' = Untold(t)
  BY <1>1 DEF Untold
<1>6. TakenOnce'
  BY <1>1, <1>5 DEF TfInv, TakenOnce, Pending, Late, Deadline
<1>7. RequestsAre' /\ Kept'
  BY <1>1, RequestsStay DEF Kept, Untouched
<1> QED BY <1>3, <1>4, <1>6, <1>7 DEF TfInv

\* ... and when they are deleted.
LEMMA DeleteQueuesKeeps ==
  ASSUME TfInv, DeleteQueues
  PROVE  TfInv'
<1>1. /\ tfQueue' = <<>> /\ UNCHANGED <<plan, tfRequest, tfBatch, tfNow>>
      /\ \A s \in DOMAIN tfQueue : tfQueue[s] = <<>>
  BY DEF DeleteQueues
<1>2. DOMAIN tfQueue' = {}
  BY <1>1
<1>3. TfTypes'
  BY <1>1, <1>2 DEF TfInv, TfTypes, IsBatch
<1>4. QueuedOnce'
  BY <1>2 DEF QueuedOnce
<1>5. \A t : Untold(t)' = Untold(t)
  BY <1>1 DEF Untold
<1>6. TakenOnce'
  BY <1>1, <1>5 DEF TfInv, TakenOnce, Pending, Late, Deadline
<1>7. RequestsAre'
  BY <1>1, RequestsStay
<1>8. Kept'
  <2>1. \A d : HasPlace(d) => HasPlace(d)'
    BY <1>1, <1>5 DEF HasPlace
  <2> QED BY <1>1, <2>1 DEF TfInv, Kept, Untouched
<1> QED BY <1>3, <1>4, <1>6, <1>7, <1>8 DEF TfInv
-----------------------------------------------------------------------------
\* What a batch thread does with its batch.
LEMMA BatchTypes ==
  ASSUME TfInv, NEW t \in TfThreads, tfBatch[t].pc # "idle"
  PROVE  IsBatch(tfBatch[t])
BY DEF TfInv, TfTypes, NoBatch

\* The tasks of an open batch move to the thread that takes it.
LEMMA TakeBatchKeeps ==
  ASSUME TfInv, NEW t \in TfThreads, NEW q \in DOMAIN tfQueue, TakeBatch(t, q)
  PROVE  TfInv'
<1> DEFINE b == [pc |-> "closed", signature |-> q, tasks |-> tfQueue[q], told |-> 0, status |-> "ok"]
<1>1. /\ tfBatch[t].pc = "idle" /\ tfQueue[q] # <<>> /\ tfBatch' = [tfBatch EXCEPT ![t] = b]
      /\ tfQueue' = [tfQueue EXCEPT ![q] = <<>>] /\ UNCHANGED <<plan, tfRequest, tfNow>>
  BY DEF TakeBatch
<1>2. /\ tfQueue[q] \in Seq(TfClients) /\ Len(tfQueue[q]) \in Nat
      /\ DOMAIN tfQueue[q] = 1 .. Len(tfQueue[q])
  BY DEF TfInv, TfTypes
<1>3. /\ DOMAIN tfQueue' = DOMAIN tfQueue /\ DOMAIN tfQueue'[q] = {}
      /\ \A s \in DOMAIN tfQueue : s # q => tfQueue'[s] = tfQueue[s]
  BY <1>1
<1>4. \A u \in TfThreads : tfBatch'[u] = IF u = t THEN b ELSE tfBatch[u]
  BY <1>1 DEF TfInv, TfTypes
<1>5. IsBatch(b)
  BY <1>1, <1>2 DEF IsBatch
<1>6. /\ Untold(t) = {} /\ Untold(t)' = DOMAIN tfQueue[q]
      /\ \A u \in TfThreads : u # t => Untold(u)' = Untold(u)
  BY <1>1, <1>2, <1>4 DEF Untold
<1>7. b.tasks = tfQueue[q] /\ b.status = "ok"
  OBVIOUS
<1> HIDE DEF b
<1>8. TfTypes'
  <2>1. \A s \in DOMAIN tfQueue' : tfQueue'[s] \in Seq(TfClients)
    BY <1>1, <1>2 DEF TfInv, TfTypes
  <2>2. \A u \in TfThreads : tfBatch'[u] = NoBatch \/ IsBatch(tfBatch'[u])
    BY <1>4, <1>5 DEF TfInv, TfTypes
  <2>3. tfBatch' = [u \in TfThreads |-> tfBatch'[u]]
    BY <1>1 DEF TfInv, TfTypes
  <2> QED BY <1>1, <2>1, <2>2, <2>3 DEF TfInv, TfTypes, IsBatch
<1>9. RequestsAre' /\ Kept'
  <2>1. RequestsAre'
    BY <1>1, RequestsStay
  <2>2. ASSUME NEW d, HasPlace(d) PROVE HasPlace(d)'
    <3>1. CASE \E i \in DOMAIN tfQueue[q] : tfQueue[q][i] = d
      BY <1>4, <1>6, <1>7, <3>1 DEF HasPlace
    <3>2. CASE \E s \in DOMAIN tfQueue : s # q /\ \E i \in DOMAIN tfQueue[s] : tfQueue[s][i] = d
      BY <1>3, <3>2 DEF HasPlace
    <3>3. CASE \E u \in TfThreads : \E i \in Untold(u) : tfBatch[u].tasks[i] = d
      BY <1>4, <1>6, <3>3 DEF HasPlace
    <3> QED BY <2>2, <3>1, <3>2, <3>3 DEF HasPlace
  <2> QED BY <1>1, <2>1, <2>2 DEF TfInv, Kept, Untouched
<1>10. QueuedOnce'
  <2> SUFFICES ASSUME NEW s \in DOMAIN tfQueue, NEW i \in DOMAIN tfQueue[s], s # q
               PROVE  /\ Pending(tfQueue[s][i]) /\ tfRequest[tfQueue[s][i]].outputs = <<>>
                      /\ \A r \in DOMAIN tfQueue : \A j \in DOMAIN tfQueue[r] :
                           tfQueue[s][i] = tfQueue[r][j] => s = r /\ i = j
                      /\ \A u \in TfThreads : \A j \in Untold(u)' : tfBatch'[u].tasks[j] # tfQueue[s][i]
    BY <1>1, <1>3 DEF QueuedOnce, Pending
  <2>1. \A j \in DOMAIN tfQueue[q] : tfQueue[q][j] # tfQueue[s][i]
    BY DEF TfInv, QueuedOnce
  <2>2. \A u \in TfThreads : \A j \in Untold(u)' : tfBatch'[u].tasks[j] # tfQueue[s][i]
    BY <1>4, <1>6, <1>7, <2>1 DEF TfInv, QueuedOnce
  <2> QED BY <2>2 DEF TfInv, QueuedOnce
<1>11. TakenOnce'
  <2> SUFFICES ASSUME NEW u \in TfThreads, NEW i \in Untold(u)'
               PROVE  /\ Pending(tfBatch'[u].tasks[i])
                      /\ tfBatch'[u].pc \in {"closed", "runs"} => tfRequest[tfBatch'[u].tasks[i]].outputs = <<>>
                      /\ tfBatch'[u].status = "timeout" => Late(tfRequest[tfBatch'[u].tasks[i]])
                      /\ \A v \in TfThreads : \A j \in Untold(v)' :
                           tfBatch'[u].tasks[i] = tfBatch'[v].tasks[j] => u = v /\ i = j
    BY <1>1 DEF TakenOnce, Pending, Late, Deadline
  <2>1. \A v \in TfThreads : \A k \in Untold(v) : \A j \in DOMAIN tfQueue[q] : tfBatch[v].tasks[k] # tfQueue[q][j]
    BY DEF TfInv, QueuedOnce
  <2>2. CASE u = t
    <3>1. i \in DOMAIN tfQueue[q] /\ tfBatch'[u].tasks[i] = tfQueue[q][i] /\ tfBatch'[u].status = "ok"
      BY <1>4, <1>6, <1>7, <2>2
    <3>2. Pending(tfQueue[q][i]) /\ tfRequest[tfQueue[q][i]].outputs = <<>>
      BY <3>1 DEF TfInv, QueuedOnce
    <3>3. ASSUME NEW v \in TfThreads, NEW j \in Untold(v)', tfBatch'[u].tasks[i] = tfBatch'[v].tasks[j]
          PROVE  u = v /\ i = j
      <4>1. CASE v = t
        <5>1. j \in DOMAIN tfQueue[q] /\ tfBatch'[v].tasks[j] = tfQueue[q][j]
          BY <1>4, <1>6, <1>7, <4>1
        <5>2. tfQueue[q][i] = tfQueue[q][j]
          BY <3>1, <3>3, <5>1
        <5>3. \A k, l \in DOMAIN tfQueue[q] : tfQueue[q][k] = tfQueue[q][l] => k = l
          BY DEF TfInv, QueuedOnce
        <5>4. i = j
          BY <3>1, <5>1, <5>2, <5>3
        <5> QED BY <2>2, <4>1, <5>4
      <4>2. CASE v # t
        BY <1>4, <1>6, <2>1, <3>1, <3>3, <4>2
      <4> QED BY <4>1, <4>2
    <3> QED BY <3>1, <3>2, <3>3
  <2>3. CASE u # t
    <3>1. i \in Untold(u) /\ tfBatch'[u] = tfBatch[u]
      BY <1>4, <1>6, <2>3
    <3>2. ASSUME NEW v \in TfThreads, NEW j \in Untold(v)', tfBatch'[u].tasks[i] = tfBatch'[v].tasks[j]
          PROVE  u = v /\ i = j
      <4>1. CASE v = t
        BY <1>4, <1>6, <1>7, <2>1, <3>1, <3>2, <4>1
      <4>2. CASE v # t
        BY <1>4, <1>6, <3>1, <3>2, <4>2 DEF TfInv, TakenOnce
      <4> QED BY <4>1, <4>2
    <3> QED BY <3>1, <3>2 DEF TfInv, TakenOnce
  <2> QED BY <2>2, <2>3
<1> QED BY <1>8, <1>9, <1>10, <1>11 DEF TfInv

\* The batch whose tasks are all late tells them so; any other runs.
LEMMA StartBatchKeeps ==
  ASSUME TfInv, NEW t \in TfThreads, StartBatch(t)
  PROVE  TfInv'
<1> DEFINE b == tfBatch[t]
           b2 == IF AllWereTimeout(b.tasks) THEN [b EXCEPT !.pc = "tells", !.status = "timeout"]
                 ELSE [b EXCEPT !.pc = "runs"]
<1>1. b.pc = "closed" /\ tfBatch' = [tfBatch EXCEPT ![t] = b2] /\ UNCHANGED <<plan, tfRequest, tfQueue, tfNow>>
  BY DEF StartBatch
<1>2. IsBatch(b) /\ b.told = 0 /\ Untold(t) = 1 .. Len(b.tasks) /\ DOMAIN b.tasks = 1 .. Len(b.tasks)
  BY <1>1, BatchTypes DEF IsBatch, Untold
<1>3. /\ IsBatch(b2) /\ b2.tasks = b.tasks /\ b2.told = b.told /\ b2.pc \in {"runs", "tells"}
      /\ b2.status = "timeout" => b.status = "timeout" \/ AllWereTimeout(b.tasks)
  BY <1>1, <1>2 DEF IsBatch
<1> HIDE DEF b2
<1>4. \A u \in TfThreads : tfBatch'[u] = IF u = t THEN b2 ELSE tfBatch[u]
  BY <1>1 DEF TfInv, TfTypes
<1>5. \A u \in TfThreads : Untold(u)' = Untold(u) /\ tfBatch'[u].tasks = tfBatch[u].tasks
  BY <1>1, <1>3, <1>4 DEF Untold
<1>6. TfTypes'
  <2>1. tfBatch' = [u \in TfThreads |-> tfBatch'[u]]
    BY <1>1 DEF TfInv, TfTypes
  <2>2. \A u \in TfThreads : tfBatch'[u] = NoBatch \/ IsBatch(tfBatch'[u])
    BY <1>3, <1>4 DEF TfInv, TfTypes
  <2> QED BY <1>1, <2>1, <2>2 DEF TfInv, TfTypes, IsBatch
<1>7. RequestsAre' /\ Kept'
  BY <1>1, <1>5, RequestsStay DEF TfInv, Kept, Untouched, HasPlace
<1>8. QueuedOnce'
  BY <1>1, <1>5 DEF TfInv, QueuedOnce, Pending
<1>9. TakenOnce'
  <2>1. ASSUME NEW u \in TfThreads, NEW i \in Untold(u)
        PROVE  /\ tfBatch'[u].pc \in {"closed", "runs"} => tfRequest[tfBatch[u].tasks[i]].outputs = <<>>
               /\ tfBatch'[u].status = "timeout" => Late(tfRequest[tfBatch[u].tasks[i]])
    <3>1. CASE u = t
      <4>1. tfRequest[b.tasks[i]].outputs = <<>> /\ (b.status = "timeout" => Late(tfRequest[b.tasks[i]]))
        BY <1>1, <3>1 DEF TfInv, TakenOnce
      <4>2. AllWereTimeout(b.tasks) => Late(tfRequest[b.tasks[i]])
        BY <1>2, <3>1 DEF AllWereTimeout, Elements, WasTimeout, Late
      <4> QED BY <1>3, <1>4, <3>1, <4>1, <4>2
    <3>2. CASE u # t
      BY <1>4, <3>2 DEF TfInv, TakenOnce
    <3> QED BY <3>1, <3>2
  <2> QED BY <1>1, <1>5, <2>1 DEF TfInv, TakenOnce, Pending, Late, Deadline
<1> QED BY <1>6, <1>7, <1>8, <1>9 DEF TfInv

\* What a request gets from its batch is its own, and a sequence.
LEMMA OwnIsSequence ==
  ASSUME NEW r, NEW c, Asks(r), r.call \in TfCalls
  PROVE  <<>> \o Own(r, c) = Own(r, c)
<1>1. PICK model \in TfModels :
        /\ KeyOf(r.call) \in DOMAIN model.graph
        /\ r.aliases \in Orders(WantedAliases(model.graph[KeyOf(r.call)], r.call))
        /\ r.names = [i \in DOMAIN r.aliases |-> model.graph[KeyOf(r.call)].outs[r.aliases[i]]]
  BY DEF Asks
<1> DEFINE n == Cardinality(WantedAliases(model.graph[KeyOf(r.call)], r.call))
           o == Own(r, c)
<1>2. n \in Nat /\ DOMAIN r.aliases = 1 .. n
  BY <1>1, WantedIsFinite, OrdersVisitAll
<1>3. DOMAIN o = 1 .. n /\ o = [i \in 1 .. n |-> o[i]]
  BY <1>1, <1>2 DEF Own
<1> HIDE DEF n, o
<1>4. o \in Seq({o[i] : i \in 1 .. n})
  BY <1>2, <1>3
<1>5. <<>> \o o = o
  BY <1>4
<1> QED BY <1>5 DEF o

\* The session gives every task of the batch its outputs, or fails for all.
LEMMA EndBatchKeeps ==
  ASSUME TfInv, NEW t \in TfThreads, EndBatch(t)
  PROVE  TfInv'
<1> DEFINE b == tfBatch[t]
           Mine == Elements(b.tasks)
           Given(c) == [tfRequest[c] EXCEPT !.outputs = Own(tfRequest[c], c)]
<1>1. b.pc = "runs" /\ UNCHANGED <<plan, tfQueue, tfNow>>
  BY DEF EndBatch
<1>2. IsBatch(b) /\ b.told = 0 /\ Untold(t) = 1 .. Len(b.tasks) /\ DOMAIN b.tasks = 1 .. Len(b.tasks)
  BY <1>1, BatchTypes DEF IsBatch, Untold
<1>3. \A c \in Mine : \E i \in Untold(t) : c = b.tasks[i]
  BY <1>2 DEF Elements
<1>4. \A c \in Mine : c \in TfClients /\ Pending(c) /\ tfRequest[c].outputs = <<>>
  BY <1>1, <1>3, PlacesAreOfClients DEF TfInv, TakenOnce
<1>5. \A c \in Mine : IsTask(tfRequest[c], c)
  BY <1>4, PendingIsTask
<1>6. PICK status :
        /\ tfBatch' = [tfBatch EXCEPT ![t] = [b EXCEPT !.pc = "tells", !.status = status]]
        /\ status = b.status \/ status = "session"
        /\ tfRequest' = tfRequest \/ tfRequest' = [c \in TfClients |->
             IF c \in Mine THEN [tfRequest[c] EXCEPT !.outputs = @ \o Dispatched(c)] ELSE tfRequest[c]]
  <2>1. b = [b EXCEPT !.status = b.status]
    BY <1>2 DEF IsBatch
  <2>2. CASE tfBatch' = [tfBatch EXCEPT ![t].pc = "tells"]
    <3>1. tfBatch' = [tfBatch EXCEPT ![t] = [b EXCEPT !.pc = "tells"]]
      BY <2>2
    <3>2. [b EXCEPT !.pc = "tells"] = [b EXCEPT !.pc = "tells", !.status = b.status]
      BY <1>2 DEF IsBatch
    <3>3. tfRequest' = tfRequest \/ tfRequest' = [c \in TfClients |->
             IF c \in Mine THEN [tfRequest[c] EXCEPT !.outputs = @ \o Dispatched(c)] ELSE tfRequest[c]]
      BY DEF EndBatch
    <3> HIDE DEF b, Mine
    <3> QED BY <3>1, <3>2, <3>3
  <2>3. CASE tfBatch' = [tfBatch EXCEPT ![t].pc = "tells", ![t].status = "session"]
    <3>1. tfBatch' = [tfBatch EXCEPT ![t] = [b EXCEPT !.pc = "tells", !.status = "session"]]
      BY <2>3
    <3>2. tfRequest' = tfRequest \/ tfRequest' = [c \in TfClients |->
             IF c \in Mine THEN [tfRequest[c] EXCEPT !.outputs = @ \o Dispatched(c)] ELSE tfRequest[c]]
      BY DEF EndBatch
    <3> HIDE DEF b, Mine
    <3> QED BY <3>1, <3>2
  <2> QED BY <2>2, <2>3 DEF EndBatch
<1> DEFINE b2 == [b EXCEPT !.pc = "tells", !.status = status]
<1>7. IsBatch(b2) /\ b2.tasks = b.tasks /\ b2.told = b.told /\ b2.pc = "tells" /\ b2.status = status
  BY <1>2 DEF IsBatch
<1>8. \A u \in TfThreads : tfBatch'[u] = IF u = t THEN b2 ELSE tfBatch[u]
  BY <1>6 DEF TfInv, TfTypes
<1>9. tfBatch' = [u \in TfThreads |-> tfBatch'[u]]
  BY <1>6 DEF TfInv, TfTypes
<1> HIDE DEF b2
<1>10. \A u \in TfThreads : Untold(u)' = Untold(u) /\ tfBatch'[u].tasks = tfBatch[u].tasks
  BY <1>1, <1>7, <1>8 DEF Untold
<1>11. \A c \in TfClients : tfRequest'[c] = tfRequest[c] \/ (c \in Mine /\ tfRequest'[c] = Given(c))
  <2>1. \A c \in Mine : <<>> \o Own(tfRequest[c], c) = Own(tfRequest[c], c)
    BY <1>5, OwnIsSequence DEF IsTask
  <2>2. \A c \in Mine : [tfRequest[c] EXCEPT !.outputs = @ \o Dispatched(c)] = Given(c)
    BY <1>4, <2>1 DEF Dispatched, Own
  <2> HIDE DEF Mine, Given
  <2> QED BY <1>6, <2>2
<1>12. tfRequest' = [c \in TfClients |-> tfRequest'[c]]
  BY <1>6 DEF TfInv, TfTypes
<1>13. \A c \in Mine : /\ DOMAIN Given(c) = Fields /\ Given(c) = [f \in Fields |-> Given(c)[f]]
                       /\ Given(c).outputs = Own(tfRequest[c], c)
                       /\ \A f \in Fields \ {"outputs"} : Given(c)[f] = tfRequest[c][f]
  BY <1>5 DEF IsTask, Fields
<1>14. \A c \in Mine : IsTask(Given(c), c)
  <2> SUFFICES ASSUME NEW c \in Mine PROVE IsTask(Given(c), c)
    OBVIOUS
  <2> DEFINE g == Given(c)
  <2>1. /\ g.pc = tfRequest[c].pc /\ g.call = tfRequest[c].call /\ g.begun = tfRequest[c].begun
        /\ g.names = tfRequest[c].names /\ g.aliases = tfRequest[c].aliases
        /\ g.task = tfRequest[c].task /\ g.told = tfRequest[c].told
        /\ g.outputs = Own(tfRequest[c], c) /\ DOMAIN g = Fields /\ g = [f \in Fields |-> g[f]]
    BY <1>13 DEF Fields
  <2>2. IsTask(tfRequest[c], c) /\ tfRequest[c].pc = "waits" /\ tfRequest[c].task = "pending"
    BY <1>4, <1>5 DEF Pending
  <2> HIDE DEF g, Mine
  <2>3. Asks(g)
    BY <2>1, <2>2 DEF IsTask, Asks
  <2>4. Own(g, c) = Own(tfRequest[c], c)
    BY <2>1 DEF Own
  <2>5. IsTask(g, c)
    BY <2>1, <2>2, <2>3, <2>4 DEF IsTask
  <2> QED BY <2>5 DEF g
<1>15. \A c \in Mine : /\ Given(c).pc = tfRequest[c].pc /\ Given(c).told = tfRequest[c].told
                       /\ Given(c).task = tfRequest[c].task
                       /\ Given(c).call = tfRequest[c].call /\ Given(c).begun = tfRequest[c].begun
  BY <1>13 DEF Fields
<1> HIDE DEF Given, Mine
<1>16. \A c \in TfClients : /\ Pending(c) => Pending(c)'
                            /\ c \notin Mine => tfRequest'[c] = tfRequest[c]
                            /\ Pending(c) /\ Late(tfRequest[c]) => Late(tfRequest[c])'
  BY <1>1, <1>11, <1>15 DEF Pending, Late, Deadline
<1>17. TfTypes'
  <2>1. \A u \in TfThreads : tfBatch'[u] = NoBatch \/ IsBatch(tfBatch'[u])
    BY <1>7, <1>8 DEF TfInv, TfTypes
  <2> QED BY <1>1, <1>9, <1>12, <2>1 DEF TfInv, TfTypes, IsBatch
<1>18. RequestsAre'
  <2>1. \A d \in TfClients : \/ tfRequest'[d] \in {TfIdle, TfFound}
                             \/ IsAnswer(tfRequest'[d], d)
                             \/ IsTask(tfRequest'[d], d)
    BY <1>11, <1>14 DEF TfInv, RequestsAre
  <2>2. \A d \in TfClients : /\ IsAnswer(tfRequest'[d], d) => IsAnswer(tfRequest[d], d)'
                             /\ IsTask(tfRequest'[d], d) => IsTask(tfRequest[d], d)'
    BY <1>1 DEF IsAnswer, IsTask, Late, Whole, Asks, Own, Deadline
  <2> QED BY <2>1, <2>2 DEF RequestsAre
<1>19. QueuedOnce'
  <2>1. \A s \in DOMAIN tfQueue : \A i \in DOMAIN tfQueue[s] :
          tfQueue[s][i] \in TfClients /\ tfQueue[s][i] \notin Mine
    BY <1>3, PlacesAreOfClients DEF TfInv, QueuedOnce
  <2>2. \A s \in DOMAIN tfQueue : \A i \in DOMAIN tfQueue[s] :
          Pending(tfQueue[s][i])' /\ tfRequest'[tfQueue[s][i]].outputs = <<>>
    BY <1>1, <1>16, <2>1 DEF TfInv, QueuedOnce, Pending
  <2> QED BY <1>1, <1>10, <2>2 DEF TfInv, QueuedOnce, Pending
<1>20. TakenOnce'
  <2>1. ASSUME NEW u \in TfThreads, NEW i \in Untold(u)
        PROVE  /\ tfBatch[u].tasks[i] \in TfClients /\ Pending(tfBatch[u].tasks[i])
               /\ tfBatch'[u].pc \in {"closed", "runs"} => tfRequest'[tfBatch[u].tasks[i]].outputs = <<>>
               /\ tfBatch'[u].status = "timeout" => Late(tfRequest[tfBatch[u].tasks[i]])
    <3>1. tfBatch[u].tasks[i] \in TfClients /\ Pending(tfBatch[u].tasks[i])
      BY PlacesAreOfClients DEF TfInv, TakenOnce
    <3>2. CASE u = t
      BY <1>6, <1>7, <1>8, <3>1, <3>2 DEF TfInv, TakenOnce
    <3>3. CASE u # t
      <4>1. tfBatch[u].tasks[i] \notin Mine
        <5> SUFFICES ASSUME tfBatch[u].tasks[i] \in Mine PROVE FALSE
          OBVIOUS
        <5>1. PICK j \in Untold(t) : tfBatch[u].tasks[i] = b.tasks[j]
          BY <1>3
        <5> QED BY <3>3, <5>1 DEF TfInv, TakenOnce
      <4> QED BY <1>8, <1>16, <3>1, <3>3, <4>1 DEF TfInv, TakenOnce
    <3> QED BY <3>2, <3>3
  <2>2. \A u \in TfThreads : \A i \in Untold(u)' :
          /\ tfBatch'[u].tasks[i] \in TfClients /\ Pending(tfBatch[u].tasks[i])'
          /\ tfBatch'[u].status = "timeout" => Late(tfRequest[tfBatch[u].tasks[i]])'
    <3>1. \A c \in TfClients : (Late(tfRequest[c])') = (Deadline(tfRequest'[c]) <= tfNow')
      BY DEF Late, Deadline
    <3> QED BY <1>10, <1>16, <2>1, <3>1 DEF Pending, Late, Deadline
  <2> QED BY <1>10, <2>1, <2>2 DEF TfInv, TakenOnce, Late, Deadline, Pending
<1>21. Kept'
  <2>1. \A d \in TfClients : Untouched(d)' => Untouched(d)
    BY <1>11, <1>15 DEF Untouched
  <2>2. \A d : HasPlace(d) => HasPlace(d)'
    BY <1>1, <1>10 DEF HasPlace
  <2> QED BY <2>1, <2>2 DEF TfInv, Kept
<1> QED BY <1>17, <1>18, <1>19, <1>20, <1>21 DEF TfInv

\* A task that is told is in no place any more.
LEMMA TellTaskKeeps ==
  ASSUME TfInv, NEW t \in TfThreads, TellTask(t)
  PROVE  TfInv'
<1> DEFINE b == tfBatch[t]
           k == b.told + 1
           c == b.tasks[k]
           r == [tfRequest[c] EXCEPT !.task = b.status, !.told = t]
           b2 == [b EXCEPT !.told = k]
<1>1. /\ b.pc = "tells" /\ b.told < Len(b.tasks) /\ UNCHANGED <<plan, tfQueue, tfNow>>
      /\ tfRequest' = [tfRequest EXCEPT ![c] = r] /\ tfBatch' = [tfBatch EXCEPT ![t] = b2]
  BY DEF TellTask
<1>2. IsBatch(b) /\ b.told \in Nat /\ Len(b.tasks) \in Nat /\ Untold(t) = k .. Len(b.tasks) /\ k \in Untold(t)
  BY <1>1, BatchTypes DEF IsBatch, Untold
<1>3. c \in TfClients /\ Pending(c) /\ (b.status = "timeout" => Late(tfRequest[c]))
  BY <1>2, PlacesAreOfClients DEF TfInv, TakenOnce
<1>4. IsTask(tfRequest[c], c) /\ tfRequest[c].pc = "waits"
  BY <1>3, PendingIsTask DEF Pending
<1>5. /\ r.pc = "waits" /\ r.task = b.status /\ r.told = t /\ r.outputs = tfRequest[c].outputs
      /\ r.call = tfRequest[c].call /\ r.begun = tfRequest[c].begun /\ r.names = tfRequest[c].names
      /\ r.aliases = tfRequest[c].aliases /\ DOMAIN r = Fields /\ r = [f \in Fields |-> r[f]]
  BY <1>4 DEF IsTask, Fields
<1>6. /\ IsBatch(b2) /\ b2.tasks = b.tasks /\ b2.told = k /\ b2.pc = b.pc /\ b2.status = b.status
  BY <1>1, <1>2 DEF IsBatch
<1> HIDE DEF r, b2, c, b
<1>7. \A d \in TfClients : tfRequest'[d] = IF d = c THEN r ELSE tfRequest[d]
  BY <1>1 DEF TfInv, TfTypes
<1>8. tfRequest' = [d \in TfClients |-> tfRequest'[d]] /\ tfBatch' = [u \in TfThreads |-> tfBatch'[u]]
  BY <1>1 DEF TfInv, TfTypes
<1>9. \A u \in TfThreads : tfBatch'[u] = IF u = t THEN b2 ELSE tfBatch[u]
  BY <1>1 DEF TfInv, TfTypes
<1>10. /\ \A u \in TfThreads : /\ tfBatch'[u].tasks = tfBatch[u].tasks /\ tfBatch'[u].pc = tfBatch[u].pc
                               /\ tfBatch'[u].status = tfBatch[u].status
       /\ Untold(t)' = Untold(t) \ {k} /\ \A u \in TfThreads : u # t => Untold(u)' = Untold(u)
  <2>1. \A u \in TfThreads : /\ tfBatch'[u].tasks = tfBatch[u].tasks /\ tfBatch'[u].pc = tfBatch[u].pc
                             /\ tfBatch'[u].status = tfBatch[u].status
    BY <1>6, <1>9 DEF b
  <2>2. Untold(t)' = k + 1 .. Len(b.tasks)
    BY <1>1, <1>6, <1>9 DEF Untold
  <2>3. \A u \in TfThreads : u # t => Untold(u)' = Untold(u)
    BY <1>9 DEF Untold
  <2> QED BY <1>2, <2>1, <2>2, <2>3
<1>11. c = tfBatch[t].tasks[k]
  BY DEF c, b
<1> HIDE DEF k
<1>12. \A u \in TfThreads : \A i \in Untold(u)' : i \in Untold(u) /\ tfBatch[u].tasks[i] # c
  BY <1>2, <1>10, <1>11 DEF TfInv, TakenOnce
<1>13. \A s \in DOMAIN tfQueue : \A i \in DOMAIN tfQueue[s] : tfQueue[s][i] # c
  BY <1>2, <1>11 DEF TfInv, QueuedOnce
<1>14. \A d \in TfClients : d # c => tfRequest'[d] = tfRequest[d] /\ (Pending(d) => Pending(d)')
  BY <1>7 DEF Pending
<1>15. IsTask(r, c)
  <2>1. Asks(r) /\ Own(r, c) = Own(tfRequest[c], c)
    BY <1>4, <1>5 DEF IsTask, Asks, Own
  <2>2. Late(tfRequest[c]) => Late(r)
    BY <1>5 DEF Late, Deadline
  <2> QED BY <1>3, <1>4, <1>5, <2>1, <2>2 DEF IsTask
<1>16. TfTypes'
  <2>1. \A u \in TfThreads : tfBatch'[u] = NoBatch \/ IsBatch(tfBatch'[u])
    BY <1>6, <1>9 DEF TfInv, TfTypes
  <2> QED BY <1>1, <1>8, <2>1 DEF TfInv, TfTypes, IsBatch
<1>17. RequestsAre'
  <2>1. \A d \in TfClients : \/ tfRequest'[d] \in {TfIdle, TfFound}
                             \/ IsAnswer(tfRequest'[d], d)
                             \/ IsTask(tfRequest'[d], d)
    BY <1>7, <1>15 DEF TfInv, RequestsAre
  <2>2. \A d \in TfClients : /\ IsAnswer(tfRequest'[d], d) => IsAnswer(tfRequest[d], d)'
                             /\ IsTask(tfRequest'[d], d) => IsTask(tfRequest[d], d)'
    BY <1>1 DEF IsAnswer, IsTask, Late, Whole, Asks, Own, Deadline
  <2> QED BY <2>1, <2>2 DEF RequestsAre
<1>18. QueuedOnce'
  <2>1. \A s \in DOMAIN tfQueue : \A i \in DOMAIN tfQueue[s] :
          Pending(tfQueue[s][i])' /\ tfRequest'[tfQueue[s][i]].outputs = <<>>
    <3>1. \A s \in DOMAIN tfQueue : \A i \in DOMAIN tfQueue[s] :
            tfQueue[s][i] \in TfClients /\ Pending(tfQueue[s][i]) /\ tfRequest[tfQueue[s][i]].outputs = <<>>
      BY PlacesAreOfClients DEF TfInv, QueuedOnce
    <3> QED BY <1>1, <1>13, <1>14, <3>1 DEF Pending
  <2>2. \A s \in DOMAIN tfQueue : \A i \in DOMAIN tfQueue[s] :
          \A u \in TfThreads : \A j \in Untold(u)' : tfBatch'[u].tasks[j] # tfQueue[s][i]
    BY <1>10, <1>12 DEF TfInv, QueuedOnce
  <2> QED BY <1>1, <2>1, <2>2 DEF TfInv, QueuedOnce, Pending
<1>19. TakenOnce'
  <2>1. ASSUME NEW u \in TfThreads, NEW i \in Untold(u)'
        PROVE  /\ Pending(tfBatch[u].tasks[i])'
               /\ tfRequest'[tfBatch[u].tasks[i]] = tfRequest[tfBatch[u].tasks[i]]
               /\ Late(tfRequest[tfBatch[u].tasks[i]]) => Late(tfRequest[tfBatch[u].tasks[i]])'
    <3> DEFINE d == tfBatch[u].tasks[i]
    <3>1. d \in TfClients /\ d # c /\ Pending(d)
      BY <1>12, PlacesAreOfClients DEF TfInv, TakenOnce
    <3>2. tfBatch'[u].tasks[i] = d
      BY <1>10
    <3>3. tfRequest'[d] = tfRequest[d] /\ Pending(d)'
      BY <1>14, <3>1, <3>2 DEF Pending
    <3> QED BY <1>1, <1>10, <3>2, <3>3 DEF Late, Deadline, Pending
  <2>2. \A u \in TfThreads : \A i \in Untold(u)' : \A v \in TfThreads : \A j \in Untold(v)' :
          tfBatch'[u].tasks[i] = tfBatch'[v].tasks[j] => u = v /\ i = j
    BY <1>10, <1>12 DEF TfInv, TakenOnce
  <2> QED BY <1>1, <1>10, <1>12, <2>1, <2>2 DEF TfInv, TakenOnce, Pending, Late, Deadline
<1>20. Kept'
  <2>1. \A d \in TfClients : Untouched(d)' => d # c /\ Untouched(d)
    <3>1. ASSUME NEW d \in TfClients, Untouched(d)' PROVE d # c
      <4>1. tfRequest'[d].told = "none"
        BY <3>1 DEF Untouched
      <4>2. tfRequest'[c].told = t
        BY <1>3, <1>5, <1>7
      <4> QED BY <4>1, <4>2, TfNothing
    <3> QED BY <1>7, <3>1 DEF Untouched
  <2>2. ASSUME NEW d, d # c, HasPlace(d) PROVE HasPlace(d)'
    <3>1. CASE \E s \in DOMAIN tfQueue : \E i \in DOMAIN tfQueue[s] : tfQueue[s][i] = d
      BY <1>1, <3>1 DEF HasPlace
    <3>2. CASE \E u \in TfThreads : \E i \in Untold(u) : tfBatch[u].tasks[i] = d
      <4>1. PICK u \in TfThreads : \E i \in Untold(u) : tfBatch[u].tasks[i] = d
        BY <3>2
      <4> PICK i \in Untold(u) : tfBatch[u].tasks[i] = d
        BY <4>1
      <4>2. i \in Untold(u)' /\ tfBatch'[u].tasks[i] = d
        BY <1>10, <1>11, <2>2
      <4> QED BY <4>2 DEF HasPlace
    <3> QED BY <2>2, <3>1, <3>2 DEF HasPlace
  <2> QED BY <2>1, <2>2 DEF TfInv, Kept
<1> QED BY <1>16, <1>17, <1>18, <1>19, <1>20 DEF TfInv

\* The tasks that go with their batch have been told.
LEMMA DestroyBatchKeeps ==
  ASSUME TfInv, NEW t \in TfThreads, DestroyBatch(t)
  PROVE  TfInv'
<1> DEFINE Gone(c) == [tfRequest[c] EXCEPT !.task = "gone"]
           Lost(c) == tfRequest[c].pc = "waits" /\ tfRequest[c].told = t
<1>1. /\ tfBatch[t].pc = "tells" /\ tfBatch[t].told = Len(tfBatch[t].tasks)
      /\ tfRequest' = [c \in TfClients |-> IF Lost(c) THEN Gone(c) ELSE tfRequest[c]]
      /\ tfBatch' = [tfBatch EXCEPT ![t] = NoBatch] /\ UNCHANGED <<plan, tfQueue, tfNow>>
  BY DEF DestroyBatch
<1>2. \A c \in TfClients : tfRequest'[c] = IF Lost(c) THEN Gone(c) ELSE tfRequest[c]
  BY <1>1
<1>3. \A c \in TfClients : Lost(c) => IsTask(tfRequest[c], c) /\ ~Pending(c)
  BY TfNothing DEF TfInv, RequestsAre, IsAnswer, TfIdle, TfFound, Pending
<1>4. \A c \in TfClients : Lost(c) => IsTask(Gone(c), c) /\ Gone(c).pc = "waits"
  <2> SUFFICES ASSUME NEW c \in TfClients, Lost(c) PROVE IsTask(Gone(c), c) /\ Gone(c).pc = "waits"
    OBVIOUS
  <2> DEFINE g == Gone(c)
  <2>1. IsTask(tfRequest[c], c) /\ tfRequest[c].pc = "waits"
    BY <1>3
  <2>2. /\ g.pc = "waits" /\ g.task = "gone" /\ g.outputs = tfRequest[c].outputs
        /\ g.call = tfRequest[c].call /\ g.begun = tfRequest[c].begun /\ g.names = tfRequest[c].names
        /\ g.aliases = tfRequest[c].aliases /\ DOMAIN g = Fields /\ g = [f \in Fields |-> g[f]]
    BY <2>1 DEF IsTask, Fields
  <2> HIDE DEF g
  <2>3. Asks(g) /\ Own(g, c) = Own(tfRequest[c], c)
    BY <2>1, <2>2 DEF IsTask, Asks, Own
  <2>4. IsTask(g, c)
    BY <2>1, <2>2, <2>3 DEF IsTask
  <2> QED BY <2>2, <2>4 DEF g
<1>5. \A c \in TfClients : Pending(c) => ~Lost(c)
  BY <1>3
<1> HIDE DEF Gone, Lost
<1>6. \A u \in TfThreads : tfBatch'[u] = IF u = t THEN NoBatch ELSE tfBatch[u]
  BY <1>1 DEF TfInv, TfTypes
<1>7. Untold(t)' = {} /\ \A u \in TfThreads : u # t => Untold(u)' = Untold(u) /\ tfBatch'[u] = tfBatch[u]
  BY <1>6 DEF Untold, NoBatch
<1>8. \A c \in TfClients : Pending(c) => Pending(c)' /\ tfRequest'[c] = tfRequest[c]
  BY <1>2, <1>5 DEF Pending
<1>9. TfTypes'
  <2>1. tfRequest' = [c \in TfClients |-> tfRequest'[c]] /\ tfBatch' = [u \in TfThreads |-> tfBatch'[u]]
    BY <1>1 DEF TfInv, TfTypes
  <2>2. \A u \in TfThreads : tfBatch'[u] = NoBatch \/ IsBatch(tfBatch'[u])
    BY <1>6 DEF TfInv, TfTypes
  <2> QED BY <1>1, <2>1, <2>2 DEF TfInv, TfTypes, IsBatch
<1>10. RequestsAre'
  <2>1. \A d \in TfClients : \/ tfRequest'[d] \in {TfIdle, TfFound}
                             \/ IsAnswer(tfRequest'[d], d)
                             \/ IsTask(tfRequest'[d], d)
    BY <1>2, <1>4 DEF TfInv, RequestsAre
  <2>2. \A d \in TfClients : /\ IsAnswer(tfRequest'[d], d) => IsAnswer(tfRequest[d], d)'
                             /\ IsTask(tfRequest'[d], d) => IsTask(tfRequest[d], d)'
    BY <1>1 DEF IsAnswer, IsTask, Late, Whole, Asks, Own, Deadline
  <2> QED BY <2>1, <2>2 DEF RequestsAre
<1>11. QueuedOnce'
  <2>1. \A s \in DOMAIN tfQueue : \A i \in DOMAIN tfQueue[s] :
          /\ Pending(tfQueue[s][i])' /\ tfRequest'[tfQueue[s][i]].outputs = <<>>
    <3>1. \A s \in DOMAIN tfQueue : \A i \in DOMAIN tfQueue[s] :
            tfQueue[s][i] \in TfClients /\ Pending(tfQueue[s][i]) /\ tfRequest[tfQueue[s][i]].outputs = <<>>
      BY PlacesAreOfClients DEF TfInv, QueuedOnce
    <3> QED BY <1>1, <1>8, <3>1 DEF Pending
  <2>2. \A s \in DOMAIN tfQueue : \A i \in DOMAIN tfQueue[s] :
          \A u \in TfThreads : \A j \in Untold(u)' : tfBatch'[u].tasks[j] # tfQueue[s][i]
    BY <1>7 DEF TfInv, QueuedOnce
  <2>3. \A s \in DOMAIN tfQueue : \A i \in DOMAIN tfQueue[s] :
          \A r \in DOMAIN tfQueue : \A j \in DOMAIN tfQueue[r] :
            tfQueue[s][i] = tfQueue[r][j] => s = r /\ i = j
    BY DEF TfInv, QueuedOnce
  <2>4. tfQueue' = tfQueue
    BY <1>1
  <2> QED BY <2>1, <2>2, <2>3, <2>4 DEF QueuedOnce, Pending
<1>12. TakenOnce'
  <2>1. \A u \in TfThreads : \A i \in Untold(u)' : u # t /\ i \in Untold(u) /\ tfBatch'[u] = tfBatch[u]
    BY <1>7
  <2>2. ASSUME NEW u \in TfThreads, NEW i \in Untold(u)'
        PROVE  /\ Pending(tfBatch[u].tasks[i])'
               /\ tfRequest'[tfBatch[u].tasks[i]] = tfRequest[tfBatch[u].tasks[i]]
               /\ Late(tfRequest[tfBatch[u].tasks[i]]) => Late(tfRequest[tfBatch[u].tasks[i]])'
    <3> DEFINE d == tfBatch[u].tasks[i]
    <3>1. d \in TfClients /\ Pending(d) /\ tfBatch'[u].tasks[i] = d
      BY <2>1, PlacesAreOfClients DEF TfInv, TakenOnce
    <3>2. tfRequest'[d] = tfRequest[d] /\ Pending(d)'
      BY <1>8, <3>1 DEF Pending
    <3> QED BY <1>1, <3>1, <3>2 DEF Late, Deadline, Pending
  <2> QED BY <1>1, <2>1, <2>2 DEF TfInv, TakenOnce, Pending, Late, Deadline
<1>13. Kept'
  <2>1. \A c \in TfClients : Untouched(c)' => Untouched(c)
    <3>1. ASSUME NEW c \in TfClients, Lost(c) PROVE ~Untouched(c)'
      <4>1. tfRequest'[c] = Gone(c) /\ IsTask(tfRequest[c], c) /\ tfRequest[c].told = t
        BY <1>2, <1>3, <3>1 DEF Lost
      <4>2. Gone(c).told = t
        BY <4>1 DEF Gone, IsTask, Fields
      <4> QED BY <4>1, <4>2, TfNothing DEF Untouched
    <3> QED BY <1>2, <3>1 DEF Untouched
  <2>2. Untold(t) = {}
    <3>1. IsBatch(tfBatch[t])
      BY <1>1, BatchTypes
    <3> QED BY <1>1, <3>1 DEF Untold, IsBatch
  <2>3. \A d : HasPlace(d) => HasPlace(d)'
    BY <1>1, <1>7, <2>2 DEF HasPlace
  <2> QED BY <2>1, <2>3 DEF TfInv, Kept
<1> QED BY <1>9, <1>10, <1>11, <1>12, <1>13 DEF TfInv
-----------------------------------------------------------------------------
\* Each action keeps the invariant.
LEMMA NextTfInv ==
  ASSUME TfInv, [TfNext]_tfvars
  PROVE  TfInv'
<1>1. CASE UNCHANGED tfvars
  BY <1>1, TfStutters DEF tfvars, TfInv, TfTypes
<1>2. CASE \E model \in TfModels : LoadPlan(model)
  BY <1>2, LoadPlanKeeps
<1>3. CASE UnloadPlan \/ Withdraw \/ \E t \in TfThreads : RunOnNoModel(t)
  BY <1>3, TfStutters DEF UnloadPlan, Withdraw, RunOnNoModel, TfInv, TfTypes
<1>4. CASE \E c \in TfClients, call \in TfCalls : Preprocess(c, call)
  BY <1>4, PreprocessKeeps
<1>5. CASE \E c \in TfClients : ScheduleTask(c)
  BY <1>5, ScheduleTaskKeeps
<1>6. CASE \E c \in TfClients : \/ FindPlan(c) \/ UseNoModel(c) \/ RunAlone(c) \/ RefuseTask(c)
                               \/ ScheduleOnNull(c) \/ AwaitTask(c) \/ Forget(c)
  BY <1>6, ClientKeeps
<1>7. CASE \E t \in TfThreads, s \in DOMAIN tfQueue : TakeBatch(t, s)
  BY <1>7, TakeBatchKeeps
<1>8. CASE \E t \in TfThreads : StartBatch(t)
  BY <1>8, StartBatchKeeps
<1>9. CASE \E t \in TfThreads : EndBatch(t)
  BY <1>9, EndBatchKeeps
<1>10. CASE \E t \in TfThreads : TellTask(t)
  BY <1>10, TellTaskKeeps
<1>11. CASE \E t \in TfThreads : DestroyBatch(t)
  BY <1>11, DestroyBatchKeeps
<1>12. CASE Tick
  BY <1>12, TickKeeps
<1>13. CASE DeleteQueues
  BY <1>13, DeleteQueuesKeeps
<1> QED
  BY <1>1, <1>2, <1>3, <1>4, <1>5, <1>6, <1>7, <1>8, <1>9, <1>10, <1>11, <1>12, <1>13 DEF TfNext

\* Answers are whole or late, and who waits is in a place.
LEMMA TfInvAnswers ==
  ASSUME TfInv
  PROVE  PlansAnswer
<1>1. ASSUME NEW c \in TfClients, tfRequest[c].pc = "answered"
      PROVE  IsAnswer(tfRequest[c], c)
  <2>1. tfRequest[c] \notin {TfIdle, TfFound}
    BY <1>1 DEF TfIdle, TfFound
  <2>2. ~IsTask(tfRequest[c], c)
    BY <1>1 DEF IsTask
  <2> QED BY <2>1, <2>2 DEF TfInv, RequestsAre
<1>2. PlansAnswerWhole
  BY <1>1 DEF PlansAnswerWhole, IsAnswer, Whole
<1>3. TimeoutsAreOwn
  BY <1>1 DEF TimeoutsAreOwn, IsAnswer, Late, WasTimeout
<1>4. TasksAreKept
  <2>1. ASSUME NEW c \in TfClients, HasPlace(c)
        PROVE  \/ \E s \in DOMAIN tfQueue : c \in Elements(tfQueue[s])
               \/ \E t \in TfThreads : /\ tfBatch[t].pc # "idle"
                                      /\ \E i \in tfBatch[t].told + 1 .. Len(tfBatch[t].tasks) :
                                           tfBatch[t].tasks[i] = c
    BY <2>1 DEF HasPlace, Untold, Elements
  <2> QED BY <2>1 DEF TfInv, Kept, Untouched, TasksAreKept
<1> QED BY <1>2, <1>3, <1>4 DEF PlansAnswer

\* A response with status OK has each tensor that its own request asked for, a
\* timeout is told only to those who are late, and a task that was scheduled is
\* kept until it is told, also while its model is unloaded from under it
\* (PlanModelPredictor::predict(), BatchingSession::batch(), doprocess(), done(),
\* PlanModelLoader::unloadBare()).
THEOREM PlansAlwaysAnswer == TfSpec => []PlansAnswer
<1>1. TfInit => TfInv
  BY InitTfInv
<1>2. TfInv /\ [TfNext]_tfvars => TfInv'
  BY NextTfInv
<1>3. TfInv => PlansAnswer
  BY TfInvAnswers
<1> QED BY <1>1, <1>2, <1>3, PTL DEF TfSpec

(***************************************************************************)
(* InstanceLoad.  The invariant counts the instances against the places    *)
(* the configuration gives (Slots, a concatenation of concatenations), and *)
(* says of every buffer whose tensor it is and that it has room for a      *)
(* batch, or has forgotten how much.                                       *)
(***************************************************************************)
NatOrder == {ss \in Nat \X Nat : ss[1] < ss[2]}
LEMMA NatOrderIsWellFounded == IsWellFoundedOn(NatOrder, Nat)
  BY NatLessThanWellFounded DEF OpToRel, NatOrder

\* Every nonempty set of natural numbers has a least one.
LEMMA LeastNumber == ASSUME NEW S \in SUBSET Nat, S # {} PROVE \E n \in S : \A m \in S : n <= m
<1>1. PICK n \in S : \A m \in S : ~(<<m, n>> \in NatOrder)
  BY NatOrderIsWellFounded, WFMin
<1>2. \A m \in S : m < n => <<m, n>> \in NatOrder
  BY DEF NatOrder
<1>3. \A m \in S : ~(m < n)
  BY <1>1, <1>2
<1> QED BY <1>3

\* Induction for sets of natural numbers.
LEMMA NatSetInduction ==
  ASSUME NEW S, 0 \in S, \A n \in Nat : n \in S => n + 1 \in S
  PROVE  \A n \in Nat : n \in S
<1> SUFFICES ASSUME Nat \ S # {} PROVE FALSE
  OBVIOUS
<1>1. PICK n \in Nat \ S : \A m \in Nat \ S : n <= m
  BY LeastNumber
<1>2. n # 0 /\ n - 1 \in Nat /\ n - 1 \in S
  BY <1>1
<1> QED BY <1>1, <1>2
-----------------------------------------------------------------------------
\* The concatenations of FlattenSeq: the function it chooses exists.
Flattened(s) == CHOOSE f : f = [i \in 1 .. Len(s) |-> IF i = 1 THEN s[i] ELSE f[i - 1] \o s[i]]

LEMMA FlattenedIs ==
  ASSUME NEW s, NEW n \in Nat, n = Len(s)
  PROVE  Flattened(s) = [i \in 1 .. n |-> IF i = 1 THEN s[i] ELSE Flattened(s)[i - 1] \o s[i]]
<1> DEFINE T == {m \in Nat : \E f : f = [i \in 1 .. m |-> IF i = 1 THEN s[i] ELSE f[i - 1] \o s[i]]}
<1>1. 0 \in T
  <2>1. PICK f : f = [i \in 1 .. 0 |-> s[i]]
    OBVIOUS
  <2>2. f = [i \in 1 .. 0 |-> IF i = 1 THEN s[i] ELSE f[i - 1] \o s[i]]
    BY <2>1
  <2> QED BY <2>2
<1>2. ASSUME NEW m \in Nat, m \in T PROVE m + 1 \in T
  <2>1. PICK g : g = [i \in 1 .. m |-> IF i = 1 THEN s[i] ELSE g[i - 1] \o s[i]]
    BY <1>2
  <2>2. PICK f : f = [i \in 1 .. m + 1 |-> IF i = 1 THEN s[i] ELSE g[i - 1] \o s[i]]
    OBVIOUS
  <2>3. \A i \in 1 .. m : g[i] = IF i = 1 THEN s[i] ELSE g[i - 1] \o s[i]
    BY <2>1
  <2>4. \A i \in 1 .. m + 1 : f[i] = IF i = 1 THEN s[i] ELSE g[i - 1] \o s[i]
    BY <2>2
  <2>5. \A i \in 1 .. m : f[i] = g[i]
    BY <2>3, <2>4
  <2>6. ASSUME NEW i \in 1 .. m + 1, i # 1 PROVE g[i - 1] = f[i - 1]
    <3>1. i - 1 \in 1 .. m
      BY <2>6
    <3> QED BY <2>5, <3>1
  <2>7. f = [i \in 1 .. m + 1 |-> IF i = 1 THEN s[i] ELSE f[i - 1] \o s[i]]
    BY <2>2, <2>6
  <2>8. \E h : h = [i \in 1 .. m + 1 |-> IF i = 1 THEN s[i] ELSE h[i - 1] \o s[i]]
    BY <2>7
  <2>9. m + 1 \in Nat
    OBVIOUS
  <2> QED BY <2>8, <2>9, Zenon
<1>3. n \in T
  BY <1>1, <1>2, NatSetInduction
<1> QED BY <1>3 DEF Flattened

\* Concatenating sequences of a set gives one.
LEMMA FlattenIsSeq == ASSUME NEW S, NEW s \in Seq(Seq(S)) PROVE FlattenSeq(s) \in Seq(S)
<1>1. PICK n \in Nat : n = Len(s)
  OBVIOUS
<1>2. CASE n = 0
  <2>1. s = <<>> /\ Len(s) = 0 /\ <<>> \in Seq(S)
    BY <1>1, <1>2, EmptySeq
  <2>2. FlattenSeq(s) = s
    BY <2>1, Zenon DEF FlattenSeq
  <2> QED BY <2>1, <2>2
<1>3. CASE n # 0
  <2>1. PICK f : f = Flattened(s)
    OBVIOUS
  <2>2. FlattenSeq(s) = f[n]
    BY <1>1, <1>3, <2>1, Zenon DEF FlattenSeq, Flattened
  <2>3. \A i \in 1 .. n : f[i] = IF i = 1 THEN s[i] ELSE f[i - 1] \o s[i]
    <3>1. f = [i \in 1 .. n |-> IF i = 1 THEN s[i] ELSE f[i - 1] \o s[i]]
      <4>1. n = Len(s) /\ n \in Nat
        BY <1>1
      <4>2. Flattened(s) = [i \in 1 .. n |-> IF i = 1 THEN s[i] ELSE Flattened(s)[i - 1] \o s[i]]
        BY <4>1, FlattenedIs, Zenon
      <4> QED BY <2>1, <4>2, Zenon
    <3> QED BY <3>1
  <2> DEFINE T == {m \in Nat : m + 1 <= n => f[m + 1] \in Seq(S)}
  <2>4. 0 \in T
    <3>1. 0 + 1 = 1 /\ 1 \in 1 .. n
      BY <1>3
    <3>2. f[1] = s[1]
      BY <2>3, <3>1
    <3> QED BY <1>1, <3>1, <3>2
  <2>5. ASSUME NEW m \in Nat, m \in T PROVE m + 1 \in T
    <3> SUFFICES ASSUME (m + 1) + 1 <= n PROVE f[(m + 1) + 1] \in Seq(S)
      OBVIOUS
    <3>1. m + 1 <= n /\ m + 2 \in 1 .. n /\ m + 2 # 1 /\ (m + 2) - 1 = m + 1 /\ (m + 1) + 1 = m + 2
      OBVIOUS
    <3>2. PICK a \in Seq(S) : a = f[m + 1]
      BY <2>5, <3>1
    <3>3. PICK b \in Seq(S) : b = s[m + 2]
      BY <1>1, <3>1
    <3>4. f[m + 2] = a \o b
      BY <2>3, <3>1, <3>2, <3>3
    <3>5. a \o b \in Seq(S)
      OBVIOUS
    <3> QED BY <3>1, <3>4, <3>5
  <2>6. n - 1 \in T
    <3>1. n - 1 \in Nat
      BY <1>3
    <3> QED BY <2>4, <2>5, <3>1, NatSetInduction
  <2>7. (n - 1) + 1 = n
    OBVIOUS
  <2> QED BY <2>2, <2>6, <2>7
<1> QED BY <1>2, <1>3
-----------------------------------------------------------------------------
\* No backend knows that a string in quotes is in STRING.
Device == STRING \union {"none", "gpu0", "GPU", "CPU", "any"}
Group == [kind : STRING, count : Int, gpus : Seq(STRING)]

\* There are finitely many places for instances.
LEMMA SlotsAre == ASSUME ldConfig \in LdConfigs PROVE Slots \in Seq(Device)
<1>1. PICK g : g = ldConfig.groups
  OBVIOUS
<1>2. g \in Seq(Group)
  BY <1>1, LdModelsAreTyped DEF Group
<1>3. ASSUME NEW x \in Group PROVE GroupDevices(x) \in Seq(Device)
  <2>0. x.gpus \in Seq(STRING) /\ STRING \subseteq Device
    BY DEF Group, Device
  <2>1. x.gpus \in Seq(Device)
    BY <2>0, SeqMonotonic
  <2>2. \A d \in Device : <<d>> \in Seq(Device)
    OBVIOUS
  <2>3. \A d \in {"none", "gpu0", "GPU", "CPU", "any"} : <<d>> \in Seq(Device)
    BY <2>2 DEF Device
  <2>4. /\ <<"none">> \in Seq(Device) /\ <<"gpu0">> \in Seq(Device) /\ <<"GPU">> \in Seq(Device)
        /\ <<"CPU">> \in Seq(Device) /\ <<"any">> \in Seq(Device)
    BY <2>3
  <2> QED BY <2>1, <2>4, Zenon DEF GroupDevices, Unusable
<1>4. ASSUME NEW i \in DOMAIN g PROVE FlattenSeq([c \in 1 .. g[i].count |-> GroupDevices(g[i])]) \in Seq(Device)
  <2>1. g[i] \in Group
    BY <1>2
  <2>a. g[i].count \in Int
    BY <2>1 DEF Group
  <2>2. PICK d \in Seq(Device) : d = GroupDevices(g[i])
    BY <1>3, <2>1
  <2>3. PICK m \in Nat : 1 .. g[i].count = 1 .. m
    <3>1. PICK x \in Int : x = g[i].count
      BY <2>a
    <3>2. CASE x > 0
      BY <3>1, <3>2
    <3>3. CASE x <= 0
      <4>1. 1 .. x = 1 .. 0
        BY <3>3
      <4> QED BY <3>1, <4>1
    <3> QED BY <3>1, <3>2, <3>3
  <2>4. PICK u : u = [c \in 1 .. m |-> d]
    OBVIOUS
  <2>5. u \in Seq(Seq(Device))
    BY <2>4
  <2>6. FlattenSeq(u) \in Seq(Device)
    BY <2>5, FlattenIsSeq
  <2>7. u = [c \in 1 .. g[i].count |-> GroupDevices(g[i])]
    BY <2>2, <2>3, <2>4
  <2> QED BY <2>6, <2>7
<1>5. PICK v : v = [i \in DOMAIN g |-> FlattenSeq([c \in 1 .. g[i].count |-> GroupDevices(g[i])])]
  OBVIOUS
<1>6. v \in Seq(Seq(Device))
  <2>1. DOMAIN g = 1 .. Len(g) /\ Len(g) \in Nat
    BY <1>2
  <2> QED BY <1>4, <1>5, <2>1
<1>7. FlattenSeq(v) \in Seq(Device)
  BY <1>6, FlattenIsSeq
<1> QED BY <1>1, <1>5, <1>7 DEF Slots
-----------------------------------------------------------------------------
Buf == [name : STRING, input : BOOLEAN, size : LdGarbage \union Int, tensor : LdTensor]
Instance == [device : Device, predictor : Int, buffers : Seq(Buf), handles : SUBSET {TheEngine, TheContext, TheStream}]

\* Only on TopsInference a buffer forgets its size, when one comes after it.
Forgets(b) == /\ ldEngine = "topsinference"
              /\ \E j \in DOMAIN LdTensors : j # b /\ LdTensors[j].input = LdTensors[b].input

BuffersRight(bs) ==
  \A b \in DOMAIN bs :
    /\ b \in DOMAIN LdTensors /\ bs[b].tensor = LdTensors[b]
    /\ bs[b].input = LdTensors[b].input /\ bs[b].name = LdTensors[b].name
    /\ bs[b].size = Room(LdTensors[b]) \/ Forgets(b)
    /\ ldEngine = "tensorrt" => LdTensors[b] \in ToSet(ldPlan.tensors)

Bound(bs) == ldEngine = "tensorrt" => \A i \in DOMAIN ldPlan.tensors : \E b \in DOMAIN bs : bs[b].tensor = ldPlan.tensors[i]
Slotted(k, instance) == instance.device = Slots[k] /\ instance.predictor = Len(Slots) - k

LdTyped == /\ ldPc \in {"idle", "instance", "tensors", "ready", "gone"}
           /\ ldEngine \in LdEngines /\ ldConfig \in LdConfigs /\ ldPlan \in LdPlans
           /\ ldInstances \in Seq(Instance) /\ ldCurrent \in Instance

\* How far the creation of the model is.
Creating ==
  /\ ldPc # "tensors" => ldCurrent = NoInstance
  /\ ldPc \in {"idle", "gone"} => ldInstances = <<>>
  /\ ldPc \in {"instance", "tensors"} => Len(ldInstances) < Len(Slots)
  /\ ldPc = "ready" => Len(ldInstances) = Len(Slots)
  /\ ldPc = "tensors" => Slotted(Number(ldInstances), ldCurrent) /\ BuffersRight(ldCurrent.buffers)

InstancesRight == \A k \in DOMAIN ldInstances :
  Slotted(k, ldInstances[k]) /\ BuffersRight(ldInstances[k].buffers) /\ Bound(ldInstances[k].buffers)

LdInv == LdTyped /\ Creating /\ InstancesRight /\ NothingLeaks /\ BatchesFit /\ CopiesFit

LEMMA NoInstanceIs == NoInstance \in Instance /\ NoInstance.handles = {} /\ NoInstance.buffers = <<>>
<1>1. <<>> \in Seq(Buf)
  BY EmptySeq
<1>2. "none" \in Device
  BY DEF Device
<1> QED BY <1>1, <1>2 DEF NoInstance, Instance

LEMMA LdInvHolds == LdInv => InstancesHold
<1> SUFFICES ASSUME LdInv, ldPc = "ready"
             PROVE  /\ Len(ldInstances) = Len(Slots)
                    /\ {ldInstances[k].predictor : k \in DOMAIN ldInstances} = 0 .. Len(Slots) - 1
                    /\ \A k \in DOMAIN ldInstances : ldInstances[k].device = Slots[k]
                    /\ ldEngine = "tensorrt" =>
                         \A k \in DOMAIN ldInstances : {b.tensor : b \in ToSet(ldInstances[k].buffers)} = ToSet(ldPlan.tensors)
  BY DEF LdInv, InstancesHold, InstancesAreWhole
<1>1. PICK n \in Nat : n = Len(Slots)
  BY SlotsAre DEF LdInv, LdTyped
<1>2. Len(ldInstances) = n /\ DOMAIN ldInstances = 1 .. n
  BY <1>1 DEF LdInv, LdTyped, Creating
<1>3. \A k \in 1 .. n : ldInstances[k].device = Slots[k] /\ ldInstances[k].predictor = n - k
  BY <1>1, <1>2 DEF LdInv, InstancesRight, Slotted
<1>4. {ldInstances[k].predictor : k \in 1 .. n} = 0 .. n - 1
  <2>1. ASSUME NEW k \in 1 .. n PROVE ldInstances[k].predictor \in 0 .. n - 1
    BY <1>3
  <2>2. ASSUME NEW x \in 0 .. n - 1 PROVE \E k \in 1 .. n : ldInstances[k].predictor = x
    <3>1. n - x \in 1 .. n /\ n - (n - x) = x
      OBVIOUS
    <3> QED BY <1>3, <3>1
  <2> QED BY <2>1, <2>2
<1>5. ASSUME ldEngine = "tensorrt", NEW k \in DOMAIN ldInstances
      PROVE  {b.tensor : b \in ToSet(ldInstances[k].buffers)} = ToSet(ldPlan.tensors)
  <2>1. PICK bs : bs = ldInstances[k].buffers
    OBVIOUS
  <2>2. BuffersRight(bs) /\ Bound(bs)
    BY <2>1 DEF LdInv, InstancesRight
  <2>3. \A b \in DOMAIN bs : bs[b].tensor \in ToSet(ldPlan.tensors)
    BY <1>5, <2>2 DEF BuffersRight
  <2>4. \A i \in DOMAIN ldPlan.tensors : \E b \in DOMAIN bs : bs[b].tensor = ldPlan.tensors[i]
    BY <1>5, <2>2 DEF Bound
  <2> QED BY <2>1, <2>3, <2>4 DEF ToSet
<1> QED BY <1>1, <1>2, <1>3, <1>4, <1>5

LEMMA LdInitKeeps == LdInit => LdInv
<1> SUFFICES ASSUME LdInit PROVE LdInv
  OBVIOUS
<1>1. NoInstance \in Instance
  BY NoInstanceIs
<1>2. NothingLeaks
  BY DEF LdInit, NothingLeaks, Owned, NoInstance
<1>3. LdTyped /\ Creating /\ InstancesRight /\ BatchesFit /\ CopiesFit
  BY <1>1 DEF LdInit, LdTyped, Creating, InstancesRight, BatchesFit, CopiesFit
<1> QED BY <1>2, <1>3 DEF LdInv

LEMMA AbandonKeeps == ASSUME LdInv, Abandon PROVE LdInv'
<1>1. NoInstance \in Instance
  BY NoInstanceIs
<1>2. ldHeap' = {} /\ ldInstances' = <<>> /\ ldCurrent' = NoInstance /\ ldPc' = "gone"
  BY DEF Abandon, DestroyAll, LdInv, NothingLeaks
<1>3. NothingLeaks'
  BY <1>2 DEF NothingLeaks, Owned, NoInstance
<1>4. UNCHANGED <<ldEngine, ldConfig, ldPlan, ldCopies, ldStatus>>
  BY DEF Abandon
<1>5. LdTyped' /\ Creating' /\ InstancesRight'
  BY <1>1, <1>2, <1>4 DEF LdInv, LdTyped, Creating, InstancesRight
<1>6. BatchesFit' /\ CopiesFit'
  BY <1>4 DEF LdInv, BatchesFit, CopiesFit, LdTensors
<1> QED BY <1>3, <1>5, <1>6 DEF LdInv

LEMMA SlotsStay == UNCHANGED <<ldEngine, ldConfig>> => UNCHANGED Slots
BY DEF Slots, GroupDevices

LEMMA Times == \A a, b \in Nat : a * b \in Nat
OBVIOUS

LEMMA TimesMore == \A a, b, r \in Nat : a <= b => a * r <= b * r
OBVIOUS

LEMMA AtLeastOneIs == \A n \in Nat : AtLeastOne(n) \in Nat /\ AtLeastOne(n) >= n /\ (n > 0 => AtLeastOne(n) = n)
<1> SUFFICES ASSUME NEW n \in Nat PROVE AtLeastOne(n) \in Nat /\ AtLeastOne(n) >= n /\ (n > 0 => AtLeastOne(n) = n)
  OBVIOUS
<1>1. CASE n > 0
  <2>1. Max({1, n}) = n
    BY <1>1 DEF Max
  <2> QED BY <2>1 DEF AtLeastOne
<1>2. CASE n = 0
  <2>1. Max({1, 0}) = 1
    BY DEF Max
  <2> QED BY <1>2, <2>1 DEF AtLeastOne
<1> QED BY <1>1, <1>2

LEMMA RowBytesAre == \A t \in LdTensor : RowBytes(t) \in Nat
BY Times DEF RowBytes, TypeSize, LdTensor

LEMMA RoomIs ==
  ASSUME LdTyped, NEW t \in LdTensor
  PROVE  \E m \in Nat : /\ Room(t) = m * RowBytes(t) /\ Room(t) \in Nat
                        /\ \/ AtLeastOne(ldConfig.batch) <= m
                           \/ ldConfig.batch = 0 /\ ldEngine \notin {"tensorrt", "tvm", "tflite"}
<1>1. PICK batch \in Nat : batch = ldConfig.batch
  BY LdModelsAreTyped DEF LdTyped
<1>2. PICK one \in Nat : one = AtLeastOne(batch) /\ (batch > 0 => one = batch)
  BY AtLeastOneIs
<1>3. PICK r \in Nat : r = RowBytes(t)
  BY RowBytesAre
<1>4. PICK m \in Nat : m = IF ldEngine \in {"tensorrt", "tvm", "tflite"} THEN one ELSE batch
  OBVIOUS
<1>5. Room(t) = m * r
  BY <1>1, <1>2, <1>3, <1>4 DEF Room
<1>6. m * r \in Nat
  BY Times
<1>7. one <= m \/ (batch = 0 /\ ldEngine \notin {"tensorrt", "tvm", "tflite"})
  BY <1>2, <1>4
<1> QED BY <1>1, <1>2, <1>3, <1>5, <1>6, <1>7

LEMMA LdTensorsAre == LdTyped => LdTensors \in Seq(LdTensor)
BY LdModelsAreTyped DEF LdTyped, LdTensors

\* What is said of the buffers depends on what does not change.
LEMMA RightStays ==
  ASSUME NEW bs, UNCHANGED <<ldEngine, ldConfig, ldPlan>>
  PROVE  (BuffersRight(bs)' <=> BuffersRight(bs)) /\ (Bound(bs)' <=> Bound(bs))
BY DEF BuffersRight, LdTensors, Forgets, Room, Bound

\* A step that keeps the batches keeps what is said of them.
LEMMA CopiesStay ==
  ASSUME BatchesFit, CopiesFit, UNCHANGED <<ldEngine, ldConfig, ldPlan, ldCopies, ldStatus>>
  PROVE  BatchesFit' /\ CopiesFit'
BY DEF BatchesFit, CopiesFit, LdTensors

\* So does one that keeps the instances.
LEMMA InstancesStay ==
  ASSUME InstancesRight, UNCHANGED <<ldEngine, ldConfig, ldPlan, ldInstances>>
  PROVE  InstancesRight'
BY SlotsStay DEF InstancesRight, Slotted, BuffersRight, LdTensors, Forgets, Room, Bound

LEMMA LdCreateKeeps == ASSUME LdInv, LdCreate PROVE LdInv'
<1>1. /\ UNCHANGED <<ldEngine, ldConfig, ldPlan, ldInstances, ldCurrent, ldHeap, ldCopies, ldStatus>>
      /\ ldPc = "idle" /\ ldPc' = IF Slots = <<>> THEN "ready" ELSE "instance"
  BY DEF LdCreate, Builds
<1>2. PICK slots \in Seq(Device) : slots = Slots /\ slots = Slots'
  BY <1>1, SlotsAre, SlotsStay DEF LdInv, LdTyped
<1>3. LdTyped'
  BY <1>1 DEF LdInv, LdTyped
<1>4. Creating'
  <2>1. ldInstances' = <<>> /\ Len(ldInstances') = 0 /\ ldCurrent' = NoInstance
    BY <1>1 DEF LdInv, Creating
  <2>2. slots = <<>> <=> Len(slots) = 0
    BY <1>2, EmptySeq
  <2>3. Len(slots) \in Nat
    BY <1>2
  <2> QED BY <1>1, <1>2, <2>1, <2>2, <2>3 DEF Creating
<1>5. InstancesRight' /\ BatchesFit' /\ CopiesFit'
  BY <1>1, InstancesStay, CopiesStay DEF LdInv
<1>6. NothingLeaks'
  BY <1>1 DEF LdInv, NothingLeaks, Owned
<1> QED BY <1>3, <1>4, <1>5, <1>6 DEF LdInv

LEMMA LoadFileKeeps == ASSUME LdInv, LoadFile PROVE LdInv'
<1>1. /\ UNCHANGED <<ldEngine, ldConfig, ldPlan, ldInstances, ldCopies, ldStatus>>
      /\ ldPc = "instance" /\ ldPc' = "tensors"
  BY DEF LoadFile, Builds
<1>2. PICK slots \in Seq(Device) : slots = Slots /\ slots = Slots'
  BY <1>1, SlotsAre, SlotsStay DEF LdInv, LdTyped
<1>3. PICK n \in Nat : n = Len(ldInstances)
  BY DEF LdInv, LdTyped
<1>4. n < Len(slots) /\ Len(slots) \in Nat
  BY <1>1, <1>2, <1>3 DEF LdInv, Creating
<1>5. PICK hs : hs = {TheEngine} \cup IF ldEngine = "topsinference" THEN {TheStream} ELSE {}
  OBVIOUS
<1>6. ldCurrent' = [device |-> slots[n + 1], predictor |-> Len(slots) - n - 1, buffers |-> <<>>, handles |-> hs]
  BY <1>2, <1>3, <1>5 DEF LoadFile, NextPredictor, NoInstance
<1>7. ldHeap' = ldHeap \cup {<<n + 1, h>> : h \in hs}
  <2>1. ldHeap' = ldHeap \cup {<<Number(ldInstances), h>> : h \in ldCurrent'.handles}
    BY DEF LoadFile
  <2>2. ldCurrent'.handles = hs /\ Number(ldInstances) = n + 1
    BY <1>3, <1>6 DEF Number
  <2> QED BY <2>1, <2>2
<1>8. ldCurrent' \in Instance
  <2>1. slots[n + 1] \in Device
    BY <1>2, <1>4
  <2>2. <<>> \in Seq(Buf)
    BY EmptySeq
  <2>3. hs \subseteq {TheEngine, TheContext, TheStream}
    BY <1>5
  <2>4. Len(slots) - n - 1 \in Int
    BY <1>4
  <2> QED BY <1>6, <2>1, <2>2, <2>3, <2>4 DEF Instance
<1>9. LdTyped'
  BY <1>1, <1>8 DEF LdInv, LdTyped
<1>10. Creating'
  <2>1. Slotted(Number(ldInstances), ldCurrent)'
    BY <1>1, <1>2, <1>3, <1>4, <1>6 DEF Slotted, Number
  <2>2. BuffersRight(ldCurrent.buffers)'
    BY <1>6 DEF BuffersRight
  <2> QED BY <1>1, <1>2, <1>3, <1>4, <2>1, <2>2 DEF Creating
<1>11. InstancesRight' /\ BatchesFit' /\ CopiesFit'
  BY <1>1, InstancesStay, CopiesStay DEF LdInv
<1>12. NothingLeaks'
  <2>1. Owned(n + 1, ldCurrent) = {}
    BY <1>1, NoInstanceIs DEF LdInv, Creating, Owned
  <2>2. Owned(n + 1, ldCurrent') = {<<n + 1, h>> : h \in hs}
    BY <1>6 DEF Owned
  <2>3. Owned(n + 1, ldCurrent)' = Owned(n + 1, ldCurrent')
    BY DEF Owned
  <2>4. Number(ldInstances) = n + 1 /\ Number(ldInstances)' = n + 1
    BY <1>1, <1>3 DEF Number
  <2> QED BY <1>1, <1>7, <2>1, <2>2, <2>3, <2>4 DEF LdInv, NothingLeaks, Owned
<1> QED BY <1>9, <1>10, <1>11, <1>12 DEF LdInv

\* A binding that is found is one of the engine's.
LEMMA BindingIs ==
  ASSUME ldPlan \in LdPlans, NEW name, Binding(name) # 0
  PROVE  Binding(name) \in DOMAIN ldPlan.tensors
<1>1. PICK ts \in Seq(LdTensor) : ts = ldPlan.tensors
  BY LdModelsAreTyped
<1>2. PICK I : I = {i \in 1 .. Len(ts) : ts[i].name = name}
  OBVIOUS
<1>3. Binding(name) = IF I # {} THEN Min(I) ELSE 0
  BY <1>1, <1>2 DEF Binding, SelectInSeq
<1>4. I # {} /\ I \in SUBSET Nat
  BY <1>2, <1>3
<1>5. \E x \in I : \A y \in I : x <= y
  BY <1>4, LeastNumber
<1>6. Min(I) \in I
  BY <1>5 DEF Min
<1>7. Binding(name) \in 1 .. Len(ts)
  BY <1>2, <1>3, <1>4, <1>6
<1> QED BY <1>1, <1>7

LEMMA AddTensorKeeps == ASSUME LdInv, AddTensor PROVE LdInv'
<1>1. /\ UNCHANGED <<ldEngine, ldConfig, ldPlan, ldInstances, ldCopies, ldStatus>>
      /\ ldPc = "tensors" /\ ldPc' = "tensors"
  BY DEF AddTensor, MoreTensors, Builds
<1>2. PICK ts \in Seq(LdTensor) : ts = LdTensors /\ ts = LdTensors'
  BY <1>1, LdTensorsAre DEF LdInv, LdTensors
<1>3. PICK cur \in Instance : cur = ldCurrent
  BY DEF LdInv, LdTyped
<1>4. PICK bs \in Seq(Buf) : bs = cur.buffers
  BY <1>3 DEF Instance
<1>5. PICK m \in Nat : m = Len(bs)
  BY <1>4
<1>6. m < Len(ts) /\ m + 1 \in DOMAIN ts /\ ts[m + 1] \in LdTensor
  BY <1>2, <1>3, <1>4, <1>5 DEF AddTensor, MoreTensors
<1>7. PICK t \in LdTensor : t = ts[m + 1] /\ t = NextTensor
  BY <1>2, <1>3, <1>4, <1>5, <1>6 DEF NextTensor
<1>8. PICK garbage \in LdGarbage : ldCurrent' = [ldCurrent EXCEPT !.buffers =
         Append([b \in DOMAIN @ |-> IF Moves(@[b], NextTensor) THEN [@[b] EXCEPT !.size = garbage] ELSE @[b]],
                Buffer(NextTensor))]
  BY DEF AddTensor
<1>9. PICK moved : moved = [b \in DOMAIN bs |-> IF Moves(bs[b], t) THEN [bs[b] EXCEPT !.size = garbage] ELSE bs[b]]
  OBVIOUS
<1>10. PICK new : new = Append(moved, Buffer(t))
  OBVIOUS
<1>11. ldCurrent' = [cur EXCEPT !.buffers = new]
  BY <1>3, <1>4, <1>7, <1>8, <1>9, <1>10
<1>12. moved \in Seq(Buf) /\ Len(moved) = m
  <2>1. ASSUME NEW b \in DOMAIN bs PROVE moved[b] \in Buf
    <3>1. bs[b] \in Buf
      BY <1>4
    <3> QED BY <1>9, <3>1 DEF Buf
  <2>2. DOMAIN bs = 1 .. m
    BY <1>4, <1>5
  <2>3. moved \in [1 .. m -> Buf]
    BY <1>9, <2>1, <2>2
  <2> QED BY <2>3
<1>13. Buffer(t) \in Buf /\ Room(t) \in Int
  <2>1. Room(t) \in Nat
    BY RoomIs DEF LdInv
  <2> QED BY <2>1 DEF Buffer, Buf, LdTensor
<1>14. new \in Seq(Buf) /\ DOMAIN new = 1 .. m + 1 /\ new[m + 1] = Buffer(t) /\ \A b \in 1 .. m : new[b] = moved[b]
  BY <1>10, <1>12, <1>13
<1>15. ldCurrent' \in Instance
  BY <1>3, <1>11, <1>14 DEF Instance
<1>16. BuffersRight(bs)
  BY <1>1, <1>3, <1>4 DEF LdInv, Creating
<1>17. BuffersRight(new)
  <2> SUFFICES ASSUME NEW b \in 1 .. m + 1
               PROVE  /\ b \in DOMAIN ts /\ new[b].tensor = ts[b]
                      /\ new[b].input = ts[b].input /\ new[b].name = ts[b].name
                      /\ new[b].size = Room(ts[b]) \/ Forgets(b)
                      /\ ldEngine = "tensorrt" => ts[b] \in ToSet(ldPlan.tensors)
    BY <1>2, <1>14 DEF BuffersRight
  <2>1. CASE b = m + 1
    <3>1. new[b] = [name |-> t.name, input |-> t.input, size |-> Room(t), tensor |-> t]
      BY <1>14, <2>1 DEF Buffer
    <3>2. ldEngine = "tensorrt" => t \in ToSet(ldPlan.tensors)
      <4> SUFFICES ASSUME ldEngine = "tensorrt" PROVE t \in ToSet(ldPlan.tensors)
        OBVIOUS
      <4>1. Binding(t.name) # 0 /\ ldPlan.tensors[Binding(t.name)] = t
        BY <1>7 DEF AddTensor, Accepts, TensorRtAccepts
      <4>2. Binding(t.name) \in DOMAIN ldPlan.tensors
        BY <4>1, BindingIs DEF LdInv, LdTyped
      <4> QED BY <4>1, <4>2 DEF ToSet
    <3>3. b \in DOMAIN ts /\ t = ts[b]
      BY <1>6, <1>7, <2>1
    <3>4. new[b].tensor = t /\ new[b].input = t.input /\ new[b].name = t.name /\ new[b].size = Room(t)
      BY <3>1
    <3> QED BY <3>2, <3>3, <3>4
  <2>2. CASE b \in 1 .. m
    <3>1. b \in DOMAIN bs
      BY <1>4, <1>5, <2>2
    <3>2. /\ b \in DOMAIN ts /\ bs[b].tensor = ts[b]
          /\ bs[b].input = ts[b].input /\ bs[b].name = ts[b].name
          /\ bs[b].size = Room(ts[b]) \/ Forgets(b)
          /\ ldEngine = "tensorrt" => ts[b] \in ToSet(ldPlan.tensors)
      BY <1>2, <1>16, <3>1 DEF BuffersRight
    <3>3. bs[b] \in Buf
      BY <1>4, <3>1
    <3>4. CASE Moves(bs[b], t)
      <4>1. Forgets(b)
        <5>1. ldEngine = "topsinference" /\ ts[b].input = t.input
          BY <3>2, <3>4 DEF Moves
        <5>2. m + 1 # b
          BY <2>2
        <5> QED BY <1>2, <1>6, <1>7, <5>1, <5>2 DEF Forgets
      <4>2. new[b] = [bs[b] EXCEPT !.size = garbage]
        BY <1>9, <1>14, <2>2, <3>1, <3>4
      <4>3. new[b].tensor = bs[b].tensor /\ new[b].input = bs[b].input /\ new[b].name = bs[b].name
        BY <3>3, <4>2 DEF Buf
      <4> QED BY <3>2, <4>1, <4>3
    <3>5. CASE ~Moves(bs[b], t)
      <4>1. new[b] = bs[b]
        BY <1>9, <1>14, <2>2, <3>1, <3>5
      <4> QED BY <3>2, <4>1
    <3> QED BY <3>4, <3>5
  <2> QED BY <2>1, <2>2
<1>18. cur.handles = ldCurrent'.handles /\ ldCurrent'.buffers = new
       /\ ldCurrent'.device = cur.device /\ ldCurrent'.predictor = cur.predictor
  BY <1>3, <1>11 DEF Instance
<1>19. LdTyped'
  BY <1>1, <1>15 DEF LdInv, LdTyped
<1>20. Creating'
  <2>1. BuffersRight(ldCurrent.buffers)'
    <3>1. BuffersRight(new)'
      BY <1>1, <1>17, RightStays
    <3> QED BY <1>18, <3>1 DEF BuffersRight
  <2>2. UNCHANGED Slots
    BY <1>1, SlotsStay
  <2>3. Slotted(Number(ldInstances), ldCurrent)'
    BY <1>1, <1>3, <1>18, <2>2 DEF LdInv, Creating, Slotted, Number
  <2>4. Len(ldInstances') < Len(Slots')
    BY <1>1, <2>2 DEF LdInv, Creating
  <2> QED BY <1>1, <2>1, <2>3, <2>4 DEF Creating
<1>21. InstancesRight' /\ BatchesFit' /\ CopiesFit'
  BY <1>1, InstancesStay, CopiesStay DEF LdInv
<1>22. NothingLeaks'
  <2>1. PICK n \in Nat : n = Number(ldInstances) /\ n = Number(ldInstances)'
    BY <1>1 DEF LdInv, LdTyped, Number
  <2>2. ldHeap' = ldHeap \cup {<<n, m + 1>>}
    BY <1>3, <1>4, <1>5, <2>1 DEF AddTensor
  <2>3. Owned(n, ldCurrent') = Owned(n, ldCurrent) \cup {<<n, m + 1>>}
    <3>1. DOMAIN new = DOMAIN bs \cup {m + 1}
      BY <1>4, <1>5, <1>14
    <3>2. Owned(n, cur) = {<<n, b>> : b \in DOMAIN bs} \cup {<<n, h>> : h \in cur.handles}
      BY <1>4 DEF Owned
    <3>3. Owned(n, ldCurrent') = {<<n, b>> : b \in DOMAIN new} \cup {<<n, h>> : h \in cur.handles}
      BY <1>18 DEF Owned
    <3> QED BY <1>3, <3>1, <3>2, <3>3
  <2>4. Owned(n, ldCurrent)' = Owned(n, ldCurrent')
    BY DEF Owned
  <2> QED BY <1>1, <2>1, <2>2, <2>3, <2>4 DEF LdInv, NothingLeaks, Owned
<1> QED BY <1>19, <1>20, <1>21, <1>22 DEF LdInv

LEMMA AddInstanceKeeps == ASSUME LdInv, AddInstance PROVE LdInv'
<1>1. /\ UNCHANGED <<ldEngine, ldConfig, ldPlan, ldCopies, ldStatus>>
      /\ ldPc = "tensors" /\ ldPc' = IF Len(ldInstances) + 1 = Len(Slots) THEN "ready" ELSE "instance"
      /\ ldCurrent' = NoInstance
  BY DEF AddInstance, LdComplete
<1>2. PICK slots \in Seq(Device) : slots = Slots /\ slots = Slots'
  BY <1>1, SlotsAre, SlotsStay DEF LdInv, LdTyped
<1>3. PICK made \in Seq(Instance) : made = ldInstances
  BY DEF LdInv, LdTyped
<1>4. PICK n \in Nat : n = Len(made)
  BY <1>3
<1>5. n < Len(slots) /\ Len(slots) \in Nat
  BY <1>1, <1>2, <1>3, <1>4 DEF LdInv, Creating
<1>6. PICK cur \in Instance : cur = ldCurrent
  BY DEF LdInv, LdTyped
<1>7. PICK bs \in Seq(Buf) : bs = cur.buffers
  BY <1>6 DEF Instance
<1>8. PICK hs \in SUBSET {TheEngine, TheContext, TheStream} : hs = cur.handles
  BY <1>6 DEF Instance
<1>9. PICK more \in SUBSET {TheEngine, TheContext, TheStream} :
        more = IF ldEngine = "tensorrt" THEN {TheContext, TheStream} ELSE {}
  OBVIOUS
<1>10. PICK new : new = [cur EXCEPT !.handles = hs \cup more]
  OBVIOUS
<1>11. ldInstances' = Append(made, new) /\ ldHeap' = ldHeap \cup {<<n + 1, h>> : h \in more}
  <2>1. ldInstances' = Append(ldInstances, [ldCurrent EXCEPT !.handles = @ \cup more])
    BY <1>9 DEF AddInstance
  <2>2. ldHeap' = ldHeap \cup {<<Number(ldInstances), h>> : h \in more}
    BY <1>9 DEF AddInstance
  <2>3. Number(ldInstances) = n + 1
    BY <1>3, <1>4 DEF Number
  <2> QED BY <1>3, <1>6, <1>8, <1>10, <2>1, <2>2, <2>3
<1>12. new \in Instance /\ new.buffers = bs /\ new.handles = hs \cup more
       /\ new.device = cur.device /\ new.predictor = cur.predictor
  BY <1>7, <1>8, <1>10 DEF Instance
<1>13. /\ ldInstances' \in Seq(Instance) /\ Len(ldInstances') = n + 1 /\ DOMAIN ldInstances' = 1 .. n + 1
       /\ ldInstances'[n + 1] = new /\ \A k \in 1 .. n : ldInstances'[k] = made[k]
  BY <1>4, <1>11, <1>12
<1>14. LdTyped'
  BY <1>1, <1>13, NoInstanceIs DEF LdInv, LdTyped
<1>15. Creating'
  <2>1. n + 1 <= Len(slots)
    BY <1>5
  <2>2. ldPc' = IF n + 1 = Len(slots) THEN "ready" ELSE "instance"
    BY <1>1, <1>2, <1>3, <1>4
  <2> QED BY <1>1, <1>2, <1>5, <1>13, <2>1, <2>2 DEF Creating
<1>16. Bound(bs)
  <2> SUFFICES ASSUME ldEngine = "tensorrt", NEW i \in DOMAIN ldPlan.tensors
               PROVE  \E b \in DOMAIN bs : bs[b].tensor = ldPlan.tensors[i]
    BY DEF Bound
  <2>1. PICK b \in DOMAIN bs : bs[b].name = ldPlan.tensors[i].name
    BY <1>6, <1>7 DEF AddInstance, AllBound, BoundNames
  <2>2. BuffersRight(bs)
    BY <1>1, <1>6, <1>7 DEF LdInv, Creating
  <2>3. bs[b].tensor = LdTensors[b] /\ bs[b].name = LdTensors[b].name /\ LdTensors[b] \in ToSet(ldPlan.tensors)
    BY <2>2 DEF BuffersRight
  <2>4. PICK j \in DOMAIN ldPlan.tensors : ldPlan.tensors[j] = bs[b].tensor
    BY <2>3 DEF ToSet
  <2>5. ldPlan.tensors[j].name = ldPlan.tensors[i].name
    BY <2>1, <2>3, <2>4
  <2>6. i = j
    BY <2>5, LdModelsAreTyped DEF LdInv, LdTyped
  <2> QED BY <2>4, <2>6
<1>17. InstancesRight'
  <2> SUFFICES ASSUME NEW k \in 1 .. n + 1
               PROVE  /\ Slotted(k, ldInstances[k])'
                      /\ BuffersRight(ldInstances[k].buffers)' /\ Bound(ldInstances[k].buffers)'
    BY <1>13 DEF InstancesRight
  <2>1. CASE k = n + 1
    <3>1. Slotted(n + 1, cur) /\ BuffersRight(bs)
      BY <1>1, <1>3, <1>4, <1>6, <1>7 DEF LdInv, Creating, Number
    <3>2. BuffersRight(bs)' /\ Bound(bs)'
      BY <1>1, <1>16, <3>1, RightStays
    <3>3. BuffersRight(ldInstances[k].buffers)' /\ Bound(ldInstances[k].buffers)'
      <4>1. ldInstances'[k].buffers = bs
        BY <1>12, <1>13, <2>1
      <4> QED BY <3>2, <4>1 DEF BuffersRight, Bound
    <3>4. Slotted(k, ldInstances[k])'
      BY <1>2, <1>12, <1>13, <2>1, <3>1 DEF Slotted
    <3> QED BY <3>3, <3>4
  <2>2. CASE k \in 1 .. n
    <3>1. ldInstances'[k] = made[k] /\ k \in DOMAIN ldInstances
      BY <1>3, <1>4, <1>13, <2>2
    <3>2. Slotted(k, made[k]) /\ BuffersRight(made[k].buffers) /\ Bound(made[k].buffers)
      BY <1>3, <3>1 DEF LdInv, InstancesRight
    <3>3. PICK cs : cs = made[k].buffers
      OBVIOUS
    <3>4. BuffersRight(cs)' /\ Bound(cs)'
      BY <1>1, <3>2, <3>3, RightStays
    <3>5. BuffersRight(ldInstances[k].buffers)' /\ Bound(ldInstances[k].buffers)'
      BY <3>1, <3>3, <3>4 DEF BuffersRight, Bound
    <3>6. Slotted(k, ldInstances[k])'
      BY <1>2, <3>1, <3>2 DEF Slotted
    <3> QED BY <3>5, <3>6
  <2> QED BY <2>1, <2>2
<1>18. BatchesFit' /\ CopiesFit'
  BY <1>1, CopiesStay DEF LdInv
<1>19. NothingLeaks'
  <2>1. PICK old : old = UNION {Owned(k, made[k]) : k \in 1 .. n}
    OBVIOUS
  <2>2. ldHeap = Owned(n + 1, cur) \cup old
    BY <1>3, <1>4, <1>6, <2>1 DEF LdInv, NothingLeaks, Number
  <2>3. Owned(n + 1, new) = Owned(n + 1, cur) \cup {<<n + 1, h>> : h \in more}
    BY <1>7, <1>8, <1>12 DEF Owned
  <2>4. ldHeap' = Owned(n + 1, new) \cup old
    BY <1>11, <2>2, <2>3
  <2>5. UNION {Owned(k, ldInstances'[k]) : k \in 1 .. n + 1} = Owned(n + 1, new) \cup old
    <3>1. \A k \in 1 .. n : Owned(k, ldInstances'[k]) = Owned(k, made[k])
      BY <1>13
    <3>2. Owned(n + 1, ldInstances'[n + 1]) = Owned(n + 1, new)
      BY <1>13
    <3>3. 1 .. n + 1 = (1 .. n) \cup {n + 1}
      OBVIOUS
    <3> QED BY <2>1, <3>1, <3>2, <3>3
  <2>6. Owned(n + 2, NoInstance) = {}
    BY NoInstanceIs DEF Owned
  <2>7. Number(ldInstances') = n + 2
    BY <1>13 DEF Number
  <2>8. ldHeap' = Owned(Number(ldInstances'), ldCurrent') \cup UNION {Owned(k, ldInstances'[k]) : k \in DOMAIN ldInstances'}
    BY <1>1, <1>13, <2>4, <2>5, <2>6, <2>7
  <2> QED BY <2>8 DEF NothingLeaks, Number, Owned
<1> QED BY <1>14, <1>15, <1>17, <1>18, <1>19 DEF LdInv

\* A buffer of an instance is one of a tensor of the model, and it has the room
\* of a batch unless there are no batches, or its size is forgotten.
LEMMA BuffersHaveRoom ==
  ASSUME LdInv, NEW k \in DOMAIN ldInstances, NEW b \in ToSet(ldInstances[k].buffers)
  PROVE  /\ b \in Buf /\ b.tensor \in LdTensor
         /\ \/ b.size = Room(b.tensor)
            \/ /\ ldEngine = "topsinference"
               /\ \E i, j \in DOMAIN LdTensors : i # j /\ LdTensors[i].input = LdTensors[j].input
<1>1. PICK ts \in Seq(LdTensor) : ts = LdTensors
  BY LdTensorsAre DEF LdInv
<1>2. PICK bs \in Seq(Buf) : bs = ldInstances[k].buffers
  <2>1. ldInstances[k] \in Instance
    BY DEF LdInv, LdTyped
  <2> QED BY <2>1 DEF Instance
<1>3. BuffersRight(bs)
  BY <1>2 DEF LdInv, InstancesRight
<1>4. PICK x \in DOMAIN bs : b = bs[x]
  BY <1>2 DEF ToSet
<1>5. b \in Buf /\ b.tensor \in LdTensor
  <2>1. b \in Buf
    BY <1>2, <1>4
  <2> QED BY <2>1 DEF Buf
<1>6. x \in DOMAIN ts /\ b.tensor = ts[x] /\ (b.size = Room(ts[x]) \/ Forgets(x))
  BY <1>1, <1>3, <1>4 DEF BuffersRight
<1>7. Forgets(x) => /\ ldEngine = "topsinference"
                    /\ \E i, j \in DOMAIN ts : i # j /\ ts[i].input = ts[j].input
  BY <1>1, <1>6 DEF Forgets
<1> QED BY <1>1, <1>5, <1>6, <1>7

LEMMA ProcessKeeps ==
  ASSUME LdInv, NEW k \in DOMAIN ldInstances, NEW n \in 1 .. LdMaxRows, NEW rows \in 0 .. LdMaxRows, Process(k, n, rows)
  PROVE  LdInv'
<1>1. UNCHANGED <<ldPc, ldEngine, ldConfig, ldPlan, ldInstances, ldCurrent, ldHeap>>
  BY DEF Process
<1>2. LdTyped' /\ InstancesRight'
  BY <1>1, InstancesStay DEF LdInv, LdTyped
<1>3. Creating'
  <2>1. UNCHANGED Slots
    BY <1>1, SlotsStay
  <2>2. PICK bs : bs = ldCurrent.buffers /\ bs = ldCurrent'.buffers
    BY <1>1
  <2>3. BuffersRight(bs) => BuffersRight(bs)'
    BY <1>1, RightStays
  <2>4. BuffersRight(ldCurrent.buffers) => BuffersRight(ldCurrent.buffers)'
    BY <2>2, <2>3 DEF BuffersRight
  <2> QED BY <1>1, <2>1, <2>4 DEF LdInv, Creating, Slotted, Number
<1>4. NothingLeaks'
  BY <1>1 DEF LdInv, NothingLeaks, Owned, Number
<1>5. PICK bytes \in [LdTensor -> Nat] : \A t \in LdTensor : bytes[t] = RowBytes(t)
  <2>1. [t \in LdTensor |-> RowBytes(t)] \in [LdTensor -> Nat]
    BY RowBytesAre
  <2> QED BY <2>1
<1>6. PICK one \in Nat : one = AtLeastOne(ldConfig.batch)
  BY AtLeastOneIs, LdModelsAreTyped DEF LdInv, LdTyped
<1>7. n \in Nat /\ n <= one
  <2>1. n \in 1 .. AtLeastOne(ldConfig.batch)
    BY DEF Process
  <2>2. n \in 1 .. one
    BY <1>6, <2>1
  <2> QED BY <2>2
<1>8. ASSUME NEW t \in LdTensor PROVE n * bytes[t] <= Room(t) \/ (ldConfig.batch = 0 /\ ldEngine \notin {"tensorrt", "tvm", "tflite"})
  <2>1. PICK m \in Nat : /\ Room(t) = m * bytes[t]
                         /\ one <= m \/ (ldConfig.batch = 0 /\ ldEngine \notin {"tensorrt", "tvm", "tflite"})
    BY <1>5, <1>6, RoomIs DEF LdInv
  <2>2. PICK r \in Nat : r = bytes[t]
    BY <1>5
  <2>3. CASE one <= m
    <3>1. n <= m
      BY <1>7, <2>3
    <3>2. n * r <= m * r
      BY <1>7, <3>1, TimesMore
    <3> QED BY <2>1, <2>2, <3>2
  <2> QED BY <2>1, <2>3
<1>9. BatchesFit'
  <2> SUFFICES ASSUME ldStatus' \in {"input has no room", "output has no room"}, ~BatchesFit'
               PROVE  FALSE
    BY DEF BatchesFit
  <2>1. ~(ldConfig.batch = 0 /\ ldEngine \notin {"tensorrt", "tvm", "tflite"})
    BY <1>1 DEF BatchesFit
  <2>2. ~(ldEngine = "topsinference" /\ \E i, j \in DOMAIN LdTensors : i # j /\ LdTensors[i].input = LdTensors[j].input)
    BY <1>1 DEF BatchesFit, LdTensors
  <2>3. \A b \in ToSet(ldInstances[k].buffers) : n * RowBytes(b.tensor) <= b.size
    BY <1>5, <1>8, <2>1, <2>2, BuffersHaveRoom
  <2>4. Fits(k, n)
    BY <2>3 DEF Fits, BuffersOf
  <2>5. \A b \in BuffersOf(k, FALSE) : SplitAccepted(b, n)
    BY <2>3 DEF BuffersOf, SplitAccepted
  <2> QED BY <2>4, <2>5 DEF Process
<1>10. CopiesFit'
  <2> SUFFICES ASSUME ldEngine \in {"libtorch", "tensorrt", "tvm"}, NEW c \in ldCopies'
               PROVE  c.bytes <= c.room
    BY <1>1 DEF CopiesFit
  <2>1. \A b \in ToSet(ldInstances[k].buffers) : b.tensor \in LdTensor /\ b.size = Room(b.tensor) /\ Room(b.tensor) \in Nat
    BY BuffersHaveRoom, RoomIs DEF LdInv
  <2>2. ASSUME Fits(k, n), NEW b \in BuffersOf(k, TRUE), c = LdCopy(n * RowBytes(b.tensor), b) PROVE c.bytes <= c.room
    BY <2>1, <2>2 DEF LdCopy, Fits, BuffersOf
  <2>3. ASSUME NEW b \in BuffersOf(k, FALSE), OutputAccepted(b, rows), c = LdCopy(OutputBytes(b, rows), b) PROVE c.bytes <= c.room
    <3>1. b.size = Room(b.tensor) /\ Room(b.tensor) \in Nat
      BY <2>1 DEF BuffersOf
    <3>2. c.room = Room(b.tensor) /\ c.bytes = OutputBytes(b, rows)
      BY <2>3 DEF LdCopy
    <3>3. CASE ldEngine = "libtorch"
      <4>1. OutputBytes(b, rows) = rows * RowBytes(b.tensor)
        BY <3>3 DEF OutputBytes
      <4>2. rows * RowBytes(b.tensor) <= b.size
        BY <2>3, <3>3 DEF OutputAccepted
      <4> QED BY <3>1, <3>2, <4>1, <4>2
    <3>4. CASE ldEngine \in {"tensorrt", "tvm"}
      <4>1. OutputBytes(b, rows) = Room(b.tensor)
        BY <3>4 DEF OutputBytes
      <4> QED BY <3>1, <3>2, <4>1
    <3> QED BY <3>3, <3>4
  <2>4. PICK merged : merged = {LdCopy(n * RowBytes(b.tensor), b) : b \in BuffersOf(k, TRUE)}
    OBVIOUS
  <2>5. PICK computed : computed = {LdCopy(OutputBytes(b, rows), b) : b \in BuffersOf(k, FALSE)}
    OBVIOUS
  <2>6. \/ ldCopies' = {}
        \/ Fits(k, n) /\ ldCopies' = merged
        \/ Fits(k, n) /\ (\A b \in BuffersOf(k, FALSE) : OutputAccepted(b, rows)) /\ ldCopies' = merged \cup computed
    BY <2>4, <2>5 DEF Process
  <2>7. Fits(k, n) /\ c \in merged => c.bytes <= c.room
    BY <2>2, <2>4
  <2>8. (\A b \in BuffersOf(k, FALSE) : OutputAccepted(b, rows)) /\ c \in computed => c.bytes <= c.room
    BY <2>3, <2>5
  <2> QED BY <2>6, <2>7, <2>8
<1> QED BY <1>2, <1>3, <1>4, <1>9, <1>10 DEF LdInv

LEMMA LdStutterKeeps == ASSUME LdInv, UNCHANGED ldvars PROVE LdInv'
<1>1. UNCHANGED <<ldPc, ldEngine, ldConfig, ldPlan, ldInstances, ldCurrent, ldHeap, ldCopies, ldStatus>>
  BY DEF ldvars
<1>2. LdTyped' /\ InstancesRight' /\ BatchesFit' /\ CopiesFit'
  BY <1>1, InstancesStay, CopiesStay DEF LdInv, LdTyped
<1>3. Creating'
  <2>1. UNCHANGED Slots
    BY <1>1, SlotsStay
  <2>2. PICK bs : bs = ldCurrent.buffers /\ bs = ldCurrent'.buffers
    BY <1>1
  <2>3. BuffersRight(bs) => BuffersRight(bs)'
    BY <1>1, RightStays
  <2>4. BuffersRight(ldCurrent.buffers) => BuffersRight(ldCurrent.buffers)'
    BY <2>2, <2>3 DEF BuffersRight
  <2> QED BY <1>1, <2>1, <2>4 DEF LdInv, Creating, Slotted, Number
<1>4. NothingLeaks'
  BY <1>1 DEF LdInv, NothingLeaks, Owned, Number
<1> QED BY <1>2, <1>3, <1>4 DEF LdInv

\* Whatever fails while the instances of a model are created, nothing leaks, and
\* a model that is ready has every instance it should have, with room for every
\* batch (the conditions of the plug-ins in create(), init() and processBatch()).
THEOREM InstancesAreRight == LdSpec => []InstancesHold
<1>1. LdInit => LdInv
  BY LdInitKeeps
<1>2. LdInv /\ [LdNext]_ldvars => LdInv'
  <2> SUFFICES ASSUME LdInv, [LdNext]_ldvars PROVE LdInv'
    OBVIOUS
  <2>1. CASE LdCreate
    BY <2>1, LdCreateKeeps
  <2>2. CASE LoadFile
    BY <2>2, LoadFileKeeps
  <2>3. CASE AddTensor
    BY <2>3, AddTensorKeeps
  <2>4. CASE AddInstance
    BY <2>4, AddInstanceKeeps
  <2>5. CASE LdRefuse \/ LoadFails \/ TensorFails \/ InstanceFails \/ LdUnload
    <3>1. Abandon
      BY <2>5 DEF LdRefuse, LoadFails, TensorFails, InstanceFails, LdUnload
    <3> QED BY <3>1, AbandonKeeps
  <2>6. CASE \E k \in DOMAIN ldInstances, n \in 1 .. LdMaxRows, rows \in 0 .. LdMaxRows : Process(k, n, rows)
    BY <2>6, ProcessKeeps
  <2>7. CASE UNCHANGED ldvars
    BY <2>7, LdStutterKeeps
  <2> QED BY <2>1, <2>2, <2>3, <2>4, <2>5, <2>6, <2>7 DEF LdNext
<1>3. LdInv => InstancesHold
  BY LdInvHolds
<1> QED BY <1>1, <1>2, <1>3, PTL DEF LdSpec

(***************************************************************************)
(* FileTree.  The invariant says who is alone with what it touches, whose  *)
(* destination the static variable is, and how far a walk is: of a copy,   *)
(* what is not there yet is still to do or has no parent there yet, and of *)
(* a deletion, what is still there is what is still to do.                 *)
(***************************************************************************)
\* The path of the parent is shorter by one name.
LEMMA FrontIs ==
  ASSUME NEW p \in FtPath, p # <<>>
  PROVE  Front(p) \in FtPath /\ Len(Front(p)) = Len(p) - 1 /\ Len(p) \in Nat \ {0}
<1>1. p \in Seq(STRING)
  BY DEF FtPath
<1>2. PICK n \in Nat : n = Len(p)
  BY <1>1
<1>3. n # 0
  BY <1>1, <1>2, EmptySeq
<1>4. \A i \in 1 .. n - 1 : p[i] \in STRING
  BY <1>1, <1>2
<1>5. SubSeq(p, 1, n - 1) \in Seq(STRING) /\ Len(SubSeq(p, 1, n - 1)) = n - 1
  BY <1>2, <1>3, <1>4, SubSeqProperties
<1> QED BY <1>2, <1>3, <1>5 DEF Front, FtPath

\* What is directly under a path has that path as its parent.
LEMMA UnderIs ==
  ASSUME NEW tree, DOMAIN tree \subseteq FtPath, NEW path \in FtPath
  PROVE  Under(tree, path) = {p \in DOMAIN tree : p # <<>> /\ Front(p) = path}
<1> SUFFICES ASSUME NEW p \in FtPath
             PROVE  (Len(p) = Len(path) + 1 /\ IsPrefix(path, p)) <=> (p # <<>> /\ Front(p) = path)
  BY DEF Under
<1>1. p \in Seq(STRING) /\ path \in Seq(STRING)
  BY DEF FtPath
<1>2. PICK n \in Nat : n = Len(p)
  BY <1>1
<1>3. PICK k \in Nat : k = Len(path)
  BY <1>1
<1>4. SubSeq(path, 1, k) = path
  BY <1>1, <1>3, SubSeqFull
<1>5. IsPrefix(path, p) <=> k <= n /\ path = SubSeq(p, 1, k)
  BY <1>2, <1>3, <1>4 DEF IsPrefix
<1>6. Front(p) = SubSeq(p, 1, n - 1)
  BY <1>2 DEF Front
<1>7. p # <<>> <=> n # 0
  BY <1>1, <1>2, EmptySeq
<1>8. p # <<>> => Len(Front(p)) = n - 1
  BY <1>2, FrontIs
<1>9. ASSUME n = k + 1, IsPrefix(path, p) PROVE p # <<>> /\ Front(p) = path
  <2>1. n - 1 = k /\ n # 0
    BY <1>9
  <2>2. path = SubSeq(p, 1, k)
    BY <1>5, <1>9
  <2> QED BY <1>6, <1>7, <2>1, <2>2
<1>10. ASSUME p # <<>>, Front(p) = path PROVE n = k + 1 /\ IsPrefix(path, p)
  <2>1. k = n - 1
    BY <1>3, <1>8, <1>10
  <2>2. path = SubSeq(p, 1, k)
    BY <1>6, <1>10, <2>1
  <2> QED BY <1>5, <2>1, <2>2
<1> QED BY <1>2, <1>3, <1>9, <1>10

\* A nonempty set of paths has a shortest one.
LEMMA ShortestIs ==
  ASSUME NEW P \in SUBSET FtPath, P # {}
  PROVE  \E p \in P : p = <<>> \/ Front(p) \notin P
<1>1. \A p \in P : Len(p) \in Nat
  BY DEF FtPath
<1>2. PICK L : L = {Len(p) : p \in P}
  OBVIOUS
<1>3. L \in SUBSET Nat /\ L # {}
  BY <1>1, <1>2
<1>4. PICK n \in L : \A m \in L : n <= m
  BY <1>3, LeastNumber
<1>5. PICK p \in P : n = Len(p)
  BY <1>2, <1>4
<1>6. ASSUME p # <<>>, Front(p) \in P PROVE FALSE
  <2>1. Len(Front(p)) = Len(p) - 1 /\ Len(p) \in Nat
    BY <1>6, FrontIs
  <2>2. Len(Front(p)) \in L
    BY <1>2, <1>6
  <2>3. Len(p) <= Len(Front(p))
    BY <1>4, <1>5, <2>2
  <2> QED BY <2>1, <2>3
<1> QED BY <1>6

\* What is a tree has its root.
LEMMA RootIsThere == ASSUME NEW tree, FtTree(tree), DOMAIN tree # {} PROVE <<>> \in DOMAIN tree
<1>1. PICK p \in DOMAIN tree : p = <<>> \/ Front(p) \notin DOMAIN tree
  BY ShortestIs DEF FtTree
<1> QED BY <1>1 DEF FtTree

\* A function that is defined nowhere is the empty one.
LEMMA EmptyIs == ASSUME NEW f, f = [x \in DOMAIN f |-> f[x]] PROVE f = << >> <=> DOMAIN f = {}
<1>1. DOMAIN << >> = {}
  OBVIOUS
<1>2. << >> = [x \in {} |-> f[x]]
  OBVIOUS
<1> QED BY <1>1, <1>2

LEMMA MoreIs ==
  ASSUME NEW tree, FtTree(tree), NEW path \in FtPath, NEW data,
         \/ path \notin DOMAIN tree /\ (path = <<>> => data = "dir")
         \/ path \in DOMAIN tree /\ ~IsFolder(tree, path),
         path # <<>> /\ path \notin DOMAIN tree => IsFolder(tree, Front(path))
  PROVE  FtTree(More(tree, path, data))
<1>1. PICK t : t = More(tree, path, data)
  OBVIOUS
<1>2. DOMAIN t = DOMAIN tree \cup {path} /\ t[path] = data /\ \A p \in DOMAIN tree \ {path} : t[p] = tree[p]
  BY <1>1 DEF More
<1>3. ASSUME NEW p \in DOMAIN t
      PROVE  IF p = <<>> THEN t[p] = "dir" ELSE Front(p) \in DOMAIN t /\ t[Front(p)] = "dir"
  <2>1. CASE p = <<>>
    BY <1>2, <2>1 DEF FtTree, IsFolder
  <2>2. CASE p # <<>>
    <3>1. Front(p) \in DOMAIN tree /\ tree[Front(p)] = "dir"
      BY <1>2, <2>2 DEF FtTree, IsFolder
    <3>2. Front(p) # path
      BY <3>1 DEF IsFolder
    <3> QED BY <1>2, <2>2, <3>1, <3>2
  <2> QED BY <2>1, <2>2
<1> QED BY <1>1, <1>2, <1>3 DEF FtTree

LEMMA LessIs ==
  ASSUME NEW tree, FtTree(tree), NEW path \in FtPath, Under(tree, path) = {}
  PROVE  FtTree(Less(tree, {path}))
<1>1. PICK t : t = Less(tree, {path})
  OBVIOUS
<1>2. DOMAIN t = DOMAIN tree \ {path} /\ \A p \in DOMAIN t : t[p] = tree[p]
  BY <1>1 DEF Less
<1>3. \A p \in DOMAIN tree : p # <<>> => Front(p) # path
  BY UnderIs DEF FtTree
<1> QED BY <1>1, <1>2, <1>3 DEF FtTree
-----------------------------------------------------------------------------
FtRoots == DOMAIN FtSources \cup FtVersions
IsMap(f) == f = [x \in DOMAIN f |-> f[x]]
Copying(w) == Active(w) /\ ftJob[w].op = "copy"

JobIs(job) ==
  /\ job = [at |-> job.at, op |-> job.op, from |-> job.from, to |-> job.to, todo |-> job.todo, wanted |-> job.wanted]
  /\ job.at \in {"idle", "chosen", "dst", "walk", "clear", "done"}
  /\ job.at = "chosen" => job.from \in DOMAIN FtSources /\ job.to \in FtVersions
  /\ job.at \in {"dst", "walk", "clear"} =>
       /\ job.to \in FtVersions
       /\ \/ job.op = "copy" /\ job.from \in DOMAIN FtSources
          \/ job.op = "delete" /\ job.at = "walk" /\ job.from = NoRoot

FtTyped ==
  /\ DOMAIN ftTree = FtRoots /\ \A r \in FtRoots : FtTree(ftTree[r]) /\ IsMap(ftTree[r])
  /\ DOMAIN ftJob = FtUsers /\ \A u \in FtUsers : JobIs(ftJob[u])

\* Who is not disturbed is alone with what it touches, and a copy with the roots.
Apart == \A u \in FtUsers \ ftDisturbed : \A v \in FtUsers \ {u} :
           Active(u) /\ Active(v) => ~Spoils(ftJob[u], ftJob[v])

\* A destination is one of a copy that goes on.
DstIsHeld == ftDstRoot # NoRoot => \E w \in FtUsers : Copying(w) /\ ftJob[w].at # "dst" /\ ftJob[w].to = ftDstRoot

\* How far a copy is: what is not there yet is still to do, or its parent is
\* not there either.
Copied(tree, wanted, todo) ==
  /\ todo \subseteq DOMAIN wanted /\ todo \cap DOMAIN tree = {}
  /\ DOMAIN tree \subseteq DOMAIN wanted /\ \A p \in DOMAIN tree : tree[p] = wanted[p]
  /\ \A p \in todo : p # <<>> => Front(p) \in DOMAIN tree
  /\ \A p \in DOMAIN wanted \ DOMAIN tree : p \in todo \/ (p # <<>> /\ Front(p) \notin DOMAIN tree)

RootsRight(job) ==
  /\ job.at \in {"dst", "walk"} => ftSrcRoot = job.from
  /\ job.at = "walk" => ftDstRoot = job.to
TreesRight(job) ==
  /\ ftTree[job.from] = job.wanted /\ job.from # job.to
  /\ job.at = "dst" => ftTree[job.to] = << >>
  /\ job.at = "walk" => Copied(ftTree[job.to], job.wanted, job.todo)
  /\ job.at = "clear" => ftTree[job.to] = job.wanted
JobRight(job) ==
  /\ job.op = "copy" => RootsRight(job) /\ (job.wanted # << >> => TreesRight(job))
  /\ job.op = "delete" => job.todo = DOMAIN ftTree[job.to]

JobsAreRight == \A u \in FtUsers \ ftDisturbed : Active(u) => JobRight(ftJob[u])

FtInv == FtTyped /\ Apart /\ DstIsHeld /\ JobsAreRight

\* What WalksAreExact says of one user.
Exact(u) == Active(u) /\ ftJob'[u].at = "done" =>
  CASE ftJob[u].op = "copy" -> ftJob[u].wanted # << >> => /\ ftTree'[ftJob[u].to] = ftJob[u].wanted
                                                        /\ ftTree'[ftJob[u].from] = ftJob[u].wanted
    [] ftJob[u].op = "delete" -> ftTree'[ftJob[u].to] = << >>
StepIsExact == \A u \in FtUsers \ ftDisturbed : Exact(u)

LEMMA ActiveIs ==
  ASSUME FtTyped, NEW u \in FtUsers
  PROVE  /\ Active(u) <=> ftJob[u].at \in {"dst", "walk", "clear"}
         /\ Active(u) => /\ ftJob[u].to \in FtVersions
                         /\ \/ ftJob[u].op = "copy" /\ ftJob[u].from \in DOMAIN FtSources
                            \/ ftJob[u].op = "delete" /\ ftJob[u].at = "walk" /\ ftJob[u].from = NoRoot
BY DEF FtTyped, JobIs, Active

LEMMA FtInitInv == FtInit => FtInv
<1> SUFFICES ASSUME FtInit PROVE FtInv
  OBVIOUS
<1>1. FtTyped
  <2>1. DOMAIN ftTree = FtRoots /\ DOMAIN ftJob = FtUsers
    BY DEF FtInit, FtRoots
  <2>2. ASSUME NEW r \in FtRoots PROVE FtTree(ftTree[r]) /\ IsMap(ftTree[r])
    <3>1. CASE r \in DOMAIN FtSources
      <4>1. ftTree[r] = FtSources[r]
        BY <3>1, <2>2 DEF FtInit, FtRoots
      <4> QED BY <3>1, <4>1, FtSourcesAreTrees DEF IsMap
    <3>2. CASE r \notin DOMAIN FtSources
      <4>1. ftTree[r] = << >>
        BY <3>2, <2>2 DEF FtInit, FtRoots
      <4>2. << >> = [x \in {} |-> x] /\ DOMAIN << >> = {}
        OBVIOUS
      <4> QED BY <4>1, <4>2 DEF FtTree, IsMap
    <3> QED BY <3>1, <3>2
  <2>3. ASSUME NEW u \in FtUsers PROVE JobIs(ftJob[u])
    BY <2>3 DEF FtInit, Idle, JobIs
  <2> QED BY <2>1, <2>2, <2>3 DEF FtTyped
<1>2. \A u \in FtUsers : ~Active(u)
  BY DEF FtInit, Active, Idle
<1>3. DstIsHeld
  BY DEF FtInit, DstIsHeld
<1> QED BY <1>1, <1>2, <1>3 DEF FtInv, Apart, JobsAreRight

\* A copy that is not disturbed is the only one.
LEMMA CopyIsAlone ==
  ASSUME FtInv, NEW u \in FtUsers \ ftDisturbed, Copying(u), NEW v \in FtUsers \ {u}
  PROVE  ~Copying(v)
BY DEF FtInv, Apart, Copying, Spoils

\* What the steps of one user leave alone.
LEMMA JobsStay ==
  ASSUME FtTyped, NEW u \in FtUsers, NEW job, JobIs(job), ftJob' = [ftJob EXCEPT ![u] = job]
  PROVE  /\ DOMAIN ftJob' = FtUsers /\ ftJob'[u] = job
         /\ \A v \in FtUsers \ {u} : ftJob'[v] = ftJob[v] /\ (Active(v)' <=> Active(v)) /\ (Copying(v)' <=> Copying(v))
         /\ \A v \in FtUsers : JobIs(ftJob'[v])
BY DEF FtTyped, Active, Copying

LEMMA ContinueKeepsApart ==
  ASSUME FtInv, NEW u \in FtUsers, NEW job, JobIs(job), Continue(u, job),
         \/ job.at \in {"idle", "chosen", "done"}
         \/ Active(u) /\ job.op = ftJob[u].op /\ job.from = ftJob[u].from /\ job.to = ftJob[u].to
  PROVE  Apart'
<1>1. ftJob' = [ftJob EXCEPT ![u] = job] /\ ftDisturbed' = ftDisturbed
  BY DEF Continue
<1>2. /\ ftJob'[u] = job
      /\ \A v \in FtUsers \ {u} : ftJob'[v] = ftJob[v] /\ (Active(v)' <=> Active(v))
  BY <1>1, JobsStay DEF FtInv
<1>3. CASE job.at \in {"idle", "chosen", "done"}
  <2>1. ~Active(u)'
    BY <1>2, <1>3 DEF Active
  <2> QED BY <1>1, <1>2, <2>1 DEF FtInv, Apart
<1>4. CASE Active(u) /\ job.op = ftJob[u].op /\ job.from = ftJob[u].from /\ job.to = ftJob[u].to
  <2>1. \A v \in FtUsers \ {u} : /\ Spoils(ftJob'[u], ftJob'[v]) <=> Spoils(ftJob[u], ftJob[v])
                                 /\ Spoils(ftJob'[v], ftJob'[u]) <=> Spoils(ftJob[v], ftJob[u])
    BY <1>2, <1>4 DEF Spoils, Touched
  <2> SUFFICES ASSUME NEW x \in FtUsers \ ftDisturbed, NEW y \in FtUsers \ {x}, Active(x)', Active(y)'
               PROVE  ~Spoils(ftJob'[x], ftJob'[y])
    BY <1>1 DEF Apart
  <2>2. Active(x) /\ Active(y)
    BY <1>2, <1>4
  <2>3. ~Spoils(ftJob[x], ftJob[y])
    BY <2>2 DEF FtInv, Apart
  <2> QED BY <1>2, <2>1, <2>3
<1> QED BY <1>3, <1>4

LEMMA EnterSpares ==
  ASSUME FtInv, NEW u \in FtUsers, NEW job, JobIs(job), Enter(u, job)
  PROVE  /\ Apart'
         /\ \A v \in FtUsers \ {u} : v \notin ftDisturbed' => v \notin ftDisturbed /\ (Active(v) => ~Spoils(job, ftJob[v]))
         /\ u \notin ftDisturbed' => \A v \in FtUsers \ {u} : Active(v) => ~Spoils(job, ftJob[v])
<1>1. PICK others : others = {v \in FtUsers \ {u} : Active(v) /\ Spoils(job, ftJob[v])}
  OBVIOUS
<1>2. /\ ftJob' = [ftJob EXCEPT ![u] = job]
      /\ ftDisturbed' = IF others = {} THEN ftDisturbed \ {u} ELSE ftDisturbed \cup others \cup {u}
  BY <1>1 DEF Enter
<1>3. /\ ftJob'[u] = job
      /\ \A v \in FtUsers \ {u} : ftJob'[v] = ftJob[v] /\ (Active(v)' <=> Active(v))
  BY <1>2, JobsStay DEF FtInv
<1>4. \A v \in FtUsers \ {u} : v \notin ftDisturbed' => v \notin ftDisturbed /\ (Active(v) => ~Spoils(job, ftJob[v]))
  BY <1>1, <1>2
<1>5. u \notin ftDisturbed' => \A v \in FtUsers \ {u} : Active(v) => ~Spoils(job, ftJob[v])
  BY <1>1, <1>2
<1>6. \A a, b : Spoils(a, b) <=> Spoils(b, a)
  BY DEF Spoils
<1>7. Apart'
  <2> SUFFICES ASSUME NEW x \in FtUsers \ ftDisturbed', NEW y \in FtUsers \ {x}, Active(x)', Active(y)'
               PROVE  ~Spoils(ftJob'[x], ftJob'[y])
    BY DEF Apart
  <2>1. CASE x = u
    BY <1>3, <1>5, <2>1
  <2>2. CASE y = u
    <3>1. ~Spoils(job, ftJob[x])
      BY <1>3, <1>4, <2>2
    <3> QED BY <1>3, <1>6, <2>2, <3>1
  <2>3. CASE x # u /\ y # u
    BY <1>3, <1>4, <2>3 DEF FtInv, Apart
  <2> QED BY <2>1, <2>2, <2>3
<1> QED BY <1>4, <1>5, <1>7

\* A job stays right if its user, its trees and, for a copy, the roots stay.
LEMMA RightJobStays ==
  ASSUME NEW job, JobRight(job), ftTree'[job.to] = ftTree[job.to],
         job.op = "copy" => ftTree'[job.from] = ftTree[job.from] /\ UNCHANGED <<ftSrcRoot, ftDstRoot>>
  PROVE  JobRight(job)'
<1>1. CASE job.op = "copy"
  <2>1. RootsRight(job)'
    BY <1>1 DEF JobRight, RootsRight
  <2>2. job.wanted # << >> => TreesRight(job)'
    BY <1>1 DEF JobRight, TreesRight, Copied
  <2> QED BY <1>1, <2>1, <2>2 DEF JobRight
<1>2. CASE job.op # "copy"
  BY <1>2 DEF JobRight
<1> QED BY <1>1, <1>2

\* Only the user whose step it is ends a walk.
LEMMA OthersGoOn ==
  ASSUME NEW u \in FtUsers, \A v \in FtUsers \ {u} : ftJob'[v] = ftJob[v], u \notin ftDisturbed => Exact(u)
  PROVE  StepIsExact
<1> SUFFICES ASSUME NEW v \in FtUsers \ ftDisturbed, v # u PROVE Exact(v)
  BY DEF StepIsExact
<1>1. ~(Active(v) /\ ftJob'[v].at = "done")
  BY DEF Active
<1> QED BY <1>1 DEF Exact
LEMMA JobsStayRight ==
  ASSUME FtInv, NEW u \in FtUsers,
         u \notin ftDisturbed' /\ Active(u)' => JobRight(ftJob[u])',
         \A v \in FtUsers \ {u} : ftJob'[v] = ftJob[v] /\ (Active(v)' <=> Active(v)),
         \A v \in FtUsers \ {u} : v \notin ftDisturbed' /\ Active(v) =>
            /\ v \notin ftDisturbed /\ ftTree'[ftJob[v].to] = ftTree[ftJob[v].to]
            /\ ftJob[v].op = "copy" => ftTree'[ftJob[v].from] = ftTree[ftJob[v].from] /\ UNCHANGED <<ftSrcRoot, ftDstRoot>>
  PROVE  JobsAreRight'
<1> SUFFICES ASSUME NEW v \in FtUsers, v \notin ftDisturbed', Active(v)', v # u
             PROVE  JobRight(ftJob[v])'
  BY DEF JobsAreRight
<1>1. PICK job : job = ftJob[v] /\ job = ftJob'[v]
  OBVIOUS
<1>2. JobRight(job)
  BY <1>1 DEF FtInv, JobsAreRight
<1>3. JobRight(job)'
  BY <1>1, <1>2, RightJobStays
<1> QED BY <1>1, <1>3 DEF JobRight, RootsRight, TreesRight

LEMMA DstStaysHeld ==
  ASSUME FtInv, NEW u \in FtUsers,
         \A v \in FtUsers \ {u} : ftJob'[v] = ftJob[v] /\ (Copying(v)' <=> Copying(v)),
         \/ ftDstRoot' = NoRoot
         \/ ftDstRoot' = ftJob'[u].to /\ Copying(u)' /\ ftJob'[u].at # "dst"
         \/ /\ ftDstRoot' = ftDstRoot
            /\ Copying(u) /\ ftJob[u].at # "dst" => Copying(u)' /\ ftJob'[u].at # "dst" /\ ftJob'[u].to = ftJob[u].to
  PROVE  DstIsHeld'
<1>1. CASE ftDstRoot' = NoRoot
  BY <1>1 DEF DstIsHeld
<1>2. CASE ftDstRoot' = ftJob'[u].to /\ Copying(u)' /\ ftJob'[u].at # "dst"
  BY <1>2 DEF DstIsHeld
<1>3. CASE ftDstRoot' = ftDstRoot /\ ftDstRoot # NoRoot
           /\ (Copying(u) /\ ftJob[u].at # "dst" => Copying(u)' /\ ftJob'[u].at # "dst" /\ ftJob'[u].to = ftJob[u].to)
  <2>1. PICK w \in FtUsers : Copying(w) /\ ftJob[w].at # "dst" /\ ftJob[w].to = ftDstRoot
    BY <1>3 DEF FtInv, DstIsHeld
  <2>2. Copying(w)' /\ ftJob'[w].at # "dst" /\ ftJob'[w].to = ftDstRoot'
    BY <1>3, <2>1
  <2> QED BY <2>2 DEF DstIsHeld
<1> QED BY <1>1, <1>2, <1>3

\* A step in which a user becomes or stays inactive and nothing else changes.
LEMMA IdleStepKeeps ==
  ASSUME FtInv, NEW u \in FtUsers, ~Active(u), NEW job, JobIs(job), job.at \in {"idle", "chosen", "done"},
         Continue(u, job), UNCHANGED <<ftTree, ftSrcRoot, ftDstRoot>>
  PROVE  FtInv' /\ StepIsExact
<1>1. ftJob' = [ftJob EXCEPT ![u] = job] /\ ftDisturbed' = ftDisturbed
  BY DEF Continue
<1>2. /\ DOMAIN ftJob' = FtUsers /\ ftJob'[u] = job
      /\ \A v \in FtUsers \ {u} : ftJob'[v] = ftJob[v] /\ (Active(v)' <=> Active(v)) /\ (Copying(v)' <=> Copying(v))
      /\ \A v \in FtUsers : JobIs(ftJob'[v])
  BY <1>1, JobsStay DEF FtInv
<1>3. FtTyped'
  BY <1>2 DEF FtInv, FtTyped
<1>4. Apart'
  BY ContinueKeepsApart
<1>5. ~Active(u)'
  BY <1>2 DEF Active
<1>6. JobsAreRight'
  BY <1>1, <1>2, <1>5, JobsStayRight
<1>7. DstIsHeld'
  <2>1. ~Copying(u)
    BY DEF Copying
  <2> QED BY <1>2, <2>1, DstStaysHeld
<1>20. StepIsExact
  BY <1>2, OthersGoOn DEF Exact
<1> QED BY <1>20, <1>3, <1>4, <1>6, <1>7 DEF FtInv

LEMMA IdleIs == JobIs(Idle) /\ Idle.at = "idle"
BY DEF Idle, JobIs

LEMMA ChooseTargetKeeps == ASSUME FtInv, NEW u \in FtUsers, NEW from \in DOMAIN FtSources, ChooseTarget(u, from) PROVE FtInv' /\ StepIsExact
<1>1. PICK to \in FtVersions : to = NextVersion
  BY DEF ChooseTarget
<1>2. PICK job : job = [at |-> "chosen", op |-> "none", from |-> from, to |-> to, todo |-> {}, wanted |-> << >>]
  OBVIOUS
<1>3. job = [Idle EXCEPT !.at = "chosen", !.from = from, !.to = NextVersion]
  <2>1. PICK job1 : job1 = [Idle EXCEPT !.at = "chosen"]
    OBVIOUS
  <2>2. job1 = [at |-> "chosen", op |-> "none", from |-> NoRoot, to |-> NoRoot, todo |-> {}, wanted |-> << >>]
    BY <2>1 DEF Idle
  <2>3. PICK job2 : job2 = [job1 EXCEPT !.from = from]
    OBVIOUS
  <2>4. job2 = [at |-> "chosen", op |-> "none", from |-> from, to |-> NoRoot, todo |-> {}, wanted |-> << >>]
    BY <2>3, <2>2
  <2>5. PICK job3 : job3 = [job2 EXCEPT !.to = to]
    OBVIOUS
  <2>6. job3 = [at |-> "chosen", op |-> "none", from |-> from, to |-> to, todo |-> {}, wanted |-> << >>]
    BY <2>5, <2>4
  <2>7. [Idle EXCEPT !.at = "chosen", !.from = from, !.to = to]
        = [[[Idle EXCEPT !.at = "chosen"] EXCEPT !.from = from] EXCEPT !.to = to]
    OBVIOUS
  <2> QED BY <2>1, <2>3, <2>5, <2>6, <2>7, <1>1, <1>2
<1>4. JobIs(job) /\ job.at = "chosen"
  BY <1>2 DEF JobIs
<1>5. ~Active(u) /\ Continue(u, job) /\ UNCHANGED <<ftTree, ftSrcRoot, ftDstRoot>>
  BY <1>3 DEF ChooseTarget, Active
<1> QED BY <1>4, <1>5, IdleStepKeeps

LEMMA CopyNothingKeeps == ASSUME FtInv, NEW u \in FtUsers, CopyNothing(u) PROVE FtInv' /\ StepIsExact
<1>1. ~Active(u) /\ Continue(u, Idle) /\ UNCHANGED <<ftTree, ftSrcRoot, ftDstRoot>>
  BY DEF CopyNothing, Active
<1> QED BY <1>1, IdleIs, IdleStepKeeps

LEMMA CopyDirKeeps == ASSUME FtInv, NEW u \in FtUsers, CopyDir(u) PROVE FtInv' /\ StepIsExact
<1>1. PICK old : old = ftJob[u]
  OBVIOUS
<1>2. JobIs(old) /\ old.at = "chosen" /\ old.from \in DOMAIN FtSources /\ old.to \in FtVersions
  BY <1>1 DEF FtInv, FtTyped, JobIs, CopyDir
<1>3. PICK wanted : wanted = IF Here(old.to) THEN << >> ELSE ftTree[old.from]
  OBVIOUS
<1>4. PICK job : job = [at |-> "dst", op |-> "copy", from |-> old.from, to |-> old.to, todo |-> old.todo, wanted |-> wanted]
  OBVIOUS
<1>5. job = [old EXCEPT !.at = "dst", !.op = "copy", !.wanted = wanted]
  <2>1. PICK job1 : job1 = [old EXCEPT !.at = "dst"]
    OBVIOUS
  <2>2. job1 = [at |-> "dst", op |-> old.op, from |-> old.from, to |-> old.to, todo |-> old.todo, wanted |-> old.wanted]
    BY <2>1, <1>2 DEF JobIs
  <2>3. PICK job2 : job2 = [job1 EXCEPT !.op = "copy"]
    OBVIOUS
  <2>4. job2 = [at |-> "dst", op |-> "copy", from |-> old.from, to |-> old.to, todo |-> old.todo, wanted |-> old.wanted]
    BY <2>3, <2>2
  <2>5. PICK job3 : job3 = [job2 EXCEPT !.wanted = wanted]
    OBVIOUS
  <2>6. job3 = [at |-> "dst", op |-> "copy", from |-> old.from, to |-> old.to, todo |-> old.todo, wanted |-> wanted]
    BY <2>5, <2>4
  <2>7. [old EXCEPT !.at = "dst", !.op = "copy", !.wanted = wanted]
        = [[[old EXCEPT !.at = "dst"] EXCEPT !.op = "copy"] EXCEPT !.wanted = wanted]
    OBVIOUS
  <2> QED BY <2>1, <2>3, <2>5, <2>6, <2>7, <1>4
<1>6. JobIs(job)
  BY <1>2, <1>4 DEF JobIs
<1>7. Enter(u, job) /\ ftSrcRoot' = job.from /\ UNCHANGED <<ftTree, ftDstRoot>> /\ Here(job.from)
  BY <1>1, <1>3, <1>4, <1>5 DEF CopyDir
<1>8. ftJob' = [ftJob EXCEPT ![u] = job]
  BY <1>7 DEF Enter
<1>9. /\ DOMAIN ftJob' = FtUsers /\ ftJob'[u] = job
      /\ \A v \in FtUsers \ {u} : ftJob'[v] = ftJob[v] /\ (Active(v)' <=> Active(v)) /\ (Copying(v)' <=> Copying(v))
      /\ \A v \in FtUsers : JobIs(ftJob'[v])
  BY <1>6, <1>8, JobsStay DEF FtInv
<1>10. /\ Apart'
       /\ \A v \in FtUsers \ {u} : v \notin ftDisturbed' => v \notin ftDisturbed /\ (Active(v) => ~Spoils(job, ftJob[v]))
  BY <1>6, <1>7, EnterSpares
<1>11. FtTyped'
  BY <1>7, <1>9 DEF FtInv, FtTyped
<1>12. JobRight(job)'
  <2>1. RootsRight(job)'
    BY <1>4, <1>7 DEF RootsRight
  <2>2. job.wanted # << >> => TreesRight(job)'
    BY <1>3, <1>4, <1>7 DEF TreesRight, Here
  <2> QED BY <1>4, <2>1, <2>2 DEF JobRight
<1>13. JobsAreRight'
  <2>1. JobRight(ftJob[u])'
    BY <1>9, <1>12 DEF JobRight, RootsRight, TreesRight
  <2>2. \A v \in FtUsers \ {u} : v \notin ftDisturbed' /\ Active(v) => v \notin ftDisturbed /\ ftJob[v].op # "copy"
    BY <1>4, <1>10 DEF Spoils
  <2> QED BY <1>7, <1>9, <2>1, <2>2, JobsStayRight
<1>14. DstIsHeld'
  <2>1. ~Copying(u)
    BY <1>1, <1>2 DEF Copying, Active
  <2> QED BY <1>7, <1>9, <2>1, DstStaysHeld
<1>20. StepIsExact
  <2>1. ~Active(u)
    BY <1>1, <1>2 DEF Active
  <2> QED BY <1>9, <2>1, OthersGoOn DEF Exact
<1> QED BY <1>20, <1>10, <1>11, <1>13, <1>14 DEF FtInv

LEMMA DeleteDirKeeps == ASSUME FtInv, NEW u \in FtUsers, NEW root \in FtVersions, DeleteDir(u, root) PROVE FtInv' /\ StepIsExact
<1>1. PICK job : job = [at |-> "walk", op |-> "delete", from |-> NoRoot, to |-> root, todo |-> DOMAIN ftTree[root], wanted |-> << >>]
  OBVIOUS
<1>2. job = [Idle EXCEPT !.at = "walk", !.op = "delete", !.to = root, !.todo = DOMAIN ftTree[root]]
  <2>1. PICK job1 : job1 = [Idle EXCEPT !.at = "walk"]
    OBVIOUS
  <2>2. job1 = [at |-> "walk", op |-> "none", from |-> NoRoot, to |-> NoRoot, todo |-> {}, wanted |-> << >>]
    BY <2>1 DEF Idle
  <2>3. PICK job2 : job2 = [job1 EXCEPT !.op = "delete"]
    OBVIOUS
  <2>4. job2 = [at |-> "walk", op |-> "delete", from |-> NoRoot, to |-> NoRoot, todo |-> {}, wanted |-> << >>]
    BY <2>3, <2>2
  <2>5. PICK job3 : job3 = [job2 EXCEPT !.to = root]
    OBVIOUS
  <2>6. job3 = [at |-> "walk", op |-> "delete", from |-> NoRoot, to |-> root, todo |-> {}, wanted |-> << >>]
    BY <2>5, <2>4
  <2>7. PICK job4 : job4 = [job3 EXCEPT !.todo = DOMAIN ftTree[root]]
    OBVIOUS
  <2>8. job4 = [at |-> "walk", op |-> "delete", from |-> NoRoot, to |-> root, todo |-> DOMAIN ftTree[root], wanted |-> << >>]
    BY <2>7, <2>6
  <2>9. [Idle EXCEPT !.at = "walk", !.op = "delete", !.to = root, !.todo = DOMAIN ftTree[root]]
        = [[[[Idle EXCEPT !.at = "walk"] EXCEPT !.op = "delete"] EXCEPT !.to = root] EXCEPT !.todo = DOMAIN ftTree[root]]
    OBVIOUS
  <2> QED BY <2>1, <2>3, <2>5, <2>7, <2>8, <2>9, <1>1
<1>3. JobIs(job)
  BY <1>1 DEF JobIs
<1>4. Enter(u, job) /\ UNCHANGED <<ftTree, ftSrcRoot, ftDstRoot>> /\ ~Active(u)
  BY <1>2 DEF DeleteDir, Active
<1>5. ftJob' = [ftJob EXCEPT ![u] = job]
  BY <1>4 DEF Enter
<1>6. /\ DOMAIN ftJob' = FtUsers /\ ftJob'[u] = job
      /\ \A v \in FtUsers \ {u} : ftJob'[v] = ftJob[v] /\ (Active(v)' <=> Active(v)) /\ (Copying(v)' <=> Copying(v))
      /\ \A v \in FtUsers : JobIs(ftJob'[v])
  BY <1>3, <1>5, JobsStay DEF FtInv
<1>7. /\ Apart'
      /\ \A v \in FtUsers \ {u} : v \notin ftDisturbed' => v \notin ftDisturbed
  BY <1>3, <1>4, EnterSpares
<1>8. FtTyped'
  BY <1>4, <1>6 DEF FtInv, FtTyped
<1>9. JobsAreRight'
  <2>1. JobRight(ftJob[u])'
    BY <1>1, <1>4, <1>6 DEF JobRight
  <2> QED BY <1>4, <1>6, <1>7, <2>1, JobsStayRight
<1>10. DstIsHeld'
  <2>1. ~Copying(u)
    BY <1>4 DEF Copying
  <2> QED BY <1>4, <1>6, <2>1, DstStaysHeld
<1>20. StepIsExact
  BY <1>4, <1>6, OthersGoOn DEF Exact
<1> QED BY <1>20, <1>7, <1>8, <1>9, <1>10 DEF FtInv

\* What the walk of an undisturbed copy has done when nothing is left to do.
LEMMA CopiedIsDone ==
  ASSUME NEW tree, NEW wanted, FtTree(wanted), IsMap(tree), IsMap(wanted), Copied(tree, wanted, {})
  PROVE  tree = wanted
<1>1. PICK P : P = DOMAIN wanted \ DOMAIN tree
  OBVIOUS
<1>2. ASSUME P # {} PROVE FALSE
  <2>1. P \in SUBSET FtPath
    BY <1>1 DEF FtTree
  <2>2. PICK p \in P : p = <<>> \/ Front(p) \notin P
    BY <1>2, <2>1, ShortestIs
  <2>3. p # <<>> /\ Front(p) \notin DOMAIN tree
    BY <1>1 DEF Copied
  <2>4. Front(p) \in DOMAIN wanted
    BY <1>1, <2>3 DEF FtTree
  <2> QED BY <1>1, <2>2, <2>3, <2>4
<1>3. DOMAIN tree = DOMAIN wanted
  BY <1>1, <1>2 DEF Copied
<1>4. \A p \in DOMAIN wanted : tree[p] = wanted[p]
  BY <1>3 DEF Copied
<1> QED BY <1>3, <1>4 DEF IsMap

\* One entry more.
LEMMA CopiedGrows ==
  ASSUME NEW tree, NEW wanted, NEW todo, FtTree(tree), FtTree(wanted), Copied(tree, wanted, todo), NEW path \in todo
  PROVE  Copied(More(tree, path, wanted[path]), wanted,
                (todo \ {path}) \cup IF IsFolder(wanted, path) THEN Under(wanted, path) ELSE {})
<1>1. PICK t : t = More(tree, path, wanted[path])
  OBVIOUS
<1>2. DOMAIN t = DOMAIN tree \cup {path} /\ t[path] = wanted[path] /\ \A p \in DOMAIN tree \ {path} : t[p] = tree[p]
  BY <1>1 DEF More
<1>3. path \in DOMAIN wanted /\ path \in FtPath /\ path \notin DOMAIN tree
  BY DEF Copied, FtTree
<1>4. PICK under : under = IF IsFolder(wanted, path) THEN Under(wanted, path) ELSE {}
  OBVIOUS
<1>5. Under(wanted, path) = {p \in DOMAIN wanted : p # <<>> /\ Front(p) = path}
  BY <1>3, UnderIs DEF FtTree
<1>6. \A p \in under : p \in DOMAIN wanted /\ p # <<>> /\ Front(p) = path
  BY <1>4, <1>5
<1>7. \A p \in DOMAIN wanted : p # <<>> /\ Front(p) = path => p \in under
  BY <1>4, <1>5 DEF FtTree, IsFolder
<1>8. PICK next : next = (todo \ {path}) \cup under
  OBVIOUS
<1>9. next \subseteq DOMAIN wanted
  BY <1>6, <1>8 DEF Copied
<1>10. ASSUME NEW p \in next, p \in DOMAIN t PROVE FALSE
  <2>1. CASE p \in todo \ {path}
    BY <1>2, <1>10, <2>1 DEF Copied
  <2>2. CASE p \in under
    <3>1. p # path
      <4>1. p \in FtPath /\ p # <<>> /\ Front(p) = path
        BY <1>6, <2>2 DEF FtTree
      <4>2. Len(path) = Len(p) - 1 /\ Len(p) \in Nat
        BY <4>1, FrontIs
      <4> QED BY <4>2
    <3>2. p \in DOMAIN tree
      BY <1>2, <1>10, <3>1
    <3>3. path \in DOMAIN tree
      BY <1>6, <2>2, <3>2 DEF FtTree
    <3> QED BY <1>3, <3>3
  <2> QED BY <1>8, <2>1, <2>2
<1>11. DOMAIN t \subseteq DOMAIN wanted /\ \A p \in DOMAIN t : t[p] = wanted[p]
  BY <1>2, <1>3 DEF Copied
<1>12. \A p \in next : p # <<>> => Front(p) \in DOMAIN t
  BY <1>2, <1>6, <1>8 DEF Copied
<1>13. ASSUME NEW p \in DOMAIN wanted \ DOMAIN t PROVE p \in next \/ (p # <<>> /\ Front(p) \notin DOMAIN t)
  <2>1. p \in DOMAIN wanted \ DOMAIN tree /\ p # path
    BY <1>2
  <2>2. p \in todo \/ (p # <<>> /\ Front(p) \notin DOMAIN tree)
    BY <2>1 DEF Copied
  <2> QED BY <1>2, <1>7, <1>8, <2>1, <2>2
<1>14. Copied(t, wanted, next)
  BY <1>9, <1>10, <1>11, <1>12, <1>13 DEF Copied
<1> QED BY <1>1, <1>4, <1>8, <1>14

\* An undisturbed copy into a new directory finds every parent there, and
\* nothing in its way.
LEMMA WalkGoesOn ==
  ASSUME FtInv, NEW u \in FtUsers \ ftDisturbed, NEW job, job = ftJob[u], job.at = "walk", job.op = "copy",
         job.wanted # << >>, NEW path \in job.todo
  PROVE  /\ ftTree[job.from] = job.wanted /\ job.from # job.to /\ Destination(job.from) = {job.to}
         /\ path \in DOMAIN job.wanted /\ ~StopsWalk(u, path)
         /\ ~IsFolder(job.wanted, path) => CanWrite(job.to, path)
<1>1. Active(u) /\ job.to \in FtVersions /\ job.from \in DOMAIN FtSources
  BY ActiveIs DEF FtInv
<1>2. JobRight(job)
  BY <1>1 DEF FtInv, JobsAreRight
<1>3. ftSrcRoot = job.from /\ ftDstRoot = job.to
  BY <1>2 DEF JobRight, RootsRight
<1>4. ftTree[job.from] = job.wanted /\ job.from # job.to /\ Copied(ftTree[job.to], job.wanted, job.todo)
  BY <1>2 DEF JobRight, TreesRight
<1>5. job.from # NoRoot /\ job.to # NoRoot
  BY <1>1, FtSourcesAreTrees
<1>6. Destination(job.from) = {job.to}
  BY <1>3, <1>5 DEF Destination
<1>7. PICK tree : tree = ftTree[job.to]
  OBVIOUS
<1>8. FtTree(tree) /\ FtTree(job.wanted)
  BY <1>1, <1>4, <1>7 DEF FtInv, FtTyped, FtRoots
<1>9. path \in DOMAIN job.wanted /\ path \notin DOMAIN tree /\ (path # <<>> => Front(path) \in DOMAIN tree)
  BY <1>4, <1>7 DEF Copied
<1>10. path # <<>> => IsFolder(tree, Front(path))
  <2> SUFFICES ASSUME path # <<>> PROVE IsFolder(tree, Front(path))
    OBVIOUS
  <2>1. job.wanted[Front(path)] = "dir"
    BY <1>8, <1>9 DEF FtTree
  <2>2. tree[Front(path)] = job.wanted[Front(path)]
    BY <1>4, <1>7, <1>9 DEF Copied
  <2> QED BY <1>9, <2>1, <2>2 DEF IsFolder
<1>11. CanMake(job.to, path)
  BY <1>7, <1>9, <1>10 DEF CanMake
<1>12. ~StopsWalk(u, path)
  BY <1>6, <1>11 DEF StopsWalk
<1>13. ~IsFolder(job.wanted, path) => CanWrite(job.to, path)
  <2> SUFFICES ASSUME ~IsFolder(job.wanted, path) PROVE CanWrite(job.to, path)
    OBVIOUS
  <2>1. path # <<>>
    BY <1>8, <1>9 DEF FtTree, IsFolder
  <2> QED BY <1>7, <1>9, <1>10, <2>1 DEF CanWrite, IsFolder
<1> QED BY <1>4, <1>6, <1>9, <1>12, <1>13

LEMMA SetDstRootKeeps == ASSUME FtInv, NEW u \in FtUsers, SetDstRoot(u) PROVE FtInv' /\ StepIsExact
<1>1. PICK old : old = ftJob[u]
  OBVIOUS
<1>2. JobIs(old) /\ old.at = "dst"
  BY <1>1 DEF FtInv, FtTyped, SetDstRoot
<1>3. Active(u) /\ old.op = "copy" /\ old.from \in DOMAIN FtSources /\ old.to \in FtVersions /\ Copying(u)
  BY <1>1, <1>2, ActiveIs DEF FtInv, Copying, SetDstRoot
<1>4. PICK job : job = [at |-> "walk", op |-> old.op, from |-> old.from, to |-> old.to, todo |-> {<<>>}, wanted |-> old.wanted]
  OBVIOUS
<1>5. job = [old EXCEPT !.at = "walk", !.todo = {<<>>}]
  <2>1. PICK job1 : job1 = [old EXCEPT !.at = "walk"]
    OBVIOUS
  <2>2. job1 = [at |-> "walk", op |-> old.op, from |-> old.from, to |-> old.to, todo |-> old.todo, wanted |-> old.wanted]
    BY <2>1, <1>2 DEF JobIs
  <2>3. PICK job2 : job2 = [job1 EXCEPT !.todo = {<<>>}]
    OBVIOUS
  <2>4. job2 = [at |-> "walk", op |-> old.op, from |-> old.from, to |-> old.to, todo |-> {<<>>}, wanted |-> old.wanted]
    BY <2>3, <2>2
  <2>5. [old EXCEPT !.at = "walk", !.todo = {<<>>}]
      = [[old EXCEPT !.at = "walk"] EXCEPT !.todo = {<<>>}]
    OBVIOUS
  <2> QED BY <2>1, <2>3, <2>4, <1>4
<1>6. JobIs(job)
  BY <1>2, <1>3, <1>4 DEF JobIs
<1>7. Continue(u, job) /\ UNCHANGED ftTree /\ ftDstRoot' = old.to /\ UNCHANGED ftSrcRoot
  BY <1>1, <1>5 DEF SetDstRoot
<1>8. ftJob' = [ftJob EXCEPT ![u] = job] /\ ftDisturbed' = ftDisturbed
  BY <1>7 DEF Continue
<1>9. /\ DOMAIN ftJob' = FtUsers /\ ftJob'[u] = job
      /\ \A v \in FtUsers \ {u} : ftJob'[v] = ftJob[v] /\ (Active(v)' <=> Active(v)) /\ (Copying(v)' <=> Copying(v))
      /\ \A v \in FtUsers : JobIs(ftJob'[v])
  BY <1>6, <1>8, JobsStay DEF FtInv
<1>10. FtTyped'
  BY <1>7, <1>9 DEF FtInv, FtTyped
<1>11. Apart'
  BY <1>1, <1>3, <1>4, <1>6, <1>7, ContinueKeepsApart
<1>12. \A v \in FtUsers \ {u} : v \notin ftDisturbed' /\ Active(v) => v \notin ftDisturbed /\ ftJob[v].op # "copy"
  BY <1>3, <1>8, CopyIsAlone DEF Copying
<1>13. JobsAreRight'
  <2>1. ASSUME u \notin ftDisturbed, Active(u)' PROVE JobRight(job)'
    <3>1. JobRight(old)
      BY <1>1, <1>3, <2>1 DEF FtInv, JobsAreRight
    <3>2. RootsRight(job)'
      BY <1>2, <1>3, <1>4, <1>7, <3>1 DEF JobRight, RootsRight
    <3>3. ASSUME job.wanted # << >> PROVE TreesRight(job)'
      <4>1. ftTree[old.from] = old.wanted /\ old.from # old.to /\ ftTree[old.to] = << >> /\ old.wanted # << >>
        BY <1>2, <1>3, <1>4, <3>1, <3>3 DEF JobRight, TreesRight
      <4>2. FtTree(old.wanted) /\ IsMap(old.wanted)
        BY <1>3, <4>1 DEF FtInv, FtTyped, FtRoots
      <4>3. DOMAIN old.wanted # {}
        BY <4>1, <4>2, EmptyIs DEF IsMap
      <4>4. <<>> \in DOMAIN old.wanted
        BY <4>2, <4>3, RootIsThere
      <4>5. Copied(<< >>, old.wanted, {<<>>})
        BY <4>4 DEF Copied
      <4> QED BY <1>4, <1>7, <4>1, <4>5 DEF TreesRight, Copied
    <3> QED BY <1>3, <1>4, <3>2, <3>3 DEF JobRight
  <2>2. u \notin ftDisturbed' /\ Active(u)' => JobRight(ftJob[u])'
    BY <1>8, <1>9, <2>1 DEF JobRight, RootsRight, TreesRight
  <2> QED BY <1>7, <1>9, <1>12, <2>2, JobsStayRight
<1>14. DstIsHeld'
  <2>1. ftDstRoot' = ftJob'[u].to /\ Copying(u)' /\ ftJob'[u].at # "dst"
    BY <1>3, <1>4, <1>7, <1>9 DEF Copying, Active
  <2> QED BY <1>9, <2>1, DstStaysHeld
<1>20. StepIsExact
  <2>1. ftJob'[u].at # "done"
    BY <1>4, <1>9
  <2> QED BY <1>9, <2>1, OthersGoOn DEF Exact
<1> QED BY <1>20, <1>10, <1>11, <1>13, <1>14 DEF FtInv

LEMMA EndWalkKeeps == ASSUME FtInv, NEW u \in FtUsers, EndWalk(u) PROVE FtInv' /\ StepIsExact
<1>1. PICK old : old = ftJob[u]
  OBVIOUS
<1>2. JobIs(old) /\ old.at = "walk"
  BY <1>1 DEF FtInv, FtTyped, EndWalk
<1>3. Active(u) /\ old.op = "copy" /\ old.from \in DOMAIN FtSources /\ old.to \in FtVersions /\ Copying(u)
  BY <1>1, <1>2, ActiveIs DEF FtInv, Copying, EndWalk
<1>4. PICK job : job = [at |-> "clear", op |-> old.op, from |-> old.from, to |-> old.to, todo |-> {}, wanted |-> old.wanted]
  OBVIOUS
<1>5. job = [old EXCEPT !.at = "clear", !.todo = {}]
  <2>1. PICK job1 : job1 = [old EXCEPT !.at = "clear"]
    OBVIOUS
  <2>2. job1 = [at |-> "clear", op |-> old.op, from |-> old.from, to |-> old.to, todo |-> old.todo, wanted |-> old.wanted]
    BY <2>1, <1>2 DEF JobIs
  <2>3. PICK job2 : job2 = [job1 EXCEPT !.todo = {}]
    OBVIOUS
  <2>4. job2 = [at |-> "clear", op |-> old.op, from |-> old.from, to |-> old.to, todo |-> {}, wanted |-> old.wanted]
    BY <2>3, <2>2
  <2>5. [old EXCEPT !.at = "clear", !.todo = {}]
      = [[old EXCEPT !.at = "clear"] EXCEPT !.todo = {}]
    OBVIOUS
  <2> QED BY <2>1, <2>3, <2>4, <1>4
<1>6. JobIs(job)
  BY <1>2, <1>3, <1>4 DEF JobIs
<1>7. Continue(u, job) /\ UNCHANGED ftTree /\ ftSrcRoot' = NoRoot /\ UNCHANGED ftDstRoot
  BY <1>1, <1>5 DEF EndWalk
<1>8. ftJob' = [ftJob EXCEPT ![u] = job] /\ ftDisturbed' = ftDisturbed
  BY <1>7 DEF Continue
<1>9. /\ DOMAIN ftJob' = FtUsers /\ ftJob'[u] = job
      /\ \A v \in FtUsers \ {u} : ftJob'[v] = ftJob[v] /\ (Active(v)' <=> Active(v)) /\ (Copying(v)' <=> Copying(v))
      /\ \A v \in FtUsers : JobIs(ftJob'[v])
  BY <1>6, <1>8, JobsStay DEF FtInv
<1>10. FtTyped'
  BY <1>7, <1>9 DEF FtInv, FtTyped
<1>11. Apart'
  BY <1>1, <1>3, <1>4, <1>6, <1>7, ContinueKeepsApart
<1>12. \A v \in FtUsers \ {u} : v \notin ftDisturbed' /\ Active(v) => v \notin ftDisturbed /\ ftJob[v].op # "copy"
  BY <1>3, <1>8, CopyIsAlone DEF Copying
<1>13. JobsAreRight'
  <2>1. ASSUME u \notin ftDisturbed, Active(u)' PROVE JobRight(job)'
    <3>1. JobRight(old)
      BY <1>1, <1>3, <2>1 DEF FtInv, JobsAreRight
    <3>2. RootsRight(job)'
      BY <1>4 DEF RootsRight
    <3>3. ASSUME job.wanted # << >> PROVE TreesRight(job)'
      <4>1. ftTree[old.from] = old.wanted /\ old.from # old.to /\ Copied(ftTree[old.to], old.wanted, old.todo) /\ old.wanted # << >>
        BY <1>2, <1>3, <1>4, <3>1, <3>3 DEF JobRight, TreesRight
      <4>2. \A path \in old.todo : ~StopsWalk(u, path)
        BY <1>1, <1>2, <1>3, <2>1, <4>1, WalkGoesOn
      <4>3. old.todo = {}
        BY <1>1, <4>2 DEF EndWalk
      <4>4. FtTree(old.wanted) /\ IsMap(old.wanted) /\ IsMap(ftTree[old.to])
        BY <1>3, <4>1 DEF FtInv, FtTyped, FtRoots
      <4>5. ftTree[old.to] = old.wanted
        BY <4>1, <4>3, <4>4, CopiedIsDone
      <4> QED BY <1>4, <1>7, <4>1, <4>5 DEF TreesRight
    <3> QED BY <1>3, <1>4, <3>2, <3>3 DEF JobRight
  <2>2. u \notin ftDisturbed' /\ Active(u)' => JobRight(ftJob[u])'
    BY <1>8, <1>9, <2>1 DEF JobRight, RootsRight, TreesRight
  <2> QED BY <1>7, <1>9, <1>12, <2>2, JobsStayRight
<1>14. DstIsHeld'
  <2>1. ftDstRoot' = ftDstRoot /\ Copying(u)' /\ ftJob'[u].at # "dst" /\ ftJob'[u].to = ftJob[u].to
    BY <1>1, <1>3, <1>4, <1>7, <1>9 DEF Copying, Active
  <2> QED BY <1>9, <2>1, DstStaysHeld
<1>20. StepIsExact
  <2>1. ftJob'[u].at # "done"
    BY <1>4, <1>9
  <2> QED BY <1>9, <2>1, OthersGoOn DEF Exact
<1> QED BY <1>20, <1>10, <1>11, <1>13, <1>14 DEF FtInv

LEMMA ClearDstRootKeeps == ASSUME FtInv, NEW u \in FtUsers, ClearDstRoot(u) PROVE FtInv' /\ StepIsExact
<1>1. PICK old : old = ftJob[u]
  OBVIOUS
<1>2. JobIs(old) /\ old.at = "clear"
  BY <1>1 DEF FtInv, FtTyped, ClearDstRoot
<1>3. Active(u) /\ old.op = "copy" /\ old.from \in DOMAIN FtSources /\ old.to \in FtVersions /\ Copying(u)
  BY <1>1, <1>2, ActiveIs DEF FtInv, Copying, ClearDstRoot
<1>4. PICK job : job = [at |-> "done", op |-> old.op, from |-> old.from, to |-> old.to, todo |-> old.todo, wanted |-> old.wanted]
  OBVIOUS
<1>5. job = [old EXCEPT !.at = "done"]
  <2>1. PICK job1 : job1 = [old EXCEPT !.at = "done"]
    OBVIOUS
  <2>2. job1 = [at |-> "done", op |-> old.op, from |-> old.from, to |-> old.to, todo |-> old.todo, wanted |-> old.wanted]
    BY <2>1, <1>2 DEF JobIs
  <2>3. [old EXCEPT !.at = "done"]
      = [old EXCEPT !.at = "done"]
    OBVIOUS
  <2> QED BY <2>1, <2>2, <1>4
<1>6. JobIs(job)
  BY <1>2, <1>3, <1>4 DEF JobIs
<1>7. Continue(u, job) /\ UNCHANGED ftTree /\ ftDstRoot' = NoRoot /\ UNCHANGED ftSrcRoot
  BY <1>1, <1>5 DEF ClearDstRoot
<1>8. ftJob' = [ftJob EXCEPT ![u] = job] /\ ftDisturbed' = ftDisturbed
  BY <1>7 DEF Continue
<1>9. /\ DOMAIN ftJob' = FtUsers /\ ftJob'[u] = job
      /\ \A v \in FtUsers \ {u} : ftJob'[v] = ftJob[v] /\ (Active(v)' <=> Active(v)) /\ (Copying(v)' <=> Copying(v))
      /\ \A v \in FtUsers : JobIs(ftJob'[v])
  BY <1>6, <1>8, JobsStay DEF FtInv
<1>10. FtTyped'
  BY <1>7, <1>9 DEF FtInv, FtTyped
<1>11. Apart'
  BY <1>1, <1>3, <1>4, <1>6, <1>7, ContinueKeepsApart
<1>12. \A v \in FtUsers \ {u} : v \notin ftDisturbed' /\ Active(v) => v \notin ftDisturbed /\ ftJob[v].op # "copy"
  BY <1>3, <1>8, CopyIsAlone DEF Copying
<1>13. JobsAreRight'
  <2>1. ASSUME u \notin ftDisturbed, Active(u)' PROVE JobRight(job)'
    <3>1. ~Active(u)'
      BY <1>4, <1>9 DEF Active
    <3> QED BY <2>1, <3>1
  <2>2. u \notin ftDisturbed' /\ Active(u)' => JobRight(ftJob[u])'
    BY <1>8, <1>9, <2>1 DEF JobRight, RootsRight, TreesRight
  <2> QED BY <1>7, <1>9, <1>12, <2>2, JobsStayRight
<1>14. DstIsHeld'
  <2> QED BY <1>7, <1>9, DstStaysHeld
<1>20. StepIsExact
  <2>1. ASSUME u \notin ftDisturbed PROVE Exact(u)
    <3>1. JobRight(old)
      BY <1>1, <1>3, <2>1 DEF FtInv, JobsAreRight
    <3>2. old.wanted # << >> => ftTree'[old.to] = old.wanted /\ ftTree'[old.from] = old.wanted
      BY <1>2, <1>3, <1>7, <3>1 DEF JobRight, TreesRight
    <3> QED BY <1>1, <1>3, <3>2 DEF Exact
  <2> QED BY <1>9, <2>1, OthersGoOn
<1> QED BY <1>20, <1>10, <1>11, <1>13, <1>14 DEF FtInv

LEMMA CopyEntryKeeps == ASSUME FtInv, NEW u \in FtUsers, NEW path, CopyEntry(u, path) PROVE FtInv' /\ StepIsExact
<1>1. PICK old : old = ftJob[u]
  OBVIOUS
<1>2. JobIs(old) /\ old.at = "walk" /\ old.op = "copy" /\ path \in old.todo
  BY <1>1 DEF FtInv, FtTyped, CopyEntry
<1>3. Active(u) /\ old.from \in DOMAIN FtSources /\ old.to \in FtVersions /\ Copying(u)
  BY <1>1, <1>2, ActiveIs DEF FtInv, Copying
<1>4. PICK src : src = ftTree[old.from]
  OBVIOUS
<1>5. PICK todo : todo = (old.todo \ {path}) \cup IF IsFolder(src, path) THEN Under(src, path) ELSE {}
  OBVIOUS
<1>6. PICK job : job = [at |-> old.at, op |-> old.op, from |-> old.from, to |-> old.to, todo |-> todo, wanted |-> old.wanted]
  OBVIOUS
<1>7. job = [old EXCEPT !.todo = todo]
  BY <1>2, <1>6 DEF JobIs
<1>8. [old EXCEPT !.todo = todo] = [old EXCEPT !.todo = (@ \ {path}) \cup IF IsFolder(src, path) THEN Under(src, path) ELSE {}]
  BY <1>5
<1>9. JobIs(job)
  BY <1>2, <1>3, <1>6 DEF JobIs
<1>10. PICK dst : dst = Destination(old.from)
  OBVIOUS
<1>11. /\ Continue(u, job) /\ UNCHANGED <<ftSrcRoot, ftDstRoot>> /\ ~StopsWalk(u, path)
       /\ ftTree' = [r \in FtRoots |->
            IF r \notin dst \/ path \notin DOMAIN src THEN ftTree[r]
            ELSE IF IsFolder(src, path) THEN More(ftTree[r], path, "dir")
            ELSE IF CanWrite(r, path) THEN More(ftTree[r], path, IF r = old.from THEN "emptied" ELSE src[path])
            ELSE ftTree[r]]
  BY <1>1, <1>4, <1>7, <1>8, <1>10 DEF CopyEntry, FtInv, FtTyped, Roots
<1>12. ftJob' = [ftJob EXCEPT ![u] = job] /\ ftDisturbed' = ftDisturbed
  BY <1>11 DEF Continue
<1>13. /\ DOMAIN ftJob' = FtUsers /\ ftJob'[u] = job
       /\ \A v \in FtUsers \ {u} : ftJob'[v] = ftJob[v] /\ (Active(v)' <=> Active(v)) /\ (Copying(v)' <=> Copying(v))
       /\ \A v \in FtUsers : JobIs(ftJob'[v])
  BY <1>9, <1>12, JobsStay DEF FtInv
<1>14. ASSUME NEW r \in FtRoots PROVE FtTree(ftTree'[r]) /\ IsMap(ftTree'[r])
  <2>1. PICK tree : tree = ftTree[r]
    OBVIOUS
  <2>2. FtTree(tree) /\ IsMap(tree) /\ FtTree(src)
    BY <1>3, <1>4, <2>1 DEF FtInv, FtTyped, FtRoots
  <2>3. CASE r \in dst /\ path \in DOMAIN src
    <3>1. path \in FtPath
      BY <2>2, <2>3 DEF FtTree
    <3>2. CASE IsFolder(src, path)
      <4>1. \E root \in dst : CanMake(root, path)
        BY <1>1, <1>4, <1>10, <1>11, <3>2 DEF StopsWalk
      <4>2. \A root \in dst : root = r
        BY <1>10, <2>3 DEF Destination
      <4>3. CanMake(r, path)
        BY <4>1, <4>2
      <4>4. path \notin DOMAIN tree /\ (path # <<>> => IsFolder(tree, Front(path)))
        BY <2>1, <4>3 DEF CanMake
      <4>5. FtTree(More(tree, path, "dir"))
        BY <2>2, <3>1, <4>4, MoreIs
      <4>6. IsMap(More(tree, path, "dir"))
        BY DEF IsMap, More
      <4> QED BY <1>11, <2>1, <2>3, <3>2, <4>5, <4>6
    <3>3. CASE ~IsFolder(src, path) /\ CanWrite(r, path)
      <4>1. PICK data : data = IF r = old.from THEN "emptied" ELSE src[path]
        OBVIOUS
      <4>2. /\ ~IsFolder(tree, path)
            /\ path \in DOMAIN tree \/ (path # <<>> /\ IsFolder(tree, Front(path)))
        BY <2>1, <3>3 DEF CanWrite
      <4>3. FtTree(More(tree, path, data))
        BY <2>2, <3>1, <4>2, MoreIs
      <4>4. IsMap(More(tree, path, data))
        BY DEF IsMap, More
      <4> QED BY <1>11, <2>1, <2>3, <3>3, <4>1, <4>3, <4>4
    <3>4. CASE ~IsFolder(src, path) /\ ~CanWrite(r, path)
      BY <1>11, <2>1, <2>2, <3>4
    <3> QED BY <3>2, <3>3, <3>4
  <2>4. CASE ~(r \in dst /\ path \in DOMAIN src)
    BY <1>11, <2>1, <2>2, <2>4
  <2> QED BY <2>3, <2>4
<1>15. FtTyped'
  BY <1>11, <1>13, <1>14 DEF FtTyped
<1>16. Apart'
  BY <1>1, <1>3, <1>6, <1>9, <1>11, ContinueKeepsApart
<1>17. ASSUME NEW v \in FtUsers \ {u}, v \notin ftDisturbed, Active(v)
       PROVE  ftJob[v].op # "copy" /\ ftTree'[ftJob[v].to] = ftTree[ftJob[v].to]
  <2>1. ftJob[v].op # "copy" /\ ftJob[v].to \in FtVersions
    BY <1>3, <1>17, CopyIsAlone, ActiveIs DEF FtInv, Copying
  <2>2. ftJob[v].to \notin dst
    <3>1. ftJob[v].to # old.from
      BY <1>1, <1>3, <1>17 DEF FtInv, Apart, Spoils, Touched
    <3>2. ftDstRoot # NoRoot => ftJob[v].to # ftDstRoot
      <4> SUFFICES ASSUME ftDstRoot # NoRoot PROVE ftJob[v].to # ftDstRoot
        OBVIOUS
      <4>1. PICK w \in FtUsers : Copying(w) /\ ftJob[w].to = ftDstRoot
        BY DEF FtInv, DstIsHeld
      <4>2. w # v
        BY <2>1, <4>1 DEF Copying
      <4> QED BY <1>17, <4>1, <4>2 DEF FtInv, Apart, Spoils, Touched, Copying
    <3> QED BY <1>10, <3>1, <3>2 DEF Destination
  <2>3. ftJob[v].to \in FtRoots
    BY <2>1 DEF FtRoots
  <2> QED BY <1>11, <2>1, <2>2, <2>3
<1>18. JobsAreRight'
  <2>1. ASSUME u \notin ftDisturbed PROVE JobRight(job)'
    <3>1. JobRight(old)
      BY <1>1, <1>3, <2>1 DEF FtInv, JobsAreRight
    <3>2. RootsRight(job)'
      BY <1>2, <1>6, <1>11, <3>1 DEF JobRight, RootsRight
    <3>3. ASSUME job.wanted # << >> PROVE TreesRight(job)'
      <4>1. PICK tree : tree = ftTree[old.to]
        OBVIOUS
      <4>2. Copied(tree, old.wanted, old.todo) /\ old.wanted # << >>
        BY <1>2, <1>6, <3>1, <3>3, <4>1 DEF JobRight, TreesRight
      <4>3. /\ src = old.wanted /\ old.from # old.to /\ dst = {old.to} /\ path \in DOMAIN src
            /\ ~IsFolder(src, path) => CanWrite(old.to, path)
        BY <1>1, <1>2, <1>4, <1>10, <2>1, <4>2, WalkGoesOn
      <4>4. ftTree'[old.from] = src
        BY <1>3, <1>4, <1>11, <4>3 DEF FtRoots
      <4>5. ftTree'[old.to] = More(tree, path, src[path])
        <5>1. old.to \in FtRoots /\ old.to \in dst
          BY <1>3, <4>3 DEF FtRoots
        <5>2. CASE IsFolder(src, path)
          <6>1. src[path] = "dir"
            BY <5>2 DEF IsFolder
          <6> QED BY <1>11, <4>1, <4>3, <5>1, <5>2, <6>1
        <5>3. CASE ~IsFolder(src, path)
          BY <1>11, <4>1, <4>3, <5>1, <5>3
        <5> QED BY <5>2, <5>3
      <4>6. FtTree(tree) /\ FtTree(old.wanted)
        BY <1>3, <1>4, <4>1, <4>3 DEF FtInv, FtTyped, FtRoots
      <4>7. Copied(More(tree, path, src[path]), old.wanted, todo)
        BY <1>2, <1>5, <4>2, <4>3, <4>6, CopiedGrows
      <4> QED BY <1>2, <1>6, <4>3, <4>4, <4>5, <4>7 DEF TreesRight, Copied
    <3> QED BY <1>2, <1>6, <3>2, <3>3 DEF JobRight
  <2>2. u \notin ftDisturbed' /\ Active(u)' => JobRight(ftJob[u])'
    BY <1>12, <1>13, <2>1 DEF JobRight, RootsRight, TreesRight
  <2>3. \A v \in FtUsers \ {u} : v \notin ftDisturbed' /\ Active(v) =>
          v \notin ftDisturbed /\ ftJob[v].op # "copy" /\ ftTree'[ftJob[v].to] = ftTree[ftJob[v].to]
    BY <1>12, <1>17
  <2> QED BY <1>13, <2>2, <2>3, JobsStayRight
<1>19. DstIsHeld'
  <2>1. ftDstRoot' = ftDstRoot /\ Copying(u)' /\ ftJob'[u].at # "dst" /\ ftJob'[u].to = ftJob[u].to
    BY <1>1, <1>2, <1>6, <1>11, <1>13 DEF Copying, Active
  <2> QED BY <1>13, <2>1, DstStaysHeld
<1>20. StepIsExact
  <2>1. ftJob'[u].at # "done"
    BY <1>2, <1>6, <1>13
  <2> QED BY <1>13, <2>1, OthersGoOn DEF Exact
<1> QED BY <1>15, <1>16, <1>18, <1>19, <1>20 DEF FtInv

LEMMA RemoveEntryKeeps == ASSUME FtInv, NEW u \in FtUsers, NEW path, RemoveEntry(u, path) PROVE FtInv' /\ StepIsExact
<1>1. PICK old : old = ftJob[u]
  OBVIOUS
<1>2. JobIs(old) /\ old.at = "walk" /\ old.op = "delete" /\ path \in Deepest(old.todo)
  BY <1>1 DEF FtInv, FtTyped, RemoveEntry
<1>3. Active(u) /\ old.to \in FtVersions /\ old.from = NoRoot
  BY <1>1, <1>2, ActiveIs DEF FtInv
<1>4. PICK tree : tree = ftTree[old.to]
  OBVIOUS
<1>5. FtTree(tree) /\ IsMap(tree)
  BY <1>3, <1>4 DEF FtInv, FtTyped, FtRoots
<1>6. PICK removed \in BOOLEAN : removed <=> path \in DOMAIN tree /\ Under(tree, path) = {}
  OBVIOUS
<1>7. PICK rest : rest = IF removed THEN old.todo \ {path} ELSE {}
  OBVIOUS
<1>8. PICK at : at = IF rest = {} THEN "done" ELSE "walk"
  OBVIOUS
<1>9. PICK job : job = [at |-> at, op |-> old.op, from |-> old.from, to |-> old.to, todo |-> rest, wanted |-> old.wanted]
  OBVIOUS
<1>10. job = [old EXCEPT !.todo = rest, !.at = at]
  <2>1. PICK job1 : job1 = [old EXCEPT !.todo = rest]
    OBVIOUS
  <2>2. job1 = [at |-> old.at, op |-> old.op, from |-> old.from, to |-> old.to, todo |-> rest, wanted |-> old.wanted]
    BY <2>1, <1>2 DEF JobIs
  <2>3. PICK job2 : job2 = [job1 EXCEPT !.at = at]
    OBVIOUS
  <2>4. job2 = [at |-> at, op |-> old.op, from |-> old.from, to |-> old.to, todo |-> rest, wanted |-> old.wanted]
    BY <2>3, <2>2
  <2>5. [old EXCEPT !.todo = rest, !.at = at]
      = [[old EXCEPT !.todo = rest] EXCEPT !.at = at]
    OBVIOUS
  <2> QED BY <2>1, <2>3, <2>4, <1>9
<1>11. JobIs(job)
  BY <1>2, <1>3, <1>8, <1>9 DEF JobIs
<1>12. PICK new : new = IF removed THEN Less(tree, {path}) ELSE tree
  OBVIOUS
<1>13. Continue(u, job) /\ ftTree' = [ftTree EXCEPT ![old.to] = new] /\ UNCHANGED <<ftSrcRoot, ftDstRoot>>
  BY <1>1, <1>4, <1>6, <1>7, <1>8, <1>10, <1>12 DEF RemoveEntry
<1>14. ftJob' = [ftJob EXCEPT ![u] = job] /\ ftDisturbed' = ftDisturbed
  BY <1>13 DEF Continue
<1>15. /\ DOMAIN ftJob' = FtUsers /\ ftJob'[u] = job
       /\ \A v \in FtUsers \ {u} : ftJob'[v] = ftJob[v] /\ (Active(v)' <=> Active(v)) /\ (Copying(v)' <=> Copying(v))
       /\ \A v \in FtUsers : JobIs(ftJob'[v])
  BY <1>11, <1>14, JobsStay DEF FtInv
<1>16. FtTree(new) /\ IsMap(new)
  <2>1. removed => FtTree(Less(tree, {path}))
    <3> SUFFICES ASSUME removed PROVE FtTree(Less(tree, {path}))
      OBVIOUS
    <3>1. path \in FtPath /\ Under(tree, path) = {}
      BY <1>5, <1>6 DEF FtTree
    <3> QED BY <1>5, <3>1, LessIs
  <2>2. IsMap(Less(tree, {path}))
    BY DEF IsMap, Less
  <2> QED BY <1>5, <1>12, <2>1, <2>2
<1>17. DOMAIN ftTree' = FtRoots /\ ftTree'[old.to] = new /\ \A r \in FtRoots \ {old.to} : ftTree'[r] = ftTree[r]
  BY <1>3, <1>13 DEF FtInv, FtTyped, FtRoots
<1>18. FtTyped'
  BY <1>15, <1>16, <1>17 DEF FtInv, FtTyped
<1>19. Apart'
  <2>1. at \in {"idle", "chosen", "done"} \/ (Active(u) /\ job.op = old.op /\ job.from = old.from /\ job.to = old.to)
    BY <1>3, <1>9
  <2> QED BY <1>1, <1>9, <1>11, <1>13, <2>1, ContinueKeepsApart
<1>20. ASSUME u \notin ftDisturbed PROVE new = Less(tree, {path}) /\ rest = DOMAIN new
  <2>1. old.todo = DOMAIN tree
    BY <1>1, <1>2, <1>3, <1>4, <1>20 DEF FtInv, JobsAreRight, JobRight
  <2>2. path \in old.todo /\ \A q \in old.todo : ~(Len(q) > Len(path) /\ IsPrefix(path, q))
    BY <1>2 DEF Deepest
  <2>3. Len(path) \in Nat
    BY <1>5, <2>1, <2>2 DEF FtTree, FtPath
  <2>4. Len(path) + 1 > Len(path)
    BY <2>3
  <2>5. Under(tree, path) = {}
    BY <2>1, <2>2, <2>4 DEF Under
  <2>6. removed
    BY <1>6, <2>1, <2>2, <2>5
  <2> QED BY <1>7, <1>12, <2>1, <2>6 DEF Less
<1>21. JobsAreRight'
  <2>1. u \notin ftDisturbed' /\ Active(u)' => JobRight(ftJob[u])'
    BY <1>2, <1>9, <1>14, <1>15, <1>17, <1>20 DEF JobRight
  <2>2. ASSUME NEW v \in FtUsers \ {u}, v \notin ftDisturbed, Active(v)
        PROVE  /\ ftTree'[ftJob[v].to] = ftTree[ftJob[v].to]
               /\ ftJob[v].op = "copy" => ftTree'[ftJob[v].from] = ftTree[ftJob[v].from]
    <3>1. ftJob[v].to # old.to /\ ftJob[v].from # old.to
      BY <1>1, <1>3, <2>2 DEF FtInv, Apart, Spoils, Touched
    <3>2. ftJob[v].to \in FtRoots /\ (ftJob[v].op = "copy" => ftJob[v].from \in FtRoots)
      BY <2>2, ActiveIs DEF FtInv, FtRoots
    <3> QED BY <1>17, <3>1, <3>2
  <2> QED BY <1>13, <1>14, <1>15, <2>1, <2>2, JobsStayRight
<1>22. DstIsHeld'
  <2>1. ~Copying(u)
    BY <1>1, <1>2 DEF Copying
  <2> QED BY <1>13, <1>15, <2>1, DstStaysHeld
<1>23. StepIsExact
  <2>1. ASSUME u \notin ftDisturbed, job.at = "done" PROVE ftTree'[old.to] = << >>
    <3>1. rest = {}
      BY <1>8, <1>9, <2>1
    <3>2. DOMAIN new = {} /\ new = [x \in DOMAIN new |-> new[x]]
      BY <1>16, <1>20, <2>1, <3>1 DEF IsMap
    <3>3. new = << >>
      BY <3>2, EmptyIs
    <3> QED BY <1>17, <3>3
  <2>2. u \notin ftDisturbed => Exact(u)
    BY <1>1, <1>2, <1>15, <2>1 DEF Exact
  <2> QED BY <1>15, <2>2, OthersGoOn
<1> QED BY <1>18, <1>19, <1>21, <1>22, <1>23 DEF FtInv

LEMMA FtNextKeeps == FtInv /\ FtNext => FtInv' /\ StepIsExact
<1> SUFFICES ASSUME FtInv, NEW u \in FtUsers,
                    \/ CopyNothing(u) \/ CopyDir(u) \/ SetDstRoot(u) \/ EndWalk(u) \/ ClearDstRoot(u)
                    \/ \E from \in DOMAIN FtSources : ChooseTarget(u, from)
                    \/ \E path \in ftJob[u].todo : CopyEntry(u, path) \/ RemoveEntry(u, path)
                    \/ \E root \in FtVersions : DeleteDir(u, root)
             PROVE  FtInv' /\ StepIsExact
  BY DEF FtNext
<1>1. CASE CopyNothing(u)
  BY <1>1, CopyNothingKeeps
<1>2. CASE CopyDir(u)
  BY <1>2, CopyDirKeeps
<1>3. CASE SetDstRoot(u)
  BY <1>3, SetDstRootKeeps
<1>4. CASE EndWalk(u)
  BY <1>4, EndWalkKeeps
<1>5. CASE ClearDstRoot(u)
  BY <1>5, ClearDstRootKeeps
<1>6. CASE \E from \in DOMAIN FtSources : ChooseTarget(u, from)
  BY <1>6, ChooseTargetKeeps
<1>7. CASE \E path \in ftJob[u].todo : CopyEntry(u, path)
  BY <1>7, CopyEntryKeeps
<1>8. CASE \E path \in ftJob[u].todo : RemoveEntry(u, path)
  BY <1>8, RemoveEntryKeeps
<1>9. CASE \E root \in FtVersions : DeleteDir(u, root)
  BY <1>9, DeleteDirKeeps
<1> QED BY <1>1, <1>2, <1>3, <1>4, <1>5, <1>6, <1>7, <1>8, <1>9

LEMMA FtStutterKeeps == FtInv /\ UNCHANGED ftvars => FtInv'
<1> SUFFICES ASSUME FtInv, UNCHANGED <<ftTree, ftSrcRoot, ftDstRoot, ftJob, ftDisturbed>> PROVE FtInv'
  BY DEF ftvars
<1>1. FtTyped'
  BY DEF FtInv, FtTyped
<1>2. Apart' /\ DstIsHeld'
  BY DEF FtInv, Apart, DstIsHeld, Active, Copying
<1>3. JobsAreRight'
  <2>1. \A u \in FtUsers : Active(u)' <=> Active(u)
    BY DEF Active
  <2>2. ASSUME NEW job PROVE JobRight(job)' <=> JobRight(job)
    BY DEF JobRight, RootsRight, TreesRight
  <2> SUFFICES ASSUME NEW u \in FtUsers \ ftDisturbed, Active(u) PROVE JobRight(ftJob[u])'
    BY <2>1 DEF JobsAreRight
  <2>3. PICK job : job = ftJob[u] /\ job = ftJob'[u]
    OBVIOUS
  <2>4. JobRight(job)'
    BY <2>2, <2>3 DEF FtInv, JobsAreRight
  <2> QED BY <2>3, <2>4 DEF JobRight, RootsRight, TreesRight
<1> QED BY <1>1, <1>2, <1>3 DEF FtInv

\* When a copy into a new directory or a deletion returns, its tree is what it
\* should be, unless what the static variables of posix_filesystem.cc or the
\* directory have in common with another call was used meanwhile.
THEOREM WalksEndExactly == FtSpec => WalksAreExact
<1>1. FtInit => FtInv
  BY FtInitInv
<1>2. FtInv /\ [FtNext]_ftvars => FtInv'
  BY FtNextKeeps, FtStutterKeeps
<1>3. FtInv /\ [FtNext]_ftvars => [StepIsExact]_ftvars
  BY FtNextKeeps
<1>4. FtInit /\ [][FtNext]_ftvars => [][StepIsExact]_ftvars
  BY <1>1, <1>2, <1>3, PTL
<1> QED BY <1>4 DEF FtSpec, WalksAreExact, StepIsExact, Exact
-----------------------------------------------------------------------------
(***************************************************************************)
(* VersionSelect.  What a policy takes of a list in order, and that the    *)
(* list is in order, whichever directory children() visits next.           *)
(***************************************************************************)
\* std::sort() puts a new number behind those that are not greater.
LEMMA NewNumberHasPlace ==
  ASSUME NEW list \in Seq(Int), Ordered(list), NEW v \in Int, NEW n, n = Len(list)
  PROVE  \E k \in 1 .. n + 1 : /\ \A i \in 1 .. n : i < k => list[i] <= v
                               /\ \A i \in 1 .. n : i >= k => v <= list[i]
<1> DEFINE S == {k \in Nat : k >= 1 /\ (k = n + 1 \/ (k <= n /\ v < list[k]))}
<1>0. n \in Nat /\ DOMAIN list = 1 .. n /\ \A i \in 1 .. n : list[i] \in Int
  OBVIOUS
<1>1. n + 1 \in S
  BY <1>0
<1>2. PICK k \in S : \A m \in S : k <= m
  <2> HIDE DEF S
  <2>1. S \in SUBSET Nat
    BY DEF S
  <2> QED BY <1>1, <2>1, LeastNumber
<1>3. k \in 1 .. n + 1
  BY <1>0, <1>1, <1>2
<1>4. ASSUME NEW i \in 1 .. n, i < k PROVE list[i] <= v
  BY <1>0, <1>2, <1>4
<1>5. ASSUME NEW i \in 1 .. n, i >= k PROVE v <= list[i]
  <2>1. k <= n /\ v < list[k] /\ k \in 1 .. n
    BY <1>0, <1>2, <1>3, <1>5
  <2>2. list[k] <= list[i]
    BY <1>0, <1>5, <2>1 DEF Ordered
  <2> QED BY <1>0, <2>1, <2>2
<1> QED BY <1>3, <1>4, <1>5

\* A permutation that sorts the first m elements of a sequence.
Sorts(p, s, m) == p \in Bijection(1 .. m, 1 .. m) /\ Ordered([i \in 1 .. m |-> s[p[i]]])

\* Sorting is possible: the new number goes to its place.
LEMMA NewNumberSorts ==
  ASSUME NEW list \in Seq(Int), Ordered(list), NEW v \in Int, NEW n, n = Len(list),
         NEW s, s = Append(list, v)
  PROVE  \E p : Sorts(p, s, n + 1)
<1>0. n \in Nat /\ DOMAIN list = 1 .. n /\ \A i \in 1 .. n : list[i] \in Int
  OBVIOUS
<1>1. PICK k \in 1 .. n + 1 : /\ \A i \in 1 .. n : i < k => list[i] <= v
                              /\ \A i \in 1 .. n : i >= k => v <= list[i]
  BY NewNumberHasPlace
<1>2. PICK p : p = [i \in 1 .. n + 1 |-> IF i < k THEN i ELSE IF i = k THEN n + 1 ELSE i - 1]
  OBVIOUS
<1>3. \A i \in 1 .. n + 1 : /\ p[i] \in 1 .. n + 1
                            /\ i < k => p[i] = i
                            /\ i = k => p[i] = n + 1
                            /\ i > k => p[i] = i - 1
  BY <1>0, <1>2
<1>4. p \in [1 .. n + 1 -> 1 .. n + 1]
  BY <1>2, <1>3
<1>5. ASSUME NEW i \in 1 .. n + 1, NEW j \in 1 .. n + 1, p[i] = p[j] PROVE i = j
  <2>1. /\ i \in Int /\ i <= n + 1 /\ (i < k => p[i] = i) /\ (i = k => p[i] = n + 1) /\ (i > k => p[i] = i - 1)
        /\ j \in Int /\ j <= n + 1 /\ (j < k => p[j] = j) /\ (j = k => p[j] = n + 1) /\ (j > k => p[j] = j - 1)
    BY <1>0, <1>3
  <2>2. k \in Int /\ (i < k \/ i = k \/ i > k) /\ (j < k \/ j = k \/ j > k)
    BY <1>0, <2>1
  <2>3. CASE i < k
    BY <1>0, <1>5, <2>1, <2>2, <2>3
  <2>4. CASE i = k
    BY <1>0, <1>5, <2>1, <2>2, <2>4
  <2>5. CASE i > k
    BY <1>0, <1>5, <2>1, <2>2, <2>5
  <2> QED BY <2>2, <2>3, <2>4, <2>5
<1>6. \A t \in 1 .. n + 1 : \E i \in 1 .. n + 1 : p[i] = t
  <2> SUFFICES ASSUME NEW t \in 1 .. n + 1 PROVE \E i \in 1 .. n + 1 : p[i] = t
    OBVIOUS
  <2>1. CASE t = n + 1
    BY <1>3, <2>1
  <2>2. CASE t < k
    BY <1>0, <1>3, <2>2
  <2>3. CASE t >= k /\ t # n + 1
    <3>1. t + 1 \in 1 .. n + 1 /\ t + 1 > k
      BY <1>0, <2>3
    <3>2. PICK i \in 1 .. n + 1 : i = t + 1
      BY <3>1
    <3>3. i > k /\ i - 1 = t
      BY <1>0, <3>1, <3>2
    <3>4. p[i] = i - 1
      BY <1>3, <3>2, <3>3
    <3> QED BY <3>3, <3>4
  <2> QED BY <1>0, <2>1, <2>2, <2>3
<1>7. p \in Bijection(1 .. n + 1, 1 .. n + 1)
  BY <1>4, <1>5, <1>6 DEF Bijection, Injection, Surjection, IsInjective
<1>8. PICK z : z = [i \in 1 .. n + 1 |-> s[p[i]]]
  OBVIOUS
<1>9. \A i \in 1 .. n + 1 : /\ i < k => i \in 1 .. n /\ z[i] = list[i]
                            /\ i = k => z[i] = v
                            /\ i > k => i - 1 \in 1 .. n /\ z[i] = list[i - 1]
  BY <1>0, <1>3, <1>8
<1>10. ASSUME NEW i \in 1 .. n + 1, NEW j \in 1 .. n + 1, i < j PROVE z[i] <= z[j]
  <2>1. \A a, b \in 1 .. n : a < b \/ a = b => list[a] <= list[b]
    <3>1. \A a, b \in 1 .. n : a < b => list[a] <= list[b]
      BY <1>0 DEF Ordered
    <3>2. \A a \in 1 .. n : list[a] <= list[a]
      BY <1>0
    <3> QED BY <3>1, <3>2
  <2>2. CASE i < k /\ j < k
    BY <1>0, <1>9, <1>10, <2>1, <2>2
  <2>3. CASE i < k /\ j = k
    BY <1>0, <1>1, <1>9, <1>10, <2>3
  <2>4. CASE i < k /\ j > k
    <3>1. z[i] = list[i] /\ z[j] = list[j - 1] /\ i \in 1 .. n /\ j - 1 \in 1 .. n /\ (i < j - 1 \/ i = j - 1)
      BY <1>0, <1>9, <1>10, <2>4
    <3> QED BY <2>1, <3>1
  <2>5. CASE i = k
    <3>1. z[i] = v /\ z[j] = list[j - 1] /\ j - 1 \in 1 .. n /\ j - 1 >= k
      BY <1>0, <1>9, <1>10, <2>5
    <3> QED BY <1>1, <3>1
  <2>6. CASE i > k
    <3>1. z[i] = list[i - 1] /\ z[j] = list[j - 1] /\ i - 1 \in 1 .. n /\ j - 1 \in 1 .. n /\ i - 1 < j - 1
      BY <1>0, <1>9, <1>10, <2>6
    <3> QED BY <2>1, <3>1
  <2> QED BY <1>0, <1>10, <2>2, <2>3, <2>4, <2>5, <2>6
<1>11. Ordered(z)
  BY <1>8, <1>10 DEF Ordered
<1> QED BY <1>7, <1>8, <1>11 DEF Sorts

\* VersionList::add() adds one number and keeps the list in order.
LEMMA AddInserts ==
  ASSUME NEW list \in Seq(Int), Ordered(list), NEW v \in Int, NEW new, new = Add(list, v)
  PROVE  /\ new \in Seq(Int) /\ Ordered(new)
         /\ ToSet(new) = ToSet(list) \union {v}
         /\ v \notin ToSet(list) /\ IsInjective(list) => IsInjective(new)
<1>1. PICK n \in Nat : n = Len(list) /\ DOMAIN list = 1 .. n
  OBVIOUS
<1>2. PICK s : s = Append(list, v)
  OBVIOUS
<1>3. DOMAIN s = 1 .. n + 1 /\ s[n + 1] = v /\ \A i \in 1 .. n : s[i] = list[i]
  BY <1>1, <1>2
<1>4. PICK p : p = CHOOSE q \in Bijection(1 .. n + 1, 1 .. n + 1) : Ordered([i \in 1 .. n + 1 |-> s[q[i]]])
  OBVIOUS
<1>5. p \in Bijection(1 .. n + 1, 1 .. n + 1) /\ Ordered([i \in 1 .. n + 1 |-> s[p[i]]])
  <2>1. \E q \in Bijection(1 .. n + 1, 1 .. n + 1) : Ordered([i \in 1 .. n + 1 |-> s[q[i]]])
    <3>1. \E q : Sorts(q, s, n + 1)
      BY <1>1, <1>2, NewNumberSorts
    <3> QED BY <3>1, Zenon DEF Sorts
  <2> QED BY <1>4, <2>1, Zenon
<1>6. /\ p \in [1 .. n + 1 -> 1 .. n + 1]
      /\ \A i, j \in 1 .. n + 1 : p[i] = p[j] => i = j
      /\ \A t \in 1 .. n + 1 : \E i \in 1 .. n + 1 : p[i] = t
  BY <1>5 DEF Bijection, Injection, Surjection, IsInjective
<1>7. new = [i \in 1 .. n + 1 |-> s[p[i]]]
  <2>1. new = Sort(s)
    BY <1>2 DEF Add
  <2>2. Sort(s) = [i \in DOMAIN s |-> s[(CHOOSE q \in Bijection(DOMAIN s, DOMAIN s) : Ordered([j \in DOMAIN s |-> s[q[j]]]))[i]]]
    BY Zenon DEF Sort
  <2> QED BY <1>3, <1>4, <2>1, <2>2, Zenon
<1>8. \A i \in 1 .. n : list[i] \in Int
  BY <1>1
<1>9. \A i \in 1 .. n + 1 : s[i] \in Int
  BY <1>1, <1>3, <1>8
<1>10. new \in Seq(Int) /\ DOMAIN new = 1 .. n + 1 /\ \A i \in 1 .. n + 1 : new[i] = s[p[i]]
  <2>1. new \in [1 .. n + 1 -> Int]
    BY <1>6, <1>7, <1>9
  <2> QED BY <1>7, <2>1
<1>11. ToSet(new) = ToSet(list) \union {v}
  <2>1. ToSet(new) = {new[i] : i \in 1 .. n + 1} /\ ToSet(list) = {list[i] : i \in 1 .. n}
    BY <1>1, <1>10 DEF ToSet
  <2>2. ASSUME NEW x \in ToSet(new) PROVE x \in ToSet(list) \union {v}
    <3>1. PICK i \in 1 .. n + 1 : x = s[p[i]] /\ p[i] \in 1 .. n + 1
      <4>1. PICK i \in 1 .. n + 1 : x = new[i]
        BY <2>1, <2>2
      <4> QED BY <1>6, <1>10, <4>1
    <3>2. p[i] = n + 1 \/ p[i] \in 1 .. n
      BY <1>1, <3>1
    <3> QED BY <1>3, <2>1, <3>1, <3>2
  <2>3. ASSUME NEW x \in ToSet(list) \union {v} PROVE x \in ToSet(new)
    <3>1. PICK t \in 1 .. n + 1 : x = s[t]
      <4>1. CASE x = v
        BY <1>3, <4>1
      <4>2. CASE x \in ToSet(list)
        <5>1. PICK i \in 1 .. n : x = list[i]
          BY <2>1, <4>2
        <5>2. i \in 1 .. n + 1 /\ x = s[i]
          BY <1>3, <5>1
        <5> QED BY <5>2
      <4> QED BY <2>3, <4>1, <4>2
    <3>2. PICK i \in 1 .. n + 1 : p[i] = t
      BY <1>6
    <3> QED BY <1>10, <2>1, <3>1, <3>2
  <2> QED BY <2>2, <2>3
<1>12. ASSUME v \notin ToSet(list), IsInjective(list) PROVE IsInjective(new)
  <2>1. \A i \in 1 .. n : list[i] # v
    BY <1>1, <1>12 DEF ToSet
  <2>2. \A i, j \in 1 .. n : list[i] = list[j] => i = j
    BY <1>1, <1>12 DEF IsInjective
  <2>3. \A i, j \in 1 .. n + 1 : s[i] = s[j] => i = j
    <3>1. \A i \in 1 .. n + 1 : i = n + 1 \/ i \in 1 .. n
      BY <1>1
    <3> QED BY <1>3, <2>1, <2>2, <3>1
  <2>4. ASSUME NEW i \in 1 .. n + 1, NEW j \in 1 .. n + 1, new[i] = new[j] PROVE i = j
    <3>1. p[i] \in 1 .. n + 1 /\ p[j] \in 1 .. n + 1 /\ s[p[i]] = s[p[j]]
      BY <1>6, <1>10, <2>4
    <3>2. p[i] = p[j]
      BY <2>3, <3>1
    <3> QED BY <1>6, <3>2
  <2> QED BY <1>10, <2>4 DEF IsInjective
<1> QED BY <1>5, <1>7, <1>10, <1>11, <1>12

\* The versions of a specific policy are looked up one by one.
Looked(Z, s, n) == CHOOSE iter : iter = [S \in SUBSET (1 .. n) |->
                     IF S = {} THEN <<>>
                     ELSE IF s[Max(S)] \in Z THEN Add(iter[S \ {Max(S)}], s[Max(S)]) ELSE iter[S \ {Max(S)}]]

\* The fold of specific(), unfolded: the function it chooses exists.
LEMMA LookedIs ==
  ASSUME NEW Z, NEW s, NEW n \in Nat, NEW W, W = Looked(Z, s, n), NEW S \in SUBSET (1 .. n), NEW m, m = Max(S)
  PROVE  W[S] = IF S = {} THEN <<>> ELSE IF s[m] \in Z THEN Add(W[S \ {m}], s[m]) ELSE W[S \ {m}]
<1> DEFINE Step(w, e) == IF s[e] \in Z THEN Add(w, s[e]) ELSE w
           F(f, X) == IF X = {} THEN <<>> ELSE Step(f[X \ {Max(X)}], Max(X))
           T == {i \in Nat : \E f : f = [X \in SUBSET (1 .. i) |-> F(f, X)]}
<1> HIDE DEF Step
<1>1. 0 \in T
  <2>1. PICK f : f = [X \in SUBSET (1 .. 0) |-> <<>>]
    OBVIOUS
  <2>2. \A X \in SUBSET (1 .. 0) : X = {}
    OBVIOUS
  <2>3. f = [X \in SUBSET (1 .. 0) |-> F(f, X)]
    BY <2>1, <2>2
  <2> QED BY <2>3
<1>2. ASSUME NEW i \in Nat, i \in T PROVE i + 1 \in T
  <2>1. PICK f : f = [X \in SUBSET (1 .. i) |-> F(f, X)]
    BY <1>2
  <2>2. PICK g : g = [X \in SUBSET (1 .. i + 1) |-> IF i + 1 \in X THEN Step(f[X \ {i + 1}], i + 1) ELSE f[X]]
    OBVIOUS
  <2>3. \A X \in SUBSET (1 .. i) : g[X] = f[X] /\ f[X] = F(f, X)
    <3>1. \A X \in SUBSET (1 .. i) : X \in SUBSET (1 .. i + 1) /\ i + 1 \notin X
      OBVIOUS
    <3>2. \A X \in SUBSET (1 .. i) : g[X] = f[X]
      BY <2>2, <3>1
    <3> HIDE DEF F
    <3>3. \A X \in SUBSET (1 .. i) : f[X] = F(f, X)
      BY <2>1
    <3> QED BY <3>2, <3>3
  <2>4. ASSUME NEW X \in SUBSET (1 .. i + 1) PROVE g[X] = F(g, X)
    <3>1. CASE i + 1 \in X
      <4>1. Max(X) = i + 1
        <5>1. \A x \in X : x <= i + 1
          OBVIOUS
        <5>2. X \subseteq Int
          OBVIOUS
        <5> QED BY <3>1, <5>1, <5>2, GreatestIs
      <4>2. X \ {i + 1} \in SUBSET (1 .. i)
        OBVIOUS
      <4>3. g[X] = Step(f[X \ {i + 1}], i + 1)
        BY <2>2, <3>1
      <4>4. g[X \ {i + 1}] = f[X \ {i + 1}]
        BY <2>3, <4>2
      <4> QED BY <3>1, <4>1, <4>3, <4>4
    <3>2. CASE i + 1 \notin X
      <4>0. \A x \in X : x \in 1 .. i
        <5>1. \A x \in X : x \in 1 .. i + 1 /\ x # i + 1
          BY <3>2
        <5>2. \A x \in 1 .. i + 1 : x # i + 1 => x \in 1 .. i
          OBVIOUS
        <5> QED BY <5>1, <5>2
      <4>1. X \in SUBSET (1 .. i) /\ X \ {Max(X)} \in SUBSET (1 .. i)
        BY <4>0
      <4>2. g[X] = f[X] /\ f[X] = F(f, X) /\ g[X \ {Max(X)}] = f[X \ {Max(X)}]
        BY <2>3, <4>1
      <4> QED BY <4>2
    <3> QED BY <3>1, <3>2
  <2>5. g = [X \in SUBSET (1 .. i + 1) |-> F(g, X)]
    <3> HIDE DEF F
    <3> QED BY <2>2, <2>4
  <2> HIDE DEF F
  <2> QED BY <2>5
<1>3. n \in T
  <2> HIDE DEF F
  <2> QED BY <1>1, <1>2, NatSetInduction
<1>4. W = [x \in SUBSET (1 .. n) |-> F(W, x)]
  BY <1>3, Zenon DEF Looked, Step
<1> HIDE DEF F
<1>5. W[S] = F(W, S)
  BY <1>4
<1> QED BY <1>5 DEF F, Step

\* A specific policy finds exactly what it names.
LEMMA SpecificFindsNamed ==
  ASSUME NEW list \in Seq(Int), NEW named
  PROVE  ToSet(SpecificOnly(list, named)) = {ToInt(v) : v \in named} \intersect ToSet(list)
<1>1. PICK Z : Z = {ToInt(v) : v \in named}
  OBVIOUS
<1>2. PICK n \in Nat : n = Len(list) /\ DOMAIN list = 1 .. n
  OBVIOUS
<1>3. PICK W : W = Looked(Z, list, n)
  OBVIOUS
<1>4. SpecificOnly(list, named) = W[1 .. n]
  BY <1>1, <1>2, <1>3, Zenon DEF SpecificOnly, FoldLeft, MapThenFoldSet, Looked
<1>5. W[{}] = <<>>
  <2>1. {} \in SUBSET (1 .. n)
    OBVIOUS
  <2> QED BY <1>3, <2>1, LookedIs
<1>6. ASSUME NEW k \in Nat, k + 1 <= n
      PROVE  W[1 .. k + 1] = IF list[k + 1] \in Z THEN Add(W[1 .. k], list[k + 1]) ELSE W[1 .. k]
  <2>1. PICK S : S = 1 .. k + 1
    OBVIOUS
  <2>2. k + 1 \in S /\ S \subseteq Int /\ S \in SUBSET (1 .. n) /\ \A x \in S : x <= k + 1
    BY <1>6, <2>1
  <2>3. Max(S) = k + 1
    BY <2>2, GreatestIs
  <2>4. S \ {k + 1} = 1 .. k /\ S # {}
    BY <2>1, <2>2
  <2>5. W[S] = IF S = {} THEN <<>> ELSE IF list[k + 1] \in Z THEN Add(W[S \ {k + 1}], list[k + 1]) ELSE W[S \ {k + 1}]
    BY <1>3, <2>2, <2>3, LookedIs
  <2> QED BY <2>1, <2>4, <2>5
<1> DEFINE Right(w, k) == w \in Seq(Int) /\ Ordered(w) /\ ToSet(w) = {x \in Z : \E i \in 1 .. k : x = list[i]}
           T == {k \in Nat : k <= n => Right(W[1 .. k], k)}
<1>7. 0 \in T
  <2>1. 1 .. 0 = {} /\ W[1 .. 0] = <<>>
    BY <1>5
  <2>2. <<>> \in Seq(Int) /\ DOMAIN <<>> = {}
    OBVIOUS
  <2>3. Ordered(<<>>) /\ ToSet(<<>>) = {}
    BY <2>2 DEF Ordered, ToSet
  <2> QED BY <2>1, <2>2, <2>3
<1>8. ASSUME NEW k \in Nat, k \in T PROVE k + 1 \in T
  <2> SUFFICES ASSUME k + 1 <= n PROVE Right(W[1 .. k + 1], k + 1)
    OBVIOUS
  <2>1. PICK w : w = W[1 .. k]
    OBVIOUS
  <2>2. Right(w, k)
    BY <1>2, <1>8, <2>1
  <2>3. PICK e \in Int : e = list[k + 1]
    BY <1>2
  <2>4. \A x : (\E i \in 1 .. k + 1 : x = list[i]) <=> x = e \/ (\E i \in 1 .. k : x = list[i])
    <3>1. \A i \in 1 .. k + 1 : i = k + 1 \/ i \in 1 .. k
      OBVIOUS
    <3>2. k + 1 \in 1 .. k + 1 /\ \A i \in 1 .. k : i \in 1 .. k + 1
      OBVIOUS
    <3> QED BY <2>3, <3>1, <3>2
  <2>5. CASE e \in Z
    <3>1. PICK new : new = Add(w, e)
      OBVIOUS
    <3>2. new \in Seq(Int) /\ Ordered(new) /\ ToSet(new) = ToSet(w) \union {e}
      BY <2>2, <3>1, AddInserts
    <3>3. Right(new, k + 1)
      BY <2>2, <2>4, <2>5, <3>2
    <3> QED BY <1>6, <2>1, <2>3, <2>5, <3>1, <3>3
  <2>6. CASE e \notin Z
    <3>1. Right(w, k + 1)
      BY <2>2, <2>4, <2>6
    <3> QED BY <1>6, <2>1, <2>3, <2>6, <3>1
  <2> QED BY <2>5, <2>6
<1>9. Right(W[1 .. n], n)
  <2>1. n \in T
    <3> HIDE DEF T
    <3> QED BY <1>7, <1>8, NatSetInduction
  <2> QED BY <1>2, <2>1
<1>10. ToSet(list) = {list[i] : i \in 1 .. n}
  BY <1>2 DEF ToSet
<1>11. Z \intersect ToSet(list) = {x \in Z : \E i \in 1 .. n : x = list[i]}
  BY <1>10
<1> QED BY <1>1, <1>4, <1>9, <1>11

\* A sequence has at most as many elements as it is long, and exactly as many
\* if no two of them are equal.
LEMMA ElementsOfSequence ==
  ASSUME NEW list \in Seq(Int)
  PROVE  /\ Cardinality(ToSet(list)) \in Nat /\ Cardinality(ToSet(list)) <= Len(list)
         /\ IsInjective(list) => Cardinality(ToSet(list)) = Len(list)
<1>1. PICK n \in Nat : n = Len(list) /\ DOMAIN list = 1 .. n
  OBVIOUS
<1>2. IsFiniteSet(1 .. n) /\ Cardinality(1 .. n) = n
  BY FS_Interval
<1>3. PICK S : S = ToSet(list) /\ S = {list[i] : i \in 1 .. n}
  BY <1>1 DEF ToSet
<1>4. list \in [1 .. n -> S]
  BY <1>1, <1>3
<1>5. list \in Surjection(1 .. n, S)
  BY <1>3, <1>4 DEF Surjection
<1>6. IsFiniteSet(S) /\ Cardinality(S) <= n /\ (Cardinality(S) = n <=> list \in Injection(1 .. n, S))
  BY <1>2, <1>5, FS_Surjection
<1>7. Cardinality(S) \in Nat
  BY <1>6, FS_CardinalityType
<1>8. IsInjective(list) => list \in Injection(1 .. n, S)
  BY <1>4 DEF Injection
<1> QED BY <1>1, <1>3, <1>6, <1>7, <1>8

\* t is the last k elements of a list.
IsEnd(t, list, n, k) == /\ t \in Seq(Int) /\ Len(t) = k
                        /\ \A i \in 1 .. k : n - k + i \in 1 .. n /\ t[i] = list[n - k + i]
Least(a, b) == IF a < b THEN a ELSE b

\* The latest versions are the last of the list, as many as there are to take.
LEMMA NewestAreLast ==
  ASSUME NEW list \in Seq(Int), Ordered(list), NEW num \in Nat \ {0}, NEW t, t = NewestFirst(list, num),
         NEW n, n = Len(list)
  PROVE  \E k \in Nat : k = Least(n, num) /\ IsEnd(t, list, n, k)
<1>1. n \in Nat /\ DOMAIN list = 1 .. n
  OBVIOUS
<1>2. PICK k \in Nat : k = IF n < num THEN n ELSE num
  BY <1>1
<1>3. k = Least(n, num)
  BY <1>2 DEF Least
<1> SUFFICES /\ t \in Seq(Int) /\ Len(t) = k
             /\ \A i \in 1 .. k : n - k + i \in 1 .. n /\ t[i] = list[n - k + i]
  BY <1>3 DEF IsEnd
<1>4. CASE n < num
  <2>1. t = list /\ k = n /\ n - k = 0
    BY <1>2, <1>1, <1>4 DEF NewestFirst
  <2>2. \A i \in 1 .. k : n - k + i = i
    BY <1>1, <2>1
  <2> QED BY <1>1, <2>1, <2>2
<1>5. CASE ~(n < num)
  <2>1. t = SubSeq(list, n - k + 1, n) /\ k = num /\ n - k + 1 \in 1 .. n
    BY <1>2, <1>1, <1>5 DEF NewestFirst
  <2>2. t \in Seq(Int) /\ Len(t) = k
    BY <1>1, <2>1
  <2>3. \A i \in 1 .. k : n - k + i \in 1 .. n
    BY <1>1, <2>1
  <2>4. ASSUME NEW i \in 1 .. k PROVE t[i] = list[n - k + i]
    <3>1. PICK a \in 1 .. n : a = n - k + 1
      BY <2>1
    <3>2. t = SubSeq(list, a, n) /\ i \in 1 .. n - a + 1 /\ a + i - 1 = n - k + i
      BY <1>1, <2>1, <3>1
    <3>3. \A j \in 1 .. n - a + 1 : SubSeq(list, a, n)[j] = list[a + j - 1]
      BY <1>1, <3>1
    <3> QED BY <3>2, <3>3
  <2> QED BY <2>2, <2>3, <2>4
<1> QED BY <1>4, <1>5

\* What latest() takes of a list in order.
LEMMA LatestTakesNewest ==
  ASSUME NEW list \in Seq(Int), Ordered(list), NEW num \in Nat \ {0}, NEW t, t = NewestFirst(list, num)
  PROVE  /\ ToSet(t) \subseteq ToSet(list)
         /\ \A v \in ToSet(t), w \in ToSet(list) \ ToSet(t) : w < v
         /\ ToSet(list) # {} => ToSet(t) # {}
         /\ Cardinality(ToSet(t)) <= num
         /\ IsInjective(list) => Cardinality(ToSet(t)) = IF Cardinality(ToSet(list)) < num THEN Cardinality(ToSet(list)) ELSE num
<1>1. PICK n \in Nat : n = Len(list) /\ DOMAIN list = 1 .. n
  OBVIOUS
<1>2. PICK k \in Nat : /\ k = IF n < num THEN n ELSE num
                       /\ t \in Seq(Int) /\ Len(t) = k
                       /\ \A i \in 1 .. k : n - k + i \in 1 .. n /\ t[i] = list[n - k + i]
  <2>1. PICK k \in Nat : k = Least(n, num) /\ IsEnd(t, list, n, k)
    BY <1>1, NewestAreLast
  <2> QED BY <2>1 DEF Least, IsEnd
<1>3. /\ t \in Seq(Int) /\ Len(t) = k /\ DOMAIN t = 1 .. k
      /\ \A i \in 1 .. k : n - k + i \in 1 .. n /\ t[i] = list[n - k + i]
  <2>1. DOMAIN t = 1 .. Len(t)
    BY <1>2
  <2> QED BY <1>2, <2>1
<1>4. ToSet(list) = {list[i] : i \in 1 .. n} /\ \A i \in 1 .. n : list[i] \in Int
  BY <1>1 DEF ToSet
<1>5. ToSet(t) = {t[i] : i \in 1 .. k}
  BY <1>3 DEF ToSet
<1>6. ToSet(t) \subseteq ToSet(list)
  BY <1>3, <1>4, <1>5
<1>7. ASSUME NEW v \in ToSet(t), NEW w \in ToSet(list) \ ToSet(t) PROVE w < v
  <2>1. PICK i \in 1 .. k : v = list[n - k + i] /\ n - k + i \in 1 .. n
    BY <1>3, <1>5, <1>7
  <2>2. PICK j \in 1 .. n : w = list[j]
    BY <1>4, <1>7
  <2>3. j <= n - k
    <3>1. SUFFICES ASSUME ~(j <= n - k) PROVE FALSE
      OBVIOUS
    <3>2. PICK l \in 1 .. k : l = j - (n - k)
      BY <1>2, <3>1
    <3>3. n - k + l = j
      BY <1>2, <3>2
    <3>4. w = t[l]
      BY <1>3, <2>2, <3>3
    <3> QED BY <1>5, <1>7, <3>4
  <2>4. j < n - k + i
    BY <1>2, <2>3
  <2>5. list[j] <= list[n - k + i]
    BY <1>1, <2>1, <2>2, <2>4 DEF Ordered
  <2>6. v # w /\ v \in Int /\ w \in Int
    BY <1>4, <1>6, <1>7
  <2> QED BY <2>1, <2>2, <2>5, <2>6
<1>8. ASSUME ToSet(list) # {} PROVE ToSet(t) # {}
  <2>1. n # 0
    BY <1>4, <1>8
  <2>2. 1 \in 1 .. k
    BY <1>2, <2>1
  <2> QED BY <1>5, <2>2
<1>9. Cardinality(ToSet(t)) \in Nat /\ Cardinality(ToSet(t)) <= k /\ k <= num
  BY <1>2, <1>3, ElementsOfSequence
<1>10. ASSUME IsInjective(list)
       PROVE  Cardinality(ToSet(t)) = IF Cardinality(ToSet(list)) < num THEN Cardinality(ToSet(list)) ELSE num
  <2>1. Cardinality(ToSet(list)) = n
    BY <1>1, <1>10, ElementsOfSequence
  <2>2. ASSUME NEW i \in 1 .. k, NEW j \in 1 .. k, t[i] = t[j] PROVE i = j
    <3>1. PICK a \in 1 .. n : a = n - k + i /\ t[i] = list[a]
      BY <1>3
    <3>2. PICK b \in 1 .. n : b = n - k + j /\ t[j] = list[b]
      BY <1>3
    <3>3. a = b
      BY <1>1, <1>10, <2>2, <3>1, <3>2 DEF IsInjective
    <3> QED BY <3>1, <3>2, <3>3
  <2>3. IsInjective(t)
    BY <1>3, <2>2 DEF IsInjective
  <2>4. Cardinality(ToSet(t)) = k
    BY <1>3, <2>3, ElementsOfSequence
  <2> QED BY <1>2, <2>1, <2>4
<1> QED BY <1>6, <1>7, <1>8, <1>9, <1>10

\* A directory's number and the int it becomes determine each other.
LEMMA NumbersAreInts ==
  ASSUME NEW a \in 0 .. Modulus - 1, NEW b \in 0 .. Modulus - 1
  PROVE  ToInt(a) \in Int /\ (ToInt(a) = ToInt(b) => a = b)
<1>1. PICK m \in Nat : m = Modulus /\ m > 0
  BY ModulusIsEven
<1>2. a % m = a /\ b % m = b
  BY <1>1
<1>3. PICK h \in Int : h = m \div 2
  BY <1>1
<1>4. /\ ToInt(a) = IF a >= h THEN a - m ELSE a
      /\ ToInt(b) = IF b >= h THEN b - m ELSE b
  BY <1>1, <1>2, <1>3 DEF ToInt
<1>5. a \in Int /\ b \in Int /\ a < m /\ b < m /\ a >= 0 /\ b >= 0
  BY <1>1
<1> QED BY <1>1, <1>3, <1>4, <1>5

\* The versions are the visited directories' in order, one for each number if
\* no two directories spell one, and what is selected is what the policy takes.
SelectInv ==
  /\ seen \subseteq Directories
  /\ versions \in Seq(Int) /\ Ordered(versions)
  /\ ToSet(versions) = Found
  /\ (\A d, e \in seen : Alike(d, e) => d = e) => IsInjective(versions)
  /\ \/ policy = NoPolicy
     \/ policy \in Policy /\ selected = SelectVersions(versions, policy)

LEMMA InitSelectInv == VInit => SelectInv
<1> SUFFICES ASSUME VInit PROVE SelectInv
  OBVIOUS
<1>1. versions = <<>> /\ seen = {} /\ policy = NoPolicy
  BY DEF VInit
<1>2. <<>> \in Seq(Int) /\ DOMAIN <<>> = {}
  OBVIOUS
<1>3. Ordered(versions) /\ ToSet(versions) = {} /\ IsInjective(versions)
  BY <1>1, <1>2 DEF Ordered, ToSet, IsInjective
<1>4. Found = {}
  BY <1>1 DEF Found
<1> QED BY <1>1, <1>2, <1>3, <1>4 DEF SelectInv

\* Every directory joins the list.
LEMMA VisitKeeps == ASSUME SelectInv, NEW d \in Directories, Visit(d) PROVE SelectInv'
<1>1. policy = NoPolicy /\ d \notin seen /\ seen' = seen \union {d} /\ policy' = policy
  BY DEF Visit
<1>2. \A x \in seen' : x \in Directories /\ x[1] \in 0 .. Modulus - 1
  BY <1>1, DirectoriesAreUint32 DEF SelectInv
<1>3. PICK v \in Int : v = ToInt(d[1])
  BY <1>1, <1>2, NumbersAreInts
<1>4. versions' = Add(versions, v)
  BY <1>3 DEF Visit
<1>5. PICK new : new = versions'
  OBVIOUS
<1>6. /\ new \in Seq(Int) /\ Ordered(new)
      /\ ToSet(new) = ToSet(versions) \union {v}
      /\ v \notin ToSet(versions) /\ IsInjective(versions) => IsInjective(new)
  BY <1>4, <1>5, AddInserts DEF SelectInv
<1>7. Found' = Found \union {v}
  BY <1>1, <1>3 DEF Found
<1>8. ASSUME \A x, y \in seen' : x[1] = y[1] => x = y PROVE IsInjective(new)
  <2>1. \A x, y \in seen : x[1] = y[1] => x = y
    BY <1>1, <1>8
  <2>2. v \notin Found
    <3>1. SUFFICES ASSUME NEW x \in seen, ToInt(x[1]) = v PROVE FALSE
      BY DEF Found
    <3>2. x[1] = d[1]
      BY <1>1, <1>2, <1>3, <3>1, NumbersAreInts
    <3> QED BY <1>1, <1>8, <3>2
  <2> QED BY <1>6, <2>1, <2>2 DEF SelectInv, Alike
<1>9. seen' \subseteq Directories
  BY <1>2
<1>10. (\A x, y \in seen' : Alike(x, y) => x = y) => IsInjective(versions')
  BY <1>5, <1>8 DEF Alike
<1>11. versions' \in Seq(Int) /\ Ordered(versions') /\ ToSet(versions') = Found'
  BY <1>5, <1>6, <1>7 DEF SelectInv
<1>12. (\A x, y \in seen : Alike(x, y) => x = y)' => IsInjective(versions')
  BY <1>10 DEF Alike
<1> QED BY <1>1, <1>9, <1>11, <1>12 DEF SelectInv, Ordered, ToSet, IsInjective, Found

LEMMA NextSelectInv == SelectInv /\ [VNext]_vvars => SelectInv'
<1> SUFFICES ASSUME SelectInv, [VNext]_vvars PROVE SelectInv'
  OBVIOUS
<1>1. CASE \E d \in Directories : Visit(d)
  BY <1>1, VisitKeeps
<1>2. ASSUME NEW p \in Policy, Select(p) PROVE SelectInv'
  <2>1. seen' = seen /\ versions' = versions /\ policy' = p /\ selected' = SelectVersions(versions, p)
    BY <1>2 DEF Select
  <2>2. policy' \in Policy /\ selected' = SelectVersions(versions', policy')
    BY <2>1
  <2> QED BY <2>1, <2>2 DEF SelectInv, Found, Alike
<1>3. CASE UNCHANGED vvars
  BY <1>3 DEF SelectInv, vvars, Found, Alike
<1> QED BY <1>1, <1>2, <1>3 DEF VNext

LEMMA SelectInvIsExact == SelectInv => SelectionIsExact
<1> SUFFICES ASSUME SelectInv PROVE SelectionIsExact
  OBVIOUS
<1>1. NoPolicy.choice = "pending"
  BY DEF NoPolicy
<1>2. LatestIsNewest
  <2> SUFFICES ASSUME policy.choice \in {"not_set", "latest"}
               PROVE  LET wanted == IF policy.choice = "latest" /\ policy.num > 0 THEN policy.num ELSE 1 IN
                        /\ Selected \subseteq Found
                        /\ \A v \in Selected, w \in Found \ Selected : w < v
                        /\ Found # {} => Selected # {}
                        /\ Cardinality(Selected) <= wanted
                        /\ (\A d, e \in seen : Alike(d, e) => d = e) =>
                             Cardinality(Selected) = IF Cardinality(Found) < wanted THEN Cardinality(Found) ELSE wanted
    BY DEF LatestIsNewest
  <2>1. policy \in Policy /\ selected = SelectVersions(versions, policy)
    BY <1>1 DEF SelectInv
  <2>2. PICK count : count = IF policy.choice = "latest" /\ policy.num > 0 THEN policy.num ELSE 1
    OBVIOUS
  <2>3. count \in Nat \ {0} /\ count = Num(policy)
    <3>1. CASE policy.choice = "not_set"
      <4>1. count = 1
        BY <2>2, <3>1
      <4>2. Num(policy) = 1
        BY <3>1 DEF Num
      <4> QED BY <4>1, <4>2
    <3>2. CASE policy.choice = "latest"
      <4>1. PICK m : m = policy.num
        OBVIOUS
      <4>2. m \in 0 .. MaxNum
        BY <2>1, <3>2, <4>1 DEF Policy
      <4>3. m \in Nat
        BY <4>2, MaxNumNat
      <4>4. count = IF m > 0 THEN m ELSE 1
        BY <2>2, <3>2, <4>1
      <4>5. Num(policy) = IF m < 1 THEN 1 ELSE m
        BY <3>2, <4>1 DEF Num
      <4> QED BY <4>3, <4>4, <4>5
    <3> QED BY <3>1, <3>2
  <2>4. selected = NewestFirst(versions, count)
    BY <2>1, <2>3 DEF SelectVersions
  <2>5. versions \in Seq(Int) /\ Ordered(versions) /\ ToSet(versions) = Found
    BY DEF SelectInv
  <2>6. /\ Selected \subseteq Found
        /\ \A v \in Selected, w \in Found \ Selected : w < v
        /\ Found # {} => Selected # {}
        /\ Cardinality(Selected) <= count
        /\ IsInjective(versions) => Cardinality(Selected) = IF Cardinality(Found) < count THEN Cardinality(Found) ELSE count
    BY <2>3, <2>4, <2>5, LatestTakesNewest DEF Selected
  <2> QED BY <2>2, <2>6 DEF SelectInv
<1>3. SpecificServesNamed
  <2> SUFFICES ASSUME policy.choice = "specific", \A n \in policy.named : ToInt(n) = n
               PROVE  Selected = policy.named \intersect Found
    BY DEF SpecificServesNamed
  <2>1. policy \in Policy /\ selected = SelectVersions(versions, policy)
    BY <1>1 DEF SelectInv
  <2>2. selected = SpecificOnly(versions, policy.named)
    BY <2>1 DEF SelectVersions
  <2>3. versions \in Seq(Int) /\ ToSet(versions) = Found
    BY DEF SelectInv
  <2>4. ToSet(selected) = {ToInt(v) : v \in policy.named} \intersect Found
    BY <2>2, <2>3, SpecificFindsNamed
  <2>5. {ToInt(v) : v \in policy.named} = policy.named
    OBVIOUS
  <2> QED BY <2>4, <2>5 DEF Selected
<1> QED BY <1>2, <1>3 DEF SelectionIsExact

\* Every policy selects what it says of the directories that were found, in
\* whatever order they were visited and however many of them there are.
THEOREM SelectionsAreExact == VSpec => []SelectionIsExact
<1>1. VInit => SelectInv
  BY InitSelectInv
<1>2. SelectInv /\ [VNext]_vvars => SelectInv'
  BY NextSelectInv
<1>3. SelectInv => SelectionIsExact
  BY SelectInvIsExact
<1> QED BY <1>1, <1>2, <1>3, PTL DEF VSpec

(***************************************************************************)
(* RestApi.  A target has one way to be read with a name, so what it says  *)
(* is what the expressions find; the order of the scores is a permutation, *)
(* so its first places are the best classes of a row.                      *)
(***************************************************************************)
\* Where a name and a version end in the rest of a target.
NameEnds(rest, k) == k >= 2 /\ rest[1] = Slash /\ \A i \in 2 .. k : rest[i] \notin {Slash, Colon}
VersionEnds(rest, k, l) ==
  l = k \/ (l = k + 4 /\ rest[k + 1] = Slash /\ rest[k + 3] = Slash /\ rest[k + 4] \in DOMAIN RaNumber)

LEMMA NameIs ==
  ASSUME NEW rest \in Seq(DOMAIN Lower), NEW k \in 0 .. Len(rest), rest[1] = Slash, IsName(SubSeq(rest, 2, k))
  PROVE  NameEnds(rest, k)
<1>1. PICK s : s = SubSeq(rest, 2, k)
  OBVIOUS
<1>2. k >= 2
  <2>1. SUFFICES ASSUME k < 2 PROVE s = <<>>
    BY <1>1 DEF IsName
  <2> QED BY <1>1, <2>1
<1>3. ASSUME NEW i \in 2 .. k PROVE rest[i] \notin {Slash, Colon}
  <2>1. PICK j : j = i - 1
    OBVIOUS
  <2>2. j \in 1 .. k - 1 /\ j \in DOMAIN s /\ s[j] = rest[i]
    BY <1>1, <1>2, <1>3, <2>1
  <2> QED BY <1>1, <2>2 DEF IsName
<1> QED BY <1>2, <1>3 DEF NameEnds

LEMMA VersionIs ==
  ASSUME NEW rest \in Seq(DOMAIN Lower), NEW k \in 0 .. Len(rest), NEW l \in 0 .. Len(rest), k <= l,
         IsVersion(SubSeq(rest, k + 1, l))
  PROVE  /\ l = k + 4 /\ rest[k + 1] = Slash /\ rest[k + 3] = Slash /\ rest[k + 4] \in DOMAIN RaNumber
         /\ SubSeq(rest, k + 1, l)[4] = rest[l]
<1>1. PICK s : s = SubSeq(rest, k + 1, l)
  OBVIOUS
<1>2. s \in Seq(DOMAIN Lower) /\ Len(s) = l - k
  BY <1>1
<1>3. Len(s) = 4 /\ s[4] \in DOMAIN RaNumber /\ Lowered(SubSeq(s, 1, 3)) = <<Slash, "versions", Slash>>
  BY <1>1 DEF IsVersion
<1>4. l = k + 4
  <2>1. k \in Nat /\ l \in Nat
    OBVIOUS
  <2>2. PICK n : n = Len(s)
    OBVIOUS
  <2>3. n = l - k /\ n = 4
    BY <1>2, <1>3, <2>2
  <2> QED BY <2>1, <2>3
<1>5. s[1] = rest[k + 1] /\ s[3] = rest[k + 3] /\ s[4] = rest[k + 4]
  BY <1>1, <1>4
<1>6. PICK h : h = SubSeq(s, 1, 3)
  OBVIOUS
<1>7. DOMAIN h = 1 .. 3 /\ h[1] = s[1] /\ h[3] = s[3] /\ s[1] \in DOMAIN Lower /\ s[3] \in DOMAIN Lower
  <2>1. DOMAIN s = 1 .. 4
    BY <1>2, <1>3
  <2>2. h = [i \in 1 .. 3 |-> s[i]]
    BY <1>2, <1>3, <1>6
  <2>3. PICK T : T = DOMAIN Lower
    OBVIOUS
  <2>4. s \in Seq(T)
    BY <1>2, <2>3
  <2>5. s[1] \in T /\ s[3] \in T
    <3>1. Len(s) = 4
      BY <1>3
    <3>2. \A i \in 1 .. Len(s) : s[i] \in T
      BY <2>4, ElementOfSeq
    <3>3. 1 \in 1 .. 4 /\ 3 \in 1 .. 4
      OBVIOUS
    <3> QED BY <3>1, <3>2, <3>3
  <2> QED BY <2>2, <2>3, <2>5
<1>8. PICK low : low = Lowered(h) /\ low = [i \in 1 .. 3 |-> Lower[h[i]]]
  BY <1>7 DEF Lowered
<1>9. low[1] = Slash /\ low[3] = Slash
  BY <1>3, <1>6, <1>8
<1>10. Lower[s[1]] = Slash /\ Lower[s[3]] = Slash
  BY <1>7, <1>8, <1>9
<1>11. s[1] = Slash /\ s[3] = Slash
  BY <1>7, <1>10, RaTokensAreWords
<1> QED BY <1>1, <1>3, <1>4, <1>5, <1>11

\* A target has one way to be read with a name.
LEMMA OneName ==
  ASSUME NEW rest, NEW k \in Nat, NEW l \in Nat, NEW n \in Nat,
         NameEnds(rest, k), VersionEnds(rest, k, l), n = 0 \/ NameEnds(rest, n), VersionEnds(rest, n, l)
  PROVE  n = k
<1>1. CASE n = 0
  <2>1. k >= 2 /\ l >= k
    BY DEF NameEnds, VersionEnds
  <2>2. l = 4 /\ rest[3] = Slash
    BY <1>1, <2>1 DEF VersionEnds
  <2>3. k < 3
    <3>1. SUFFICES ASSUME k >= 3 PROVE FALSE
      OBVIOUS
    <3>2. 3 \in 2 .. k
      BY <3>1
    <3> QED BY <2>2, <3>2 DEF NameEnds
  <2>4. k = 2
    BY <2>1, <2>3
  <2> QED BY <2>2, <2>4 DEF VersionEnds
<1>2. CASE NameEnds(rest, n) /\ n < k
  <2>1. rest[n + 1] = Slash
    BY <1>2 DEF VersionEnds
  <2>2. n + 1 \in 2 .. k
    BY <1>2 DEF NameEnds
  <2> QED BY <2>1, <2>2 DEF NameEnds
<1>3. CASE NameEnds(rest, n) /\ k < n
  <2>1. rest[k + 1] = Slash
    BY <1>3 DEF VersionEnds
  <2>2. k + 1 \in 2 .. n
    BY <1>3 DEF NameEnds
  <2> QED BY <1>3, <2>1, <2>2 DEF NameEnds
<1> QED BY <1>1, <1>2, <1>3

\* m is the name and the version that end at k and l.
ReadsAs(rest, k, l, m) ==
  /\ k \in Nat /\ l \in Nat /\ k <= l /\ l <= Len(rest) /\ NameEnds(rest, k) /\ VersionEnds(rest, k, l)
  /\ m.name = SubSeq(rest, 2, k) /\ VersionOf(m) = IF l = k THEN Unset ELSE RaNumber[rest[l]]

LEMMA EmptyIsShort == Len(<<>>) = 0
  OBVIOUS

LEMMA NoNameEnds == \A rest : SubSeq(rest, 2, 0) = <<>>
  OBVIOUS

LEMMA ReadingIs ==
  ASSUME NEW rest \in Seq(DOMAIN Lower), NEW tails, NEW m \in Readings(rest, tails), m.name # <<>>
  PROVE  \E k, l \in 0 .. Len(rest) :
           ReadsAs(rest, k, l, m) /\ m.tail = SubSeq(rest, l + 1, Len(rest)) /\ m.tail \in tails
<1>1. PICK k, l \in 0 .. Len(rest) : Reads(rest, k, l) /\ m = Reading(rest, k, l) /\ m.tail \in tails
  BY DEF Readings
<1>2. /\ m.name = SubSeq(rest, 2, k) /\ m.version = SubSeq(rest, k + 1, l)
      /\ m.tail = SubSeq(rest, l + 1, Len(rest))
  BY <1>1 DEF Reading
<1>3. k # 0
  BY <1>2, NoNameEnds
<1>4. k <= l /\ NameEnds(rest, k)
  BY <1>1, <1>3, NameIs DEF Reads
<1>5. CASE k = l
  <2>1. m.version = <<>>
    BY <1>2, <1>5
  <2>2. VersionOf(m) = Unset
    BY <2>1 DEF VersionOf
  <2> QED BY <1>1, <1>2, <1>4, <1>5, <2>2 DEF ReadsAs, VersionEnds
<1>6. CASE k # l
  <2>1. IsVersion(SubSeq(rest, k + 1, l))
    BY <1>1, <1>6 DEF Reads
  <2>2. VersionEnds(rest, k, l) /\ m.version[4] = rest[l]
    <3>1. /\ l = k + 4 /\ rest[k + 1] = Slash /\ rest[k + 3] = Slash /\ rest[k + 4] \in DOMAIN RaNumber
          /\ SubSeq(rest, k + 1, l)[4] = rest[l]
      BY <1>4, <2>1, VersionIs
    <3>2. VersionEnds(rest, k, l)
      BY <3>1 DEF VersionEnds
    <3> QED BY <1>2, <3>1, <3>2
  <2>3. m.version # <<>>
    <3>1. PICK version : version = m.version
      OBVIOUS
    <3>2. Len(version) = 4
      BY <1>2, <2>1, <3>1 DEF IsVersion
    <3>3. ASSUME version = <<>> PROVE FALSE
      <4>1. Len(version) = 0
        BY <3>3, EmptyIsShort, Zenon
      <4> QED BY <3>2, <4>1
    <3> QED BY <3>1, <3>3
  <2>4. VersionOf(m) = RaNumber[rest[l]]
    BY <2>2, <2>3 DEF VersionOf
  <2>5. k \in Nat /\ l \in Nat /\ l <= Len(rest)
    OBVIOUS
  <2>6. ReadsAs(rest, k, l, m)
    BY <1>2, <1>4, <1>6, <2>2, <2>4, <2>5 DEF ReadsAs
  <2> QED BY <1>1, <1>2, <2>6
<1> QED BY <1>5, <1>6

\* A target that ends in mark and word asks for op; v is where that begins.
EndsIn(rest, l, mark, word) ==
  Len(rest) >= 2 /\ l = Len(rest) - 2 /\ rest[Len(rest) - 1] = mark /\ rest[Len(rest)] = word

LEMMA TailIs ==
  ASSUME NEW rest \in Seq(DOMAIN Lower), NEW l \in 0 .. Len(rest), NEW tail,
         tail = SubSeq(rest, l + 1, Len(rest)), Len(tail) = 2
  PROVE  EndsIn(rest, l, tail[1], tail[2])
<1>1. PICK n \in Nat : n = Len(rest)
  OBVIOUS
<1>2. l \in Nat /\ Len(tail) = n - l
  BY <1>1
<1>3. n = l + 2
  <2>1. PICK d : d = Len(tail)
    OBVIOUS
  <2>2. d = n - l /\ d = 2
    BY <1>2, <2>1
  <2> QED BY <1>1, <1>2, <2>2
<1>4. tail[1] = rest[l + 1] /\ tail[2] = rest[l + 2]
  <2>1. PICK first : first = l + 1
    OBVIOUS
  <2>2. tail = SubSeq(rest, first, n) /\ first \in Nat /\ first >= 1
    BY <1>1, <1>2, <2>1
  <2>3. \A i \in 1 .. 2 : tail[i] = rest[first + i - 1]
    BY <1>1, <1>2, <1>3, <2>1, <2>2
  <2>4. tail[1] = rest[first + 1 - 1] /\ tail[2] = rest[first + 2 - 1]
    BY <2>3
  <2>5. first + 1 - 1 = l + 1 /\ first + 2 - 1 = l + 2
    BY <1>2, <2>1
  <2> QED BY <2>4, <2>5
<1>5. l + 1 = n - 1 /\ l + 2 = n /\ n >= 2 /\ l = n - 2
  BY <1>2, <1>3
<1> QED BY <1>1, <1>4, <1>5 DEF EndsIn

LEMMA RunIs ==
  ASSUME NEW target, Rest(target) \in Seq(DOMAIN Lower), NEW verb, NEW m \in ModelRuns(target, verb)
  PROVE  /\ HasPrefix(target)
         /\ \E k, l \in Nat : \E word : /\ ReadsAs(Rest(target), k, l, m)
                                         /\ EndsIn(Rest(target), l, Colon, word) /\ Lower[word] = verb
<1>1. PICK rest : rest = Rest(target)
  OBVIOUS
<1>2. PICK tails : tails = {tail \in Suffixes(rest) : Len(tail) = 2 /\ tail[1] = Colon /\ Lower[tail[2]] = verb}
  OBVIOUS
<1>3. HasPrefix(target) /\ m \in Readings(rest, tails) /\ m.name # <<>>
  BY <1>1, <1>2 DEF ModelRuns
<1>4. rest \in Seq(DOMAIN Lower)
  BY <1>1
<1>5. PICK k, l \in 0 .. Len(rest) :
           ReadsAs(rest, k, l, m) /\ m.tail = SubSeq(rest, l + 1, Len(rest)) /\ m.tail \in tails
  BY <1>3, <1>4, ReadingIs
<1>6. PICK tail : tail = m.tail
  OBVIOUS
<1>7. Len(tail) = 2 /\ tail[1] = Colon /\ Lower[tail[2]] = verb
  BY <1>2, <1>5, <1>6
<1>8. EndsIn(rest, l, tail[1], tail[2])
  BY <1>4, <1>5, <1>6, <1>7, TailIs
<1>9. EndsIn(rest, l, Colon, tail[2]) /\ k \in Nat /\ l \in Nat
  BY <1>7, <1>8
<1> QED BY <1>1, <1>3, <1>5, <1>7, <1>9

LEMMA MetaIs ==
  ASSUME NEW target, Rest(target) \in Seq(DOMAIN Lower), NEW m \in ModelStatus(target),
         m.name # <<>>, m.tail = <<Slash, "metadata">>
  PROVE  /\ HasPrefix(target)
         /\ \E k, l \in Nat : ReadsAs(Rest(target), k, l, m) /\ EndsIn(Rest(target), l, Slash, "metadata")
<1>1. PICK rest : rest = Rest(target)
  OBVIOUS
<1>2. PICK tails : tails = {tail \in Suffixes(rest) : tail = <<>> \/ Lowered(tail) = <<Slash, "metadata">>}
  OBVIOUS
<1>3. HasPrefix(target) /\ m \in Readings(rest, tails)
  BY <1>1, <1>2 DEF ModelStatus
<1>4. rest \in Seq(DOMAIN Lower)
  BY <1>1
<1>5. PICK k, l \in 0 .. Len(rest) :
           ReadsAs(rest, k, l, m) /\ m.tail = SubSeq(rest, l + 1, Len(rest)) /\ m.tail \in tails
  BY <1>3, <1>4, ReadingIs
<1>6. PICK tail : tail = m.tail
  OBVIOUS
<1>7. Len(tail) = 2 /\ tail[1] = Slash /\ tail[2] = "metadata"
  BY <1>6
<1>8. EndsIn(rest, l, tail[1], tail[2])
  BY <1>4, <1>5, <1>6, <1>7, TailIs
<1>9. EndsIn(rest, l, Slash, "metadata") /\ k \in Nat /\ l \in Nat
  BY <1>7, <1>8
<1> QED BY <1>1, <1>3, <1>5, <1>9

\* What a mark and a word ask for.
AsksFor(op, mark, word) ==
  \/ op = "predict" /\ mark = Colon /\ Lower[word] = "predict"
  \/ op = "task" /\ mark = Colon /\ Lower[word] = "ml_predict"
  \/ op = "meta" /\ mark = Slash /\ word = "metadata"

LEMMA MarksDiffer == Slash # Colon
  BY Zenon DEF Slash, Colon

\* A target that asks for something has no name and no version that ends it.
LEMMA NotTheEnd ==
  ASSUME NEW rest, Len(rest) \in Nat, NEW n \in Nat, NEW v \in Nat, NEW l \in Nat, NEW op, NEW mark, NEW word, l >= 2,
         EndsIn(rest, l, mark, word), AsksFor(op, mark, word), n = 0 \/ NameEnds(rest, n), VersionEnds(rest, n, v)
  PROVE  v # Len(rest)
<1>1. PICK end \in Nat : end = Len(rest)
  OBVIOUS
<1>2. end = l + 2 /\ rest[end - 1] = mark /\ rest[end] = word
  BY <1>1 DEF EndsIn
<1>3. SUFFICES ASSUME v = end PROVE FALSE
  BY <1>1
<1>4. CASE v = n
  <2>1. NameEnds(rest, n) /\ end - 1 \in 2 .. n
    BY <1>2, <1>3, <1>4
  <2>2. mark \notin {Slash, Colon}
    BY <1>2, <2>1 DEF NameEnds
  <2> QED BY <2>2 DEF AsksFor
<1>5. CASE v # n
  <2>1. v = n + 4 /\ rest[n + 3] = Slash /\ rest[n + 4] \in DOMAIN RaNumber
    BY <1>5 DEF VersionEnds
  <2>2. n + 3 = end - 1 /\ n + 4 = end
    BY <1>3, <2>1
  <2>3. mark = Slash /\ word \in DOMAIN RaNumber
    BY <1>2, <2>1, <2>2
  <2>4. word = "metadata"
    BY <2>3, MarksDiffer DEF AsksFor
  <2> QED BY <2>3, <2>4, RaTokensAreWords
<1> QED BY <1>4, <1>5

\* What a target says is what the expressions find in it.
LEMMA SaysWhatItReads ==
  ASSUME NEW target, Rest(target) \in Seq(DOMAIN Lower), HasPrefix(target), NEW say, RaSays(target, say),
         NEW k, NEW l, NEW m, ReadsAs(Rest(target), k, l, m),
         NEW op, NEW mark, NEW word, EndsIn(Rest(target), l, mark, word), AsksFor(op, mark, word)
  PROVE  say.op = op /\ say.name = m.name /\ say.version = VersionOf(m)
<1>1. PICK rest : rest = Rest(target)
  OBVIOUS
<1>2. rest \in Seq(DOMAIN Lower) /\ ReadsAs(rest, k, l, m) /\ EndsIn(rest, l, mark, word)
  BY <1>1
<1>3. PICK length \in Nat : length = Len(rest)
  BY <1>2
<1>4. PICK predicts, tasks, metas \in BOOLEAN :
        /\ predicts <=> length >= 2 /\ rest[length - 1] = Colon /\ Lower[rest[length]] = "predict"
        /\ tasks <=> length >= 2 /\ rest[length - 1] = Colon /\ Lower[rest[length]] = "ml_predict"
        /\ metas <=> length >= 2 /\ rest[length - 1] = Slash /\ rest[length] = "metadata"
  OBVIOUS
<1>5. PICK n, v \in 0 .. length :
        /\ \/ n = 0 /\ say.name = <<>>
           \/ n >= 2 /\ rest[1] = Slash /\ say.name = SubSeq(rest, 2, n) /\ IsName(say.name)
        /\ \/ v = n /\ say.version = Unset
           \/ v >= n /\ IsVersion(SubSeq(rest, n + 1, v)) /\ say.version = RaNumber[rest[v]]
        /\ \/ say.op = "predict" /\ v = length - 2 /\ predicts
           \/ say.op = "task" /\ v = length - 2 /\ tasks
           \/ say.op = "meta" /\ v = length - 2 /\ metas
           \/ say.op = "none" /\ (v = length \/ ~(predicts \/ tasks \/ metas))
  BY <1>1, <1>3, <1>4 DEF RaSays
<1>6. n = 0 \/ (NameEnds(rest, n) /\ say.name = SubSeq(rest, 2, n))
  BY <1>2, <1>3, <1>5, NameIs
<1>7. VersionEnds(rest, n, v) /\ say.version = IF v = n THEN Unset ELSE RaNumber[rest[v]]
  <2>1. CASE v = n /\ say.version = Unset
    BY <2>1 DEF VersionEnds
  <2>2. CASE v >= n /\ IsVersion(SubSeq(rest, n + 1, v)) /\ say.version = RaNumber[rest[v]]
    <3>1. v = n + 4 /\ rest[n + 1] = Slash /\ rest[n + 3] = Slash /\ rest[n + 4] \in DOMAIN RaNumber
      BY <1>2, <1>3, <2>2, VersionIs
    <3>2. n \in Nat /\ v # n
      BY <3>1
    <3> QED BY <2>2, <3>1, <3>2 DEF VersionEnds
  <2> QED BY <1>5, <2>1, <2>2
<1>8. k \in Nat /\ l \in Nat /\ k >= 2 /\ l >= 2 /\ NameEnds(rest, k) /\ VersionEnds(rest, k, l)
  BY <1>2 DEF ReadsAs, NameEnds
<1>9. v # length
  BY <1>2, <1>3, <1>6, <1>7, <1>8, NotTheEnd
<1>10. length >= 2 /\ l = length - 2 /\ rest[length - 1] = mark /\ rest[length] = word
  BY <1>2, <1>3 DEF EndsIn
<1>11. \/ op = "predict" /\ predicts /\ ~tasks /\ ~metas
       \/ op = "task" /\ tasks /\ ~predicts /\ ~metas
       \/ op = "meta" /\ metas /\ ~predicts /\ ~tasks
  BY <1>4, <1>10, MarksDiffer DEF AsksFor
<1>12. say.op = op /\ v = l
  BY <1>5, <1>9, <1>10, <1>11
<1>13. n = k
  BY <1>6, <1>7, <1>8, <1>12, OneName
<1>14. n # 0
  BY <1>8, <1>13
<1>15. m.name = SubSeq(rest, 2, k) /\ VersionOf(m) = IF l = k THEN Unset ELSE RaNumber[rest[l]]
  BY <1>2 DEF ReadsAs
<1> QED BY <1>6, <1>7, <1>12, <1>13, <1>14, <1>15
\* The rows of a tensor are sequences of its scores.
LEMMA RowsAre ==
  ASSUME NEW content \in Seq(Int), NEW batch \in Int, batch >= 1
  PROVE  DOMAIN Rows(content, batch) = 1 .. batch /\ \A i \in 1 .. batch : Rows(content, batch)[i] \in Seq(Int)
<1>1. PICK length \in Nat : length = Len(content)
  OBVIOUS
<1>2. PICK n : n = length \div batch
  OBVIOUS
<1>3. n \in Nat /\ batch * n <= length
  BY <1>2
<1>4. Rows(content, batch) = [i \in 1 .. batch |-> SubSeq(content, (i - 1) * n + 1, i * n)]
  BY <1>1, <1>2 DEF Rows
<1>5. ASSUME NEW i \in 1 .. batch PROVE SubSeq(content, (i - 1) * n + 1, i * n) \in Seq(Int)
  <2>1. PICK first, last : first = (i - 1) * n + 1 /\ last = i * n
    OBVIOUS
  <2>2. i - 1 \in Nat /\ i \in Nat /\ batch - i \in Nat
    OBVIOUS
  <2>3. (i - 1) * n \in Nat /\ i * n \in Nat /\ (batch - i) * n \in Nat
    BY <1>3, <2>2
  <2>4. first \in Nat /\ first >= 1 /\ last \in Nat
    BY <2>1, <2>3
  <2>5. batch * n = i * n + (batch - i) * n
    BY <1>3, <2>2
  <2>6. last <= length
    BY <1>3, <2>1, <2>3, <2>5
  <2>7. SubSeq(content, first, last) \in Seq(Int)
    BY <1>1, <2>4, <2>6
  <2> QED BY <2>1, <2>7
<1> QED BY <1>4, <1>5

\* A list of the best classes of a row has as many as were asked for, if there
\* are as many, and no class that it leaves out is better than one of them.
Best(listed, row, count) ==
  /\ Cardinality(listed) = Min({count, Len(row)})
  /\ \A k \in listed, l \in DOMAIN row \ listed : row[l] <= row[k]

LEMMA LesserIs == ASSUME NEW a \in Nat, NEW b \in Nat PROVE Min({a, b}) = IF a <= b THEN a ELSE b
<1>1. Min({a, b}) = CHOOSE x \in {a, b} : \A y \in {a, b} : x <= y
  BY DEF Min
<1>2. PICK c : c = IF a <= b THEN a ELSE b
  OBVIOUS
<1>3. \A x \in {a, b} : (\A y \in {a, b} : x <= y) => x = c
  BY <1>2
<1>4. c \in {a, b} /\ \A y \in {a, b} : c <= y
  BY <1>2
<1>5. PICK d : d = CHOOSE x \in {a, b} : \A y \in {a, b} : x <= y
  OBVIOUS
<1>6. d \in {a, b} /\ \A y \in {a, b} : d <= y
  BY <1>4, <1>5
<1> QED BY <1>1, <1>2, <1>3, <1>5, <1>6

LEMMA TopIsBest ==
  ASSUME NEW row \in Seq(Int), NEW count \in Nat, NEW top \in TopClasses(row, count)
  PROVE  Best(Range(top), row, count)
<1>1. PICK n \in Nat : n = Len(row) /\ DOMAIN row = 1 .. n
  OBVIOUS
<1>2. PICK c : c = Min({count, n})
  OBVIOUS
<1>3. c \in 0 .. n
  BY <1>2, LesserIs
<1>4. PICK p \in RaOrders(row) : top = SubSeq(p, 1, c)
  BY <1>1, <1>2 DEF TopClasses, ClassCount
<1>5. /\ p \in [1 .. n -> 1 .. n] /\ IsInjective(p)
      /\ \A i, j \in 1 .. n : i < j => row[p[i]] >= row[p[j]]
  BY <1>1, <1>4 DEF RaOrders
<1>6. top = [i \in 1 .. c |-> p[i]]
  BY <1>3, <1>4, <1>5
<1>7. PICK listed : listed = Range(top)
  OBVIOUS
<1>8. listed = {p[i] : i \in 1 .. c}
  BY <1>6, <1>7 DEF Range
<1>9. Cardinality(listed) = c
  <2>1. top \in Injection(1 .. c, listed)
    <3>1. top \in [1 .. c -> listed]
      BY <1>6, <1>8
    <3>2. 1 .. c \subseteq 1 .. n
      BY <1>3
    <3>3. IsInjective(top)
      BY <1>5, <1>6, <3>2 DEF IsInjective
    <3> QED BY <3>1, <3>3 DEF Injection
  <2>2. top \in Surjection(1 .. c, listed)
    BY <1>6, <1>8 DEF Surjection
  <2>3. IsFiniteSet(1 .. c) /\ Cardinality(1 .. c) = c
    BY <1>3, FS_Interval
  <2> QED BY <2>1, <2>2, <2>3, FS_Surjection
<1>10. ASSUME NEW k \in listed, NEW l \in 1 .. n, l \notin listed PROVE row[l] <= row[k]
  <2>1. p \in Surjection(1 .. n, 1 .. n)
    <3>1. p \in Injection(1 .. n, 1 .. n)
      BY <1>5 DEF Injection
    <3>2. IsFiniteSet(1 .. n)
      BY FS_Interval
    <3> QED BY <3>1, <3>2, FS_Injection
  <2>2. PICK j \in 1 .. n : p[j] = l
    BY <2>1 DEF Surjection
  <2>3. PICK i \in 1 .. c : p[i] = k
    BY <1>8
  <2>4. ~(j \in 1 .. c)
    BY <1>8, <1>10, <2>2
  <2>5. i < j /\ i \in 1 .. n
    BY <1>3, <2>4
  <2>6. row[k] >= row[l]
    BY <1>5, <2>2, <2>3, <2>5
  <2>7. k \in 1 .. n /\ row[k] \in Int /\ row[l] \in Int
    BY <1>1, <1>5, <2>3, <2>5, ElementOfSeq
  <2> QED BY <2>6, <2>7
<1> QED BY <1>1, <1>2, <1>7, <1>9, <1>10 DEF Best
\* A request is one of those that are received, and what is read of it so far.
Requests == [method : Methods, target : Seq(DOMAIN Lower), body : Seq(RaChunks), chunks : Seq(RaChunks), say : {uri.say : uri \in RaUris}]
ReqIsTyped ==
  raPc # "idle" => raReq \in Requests /\ Dispatches(raReq.target) /\ RaSays(raReq.target, raReq.say)
\* What was not answered yet has no response; an operation has a message.
InOrder ==
  /\ raPc \in {"idle", "read", "route", "predict", "task", "meta"} => raRsp = NoRsp
  /\ raPc \in {"predict", "task", "meta"} => raReq.body # <<>> \/ raPc = "meta"
  /\ raPc \in {"predict", "task", "meta"} => raCall.op = raPc
  /\ raPc = "write" => raRsp.done /\ raStatus = "OK" /\ (raCall.op # "meta" => Runnable(raCall))
  /\ raReply = [code |-> raReply.code, text |-> raReply.text]
RaInv == ReqIsTyped /\ InOrder /\ RestAnswers

LEMMA RestStarts == RaInit => RaInv
  BY DEF RaInit, RaInv, ReqIsTyped, InOrder, RestAnswers, GoesWhereItSays, AnswersFit, ClassesAreBest, NoRsp, NoReply

\* The rest of a target is made of tokens.
LEMMA RestIsTokens ==
  ASSUME NEW target \in Seq(DOMAIN Lower)
  PROVE  Rest(target) \in Seq(DOMAIN Lower)
<1>1. PICK length \in Nat : length = Len(target)
  OBVIOUS
<1>2. Len(Prefix) = 4
  BY DEF Prefix
<1>3. Rest(target) = SubSeq(target, 5, length)
  BY <1>1, <1>2 DEF Rest
<1> QED BY <1>1, <1>3

\* Nothing but the response changes the classes.
LEMMA ClassesStay ==
  ASSUME ClassesAreBest, UNCHANGED <<raReq, raRsp>>
  PROVE  ClassesAreBest'
  BY DEF ClassesAreBest, Rows

LEMMA NoClasses == ASSUME raRsp' = NoRsp PROVE ClassesAreBest'
  BY DEF ClassesAreBest, NoRsp

\* A request that fails in an operation or before it.
LEMMA FailureIsFine ==
  ASSUME RaInv, raPc # "idle", NEW status, status # "OK", NEW text, Fails(status, text)
  PROVE  RaInv'
<1>1. raPc' = "reply" /\ raStatus' = status /\ raReply' = [raReply EXCEPT !.text = text] /\ UNCHANGED <<raReq, raCall, raRsp>>
  BY DEF Fails, Answers
<1>2. ReqIsTyped'
  BY <1>1 DEF RaInv, ReqIsTyped
<1>3. InOrder'
  BY <1>1 DEF RaInv, InOrder
<1>4. GoesWhereItSays' /\ AnswersFit'
  BY <1>1 DEF GoesWhereItSays, AnswersFit
<1>5. ClassesAreBest'
  BY <1>1, ClassesStay DEF RaInv, RestAnswers
<1> QED BY <1>2, <1>3, <1>4, <1>5 DEF RaInv, RestAnswers

\* A request is received and read.
LEMMA ReadingIsFine ==
  ASSUME RaInv
  PROVE  /\ \A method : \A uri \in RaUris, body \in RaBodies : Receive(method, uri, body) => RaInv'
         /\ ReadChunk \/ EndOfBody => RaInv'
<1>1. ASSUME NEW method, NEW uri \in RaUris, NEW body \in RaBodies, Receive(method, uri, body) PROVE RaInv'
  <2>1. PICK target : target = PathAndQuery(uri)
    OBVIOUS
  <2>2. target \in Seq(DOMAIN Lower) /\ Dispatches(target) /\ RaSays(target, uri.say)
    BY <1>1, <2>1, RaUrisSay DEF Receive
  <2>3. /\ method \in Methods
        /\ raReq' = [method |-> method, target |-> target, body |-> <<>>, chunks |-> body, say |-> uri.say]
        /\ raPc' = "read" /\ raStatus' = "INVALID_ARGUMENT" /\ raCall' = NoCall /\ raRsp' = NoRsp /\ raReply' = NoReply
    BY <1>1, <2>1 DEF Receive
  <2>4. body \in Seq(RaChunks) /\ <<>> \in Seq(RaChunks)
    BY RaDataIsTyped
  <2>5. ReqIsTyped'
    BY <2>2, <2>3, <2>4 DEF ReqIsTyped, Requests
  <2>6. InOrder'
    BY <2>3 DEF InOrder, NoReply
  <2>7. GoesWhereItSays' /\ AnswersFit' /\ ClassesAreBest'
    BY <2>3, NoClasses DEF GoesWhereItSays, AnswersFit
  <2> QED BY <2>5, <2>6, <2>7 DEF RaInv, RestAnswers
<1>2. ASSUME ReadChunk PROVE RaInv'
  <2>1. PICK body, chunks : body = raReq.body /\ chunks = raReq.chunks
    OBVIOUS
  <2>2. /\ raPc = "read" /\ chunks # <<>> /\ UNCHANGED <<raPc, raStatus, raCall, raRsp, raReply>>
        /\ raReq' = [raReq EXCEPT !.body = body \o <<Head(chunks)>>, !.chunks = Tail(chunks)]
    BY <1>2, <2>1 DEF ReadChunk
  <2>3. raReq \in Requests /\ Dispatches(raReq.target) /\ RaSays(raReq.target, raReq.say)
    BY <2>2 DEF RaInv, ReqIsTyped
  <2>4. body \in Seq(RaChunks) /\ chunks \in Seq(RaChunks)
    BY <2>1, <2>3 DEF Requests
  <2>5. PICK new, left : new = body \o <<Head(chunks)>> /\ left = Tail(chunks)
    OBVIOUS
  <2>6. new \in Seq(RaChunks) /\ left \in Seq(RaChunks)
    <3>1. Head(chunks) \in RaChunks /\ Tail(chunks) \in Seq(RaChunks)
      BY <2>2, <2>4
    <3>2. <<Head(chunks)>> \in Seq(RaChunks)
      BY <3>1
    <3> QED BY <2>4, <2>5, <3>1, <3>2
  <2>7. raReq' = [raReq EXCEPT !.body = new, !.chunks = left]
    BY <2>2, <2>5
  <2>8. raReq' \in Requests /\ raReq'.target = raReq.target /\ raReq'.say = raReq.say
    BY <2>3, <2>6, <2>7 DEF Requests
  <2>9. ReqIsTyped'
    BY <2>3, <2>8 DEF ReqIsTyped
  <2>10. InOrder' /\ raRsp' = NoRsp
    BY <2>2 DEF RaInv, InOrder
  <2>11. GoesWhereItSays' /\ AnswersFit' /\ ClassesAreBest'
    BY <2>2, <2>10, NoClasses DEF GoesWhereItSays, AnswersFit
  <2> QED BY <2>9, <2>10, <2>11 DEF RaInv, RestAnswers
<1>3. ASSUME EndOfBody PROVE RaInv'
  <2>1. raPc = "read" /\ raPc' = "route" /\ UNCHANGED <<raReq, raStatus, raCall, raRsp, raReply>>
    BY <1>3 DEF EndOfBody
  <2>2. ReqIsTyped'
    BY <2>1 DEF RaInv, ReqIsTyped
  <2>3. InOrder' /\ raRsp' = NoRsp
    BY <2>1 DEF RaInv, InOrder
  <2>4. GoesWhereItSays' /\ AnswersFit' /\ ClassesAreBest'
    BY <2>1, <2>3, NoClasses DEF GoesWhereItSays, AnswersFit
  <2> QED BY <2>2, <2>3, <2>4 DEF RaInv, RestAnswers
<1> QED BY <1>1, <1>2, <1>3

\* The expressions call what the target says, or nothing.
LEMMA RouteIsFine == RaInv /\ Route => RaInv'
<1> SUFFICES ASSUME RaInv, Route PROVE RaInv'
  OBVIOUS
<1>1. PICK target, say, rest : target = raReq.target /\ say = raReq.say /\ rest = Rest(target)
  OBVIOUS
<1>2. raPc = "route"
  BY DEF Route
<1>3. raReq \in Requests /\ target \in Seq(DOMAIN Lower) /\ RaSays(target, say) /\ raRsp = NoRsp
  BY <1>1, <1>2 DEF RaInv, ReqIsTyped, Requests, InOrder
<1>4. rest \in Seq(DOMAIN Lower)
  BY <1>1, <1>3, RestIsTokens
<1>5. PICK runs, tasks, metas :
        /\ runs = IF raReq.method = "POST" THEN ModelRuns(target, "predict") ELSE {}
        /\ tasks = IF raReq.method = "POST" THEN ModelRuns(target, "ml_predict") ELSE {}
        /\ metas = IF raReq.method = "GET" THEN ModelStatus(target) ELSE {}
  OBVIOUS
<1>6. \/ \E status, text : status # "OK" /\ Fails(status, text)
      \/ \E m \in runs : VersionOf(m) # TooLarge /\ ~NoMessage /\ Calls(PredictSpec(m))
      \/ \E m \in tasks : VersionOf(m) # TooLarge /\ ~NoMessage /\ Calls([op |-> "task", name |-> <<"body">>, version |-> BodyVersion])
      \/ \E m \in metas : m.tail = <<Slash, "metadata">> /\ m.name # <<>> /\ VersionOf(m) # TooLarge
                          /\ Calls([op |-> "meta", name |-> m.name, version |-> VersionOf(m)])
  <2>1. "INVALID_ARGUMENT" # "OK" /\ "INTERNAL" # "OK"
    OBVIOUS
  <2> QED BY <1>1, <1>5, <2>1 DEF Route
\* What a call must be, and that it is enough.
<1>7. ASSUME NEW call, Calls(call), call.op \in {"predict", "task", "meta"}, say.op = call.op,
             raReq.method = (IF call.op = "meta" THEN "GET" ELSE "POST"),
             call.op # "task" => say.name = call.name, say.version \in {Unset, call.version} \/ call.op = "task",
             raReq.body # <<>> \/ call.op = "meta"
      PROVE  RaInv'
  <2>1. raPc' = call.op /\ raCall' = call /\ UNCHANGED <<raReq, raStatus, raRsp, raReply>>
    BY <1>7 DEF Calls
  <2>2. ReqIsTyped'
    BY <1>2, <2>1 DEF RaInv, ReqIsTyped
  <2>3. InOrder'
    BY <1>2, <1>3, <1>7, <2>1 DEF RaInv, InOrder
  <2>4. GoesWhereItSays'
    BY <1>1, <1>7, <2>1 DEF GoesWhereItSays
  <2>5. AnswersFit' /\ ClassesAreBest'
    BY <1>3, <1>7, <2>1, NoClasses DEF AnswersFit
  <2> QED BY <2>2, <2>3, <2>4, <2>5 DEF RaInv, RestAnswers
<1>8. CASE \E status, text : status # "OK" /\ Fails(status, text)
  BY <1>2, <1>8, FailureIsFine
<1>9. ~NoMessage => raReq.body # <<>>
  BY DEF NoMessage
<1>10. ASSUME NEW m \in runs, ~NoMessage, Calls(PredictSpec(m)) PROVE RaInv'
  <2>1. raReq.method = "POST" /\ m \in ModelRuns(target, "predict")
    BY <1>5, <1>10
  <2>2. HasPrefix(target) /\ \E k, l \in Nat : \E word : ReadsAs(rest, k, l, m) /\ EndsIn(rest, l, Colon, word) /\ Lower[word] = "predict"
    BY <1>1, <1>4, <2>1, RunIs
  <2>3. PICK k, l, word : ReadsAs(rest, k, l, m) /\ EndsIn(rest, l, Colon, word) /\ Lower[word] = "predict"
    BY <2>2
  <2>4. AsksFor("predict", Colon, word)
    BY <2>3 DEF AsksFor
  <2>5. say.op = "predict" /\ say.name = m.name /\ say.version = VersionOf(m)
    BY <1>1, <1>3, <1>4, <2>2, <2>3, <2>4, SaysWhatItReads
  <2>6. PICK call : call = PredictSpec(m)
    OBVIOUS
  <2>7. call.op = "predict" /\ call.name = m.name /\ call.version = IF VersionOf(m) = Unset THEN BodyVersion ELSE VersionOf(m)
    BY <2>6 DEF PredictSpec
  <2>8. say.version \in {Unset, call.version}
    BY <2>5, <2>7
  <2> QED BY <1>7, <1>9, <1>10, <2>1, <2>5, <2>6, <2>7, <2>8
<1>11. ASSUME NEW m \in tasks, ~NoMessage, Calls([op |-> "task", name |-> <<"body">>, version |-> BodyVersion]) PROVE RaInv'
  <2>1. raReq.method = "POST" /\ m \in ModelRuns(target, "ml_predict")
    BY <1>5, <1>11
  <2>2. HasPrefix(target) /\ \E k, l \in Nat : \E word : ReadsAs(rest, k, l, m) /\ EndsIn(rest, l, Colon, word) /\ Lower[word] = "ml_predict"
    BY <1>1, <1>4, <2>1, RunIs
  <2>3. PICK k, l, word : ReadsAs(rest, k, l, m) /\ EndsIn(rest, l, Colon, word) /\ Lower[word] = "ml_predict"
    BY <2>2
  <2>4. AsksFor("task", Colon, word)
    BY <2>3 DEF AsksFor
  <2>5. say.op = "task"
    BY <1>1, <1>3, <1>4, <2>2, <2>3, <2>4, SaysWhatItReads
  <2>6. PICK call : call = [op |-> "task", name |-> <<"body">>, version |-> BodyVersion]
    OBVIOUS
  <2>7. call.op = "task"
    BY <2>6
  <2> QED BY <1>7, <1>9, <1>11, <2>1, <2>5, <2>6, <2>7
<1>12. ASSUME NEW m \in metas, m.tail = <<Slash, "metadata">>, m.name # <<>>,
              Calls([op |-> "meta", name |-> m.name, version |-> VersionOf(m)])
       PROVE  RaInv'
  <2>1. raReq.method = "GET" /\ m \in ModelStatus(target)
    BY <1>5, <1>12
  <2>2. HasPrefix(target) /\ \E k, l \in Nat : ReadsAs(rest, k, l, m) /\ EndsIn(rest, l, Slash, "metadata")
    BY <1>1, <1>4, <1>12, <2>1, MetaIs
  <2>3. PICK k, l : ReadsAs(rest, k, l, m) /\ EndsIn(rest, l, Slash, "metadata")
    BY <2>2
  <2>4. AsksFor("meta", Slash, "metadata")
    BY DEF AsksFor
  <2>5. say.op = "meta" /\ say.name = m.name /\ say.version = VersionOf(m)
    BY <1>1, <1>3, <1>4, <2>2, <2>3, <2>4, SaysWhatItReads
  <2>6. PICK call : call = [op |-> "meta", name |-> m.name, version |-> VersionOf(m)]
    OBVIOUS
  <2>7. call.op = "meta" /\ call.name = m.name /\ call.version = VersionOf(m)
    BY <2>6
  <2> QED BY <1>7, <1>12, <2>1, <2>5, <2>6, <2>7
<1> QED BY <1>6, <1>8, <1>10, <1>11, <1>12

\* How an operation ends: with a response that will be written, or an answer
\* that it failed.
LEMMA EndIsFine ==
  ASSUME RaInv, raPc \in {"predict", "task", "meta"}, NEW status, NEW rsp, RaEnds(status, rsp),
         status = "OK" => rsp.done /\ (raCall.op # "meta" => Runnable(raCall)), ClassesAreBest'
  PROVE  RaInv'
<1>1. raRsp' = rsp /\ UNCHANGED <<raReq, raCall>>
  BY DEF RaEnds
<1>2. raPc # "idle" /\ raReply = [code |-> raReply.code, text |-> raReply.text]
  BY DEF RaInv, InOrder
<1>3. CASE status = "OK"
  <2>1. raPc' = "write" /\ raStatus' = "OK" /\ UNCHANGED raReply
    BY <1>3 DEF RaEnds
  <2>2. ReqIsTyped'
    BY <1>1, <1>2, <2>1 DEF RaInv, ReqIsTyped
  <2>3. Runnable(raCall)' <=> Runnable(raCall)
    BY <1>1 DEF Runnable, Served, Ready, RaConfigured
  <2>4. InOrder'
    BY <1>1, <1>2, <1>3, <2>1, <2>3 DEF InOrder
  <2>5. GoesWhereItSays' /\ AnswersFit'
    BY <2>1 DEF GoesWhereItSays, AnswersFit
  <2> QED BY <2>2, <2>4, <2>5 DEF RaInv, RestAnswers
<1>4. CASE status # "OK"
  <2>1. raPc' = "reply" /\ raStatus' = status /\ raReply' = [raReply EXCEPT !.text = "error"]
    BY <1>4 DEF RaEnds, Answers
  <2>2. ReqIsTyped'
    BY <1>1, <1>2, <2>1 DEF RaInv, ReqIsTyped
  <2>3. InOrder'
    BY <1>2, <2>1 DEF InOrder
  <2>4. GoesWhereItSays' /\ AnswersFit'
    BY <1>4, <2>1 DEF GoesWhereItSays, AnswersFit
  <2> QED BY <2>2, <2>3, <2>4 DEF RaInv, RestAnswers
<1> QED BY <1>3, <1>4

\* The message of an operation.
LEMMA MessageIs ==
  ASSUME RaInv, raPc \in {"predict", "task"}
  PROVE  raReq.body[1].batch \in Int /\ raReq.body[1].classes \in Nat
<1>1. PICK body : body = raReq.body
  OBVIOUS
<1>2. body \in Seq(RaChunks) /\ body # <<>>
  BY <1>1 DEF RaInv, ReqIsTyped, Requests, InOrder
<1>3. body[1] \in RaChunks
  BY <1>2
<1> QED BY <1>1, <1>3, RaDataIsTyped

\* A prediction that ran lists the best classes of every row.
LEMMA PredictIsFine ==
  ASSUME RaInv, NEW status, NEW content \in RaContents, Predict(status, content)
  PROVE  RaInv'
<1>1. PICK batch, count, rsp, rows :
        /\ batch = raReq.body[1].batch /\ count = raReq.body[1].classes
        /\ rsp = [NoRsp EXCEPT !.done = TRUE, !.content = IF Wanted = Unset THEN <<>> ELSE content]
        /\ rows = Rows(rsp.content, batch)
  OBVIOUS
<1>2. raPc = "predict" /\ Runnable(raCall) /\ Accepted(raCall)
  BY DEF Predict
<1>3. \/ status # "OK" /\ RaEnds(status, NoRsp)
      \/ RaEnds("OK", rsp)
      \/ /\ Wanted # Unset /\ count # 0
         /\ \E classes \in [DOMAIN rows -> UNION {TopClasses(rows[i], count) : i \in DOMAIN rows}] :
              /\ \A i \in DOMAIN rows : classes[i] \in TopClasses(rows[i], count)
              /\ RaEnds("OK", [rsp EXCEPT !.classes = classes])
  BY <1>1 DEF Predict
<1>4. batch \in Int /\ count \in Nat /\ batch >= 1
  BY <1>1, <1>2, MessageIs DEF Accepted
<1>5. rsp.done /\ rsp.classes = <<>>
  BY <1>1 DEF NoRsp
<1>6. CASE status # "OK" /\ RaEnds(status, NoRsp)
  <2>1. raRsp' = NoRsp
    BY <1>6 DEF RaEnds
  <2>2. ClassesAreBest'
    BY <2>1, NoClasses
  <2> QED BY <1>2, <1>6, <2>2, EndIsFine
<1>7. CASE RaEnds("OK", rsp)
  <2>1. raRsp' = rsp
    BY <1>7 DEF RaEnds
  <2>2. ClassesAreBest'
    BY <1>5, <2>1 DEF ClassesAreBest
  <2> QED BY <1>2, <1>5, <1>7, <2>2, EndIsFine
<1>8. ASSUME Wanted # Unset, NEW classes, \A i \in DOMAIN rows : classes[i] \in TopClasses(rows[i], count),
             RaEnds("OK", [rsp EXCEPT !.classes = classes])
      PROVE  RaInv'
  <2>1. PICK new : new = [rsp EXCEPT !.classes = classes]
    OBVIOUS
  <2>2. raRsp' = new /\ UNCHANGED raReq
    BY <1>8, <2>1 DEF RaEnds
  <2>3. new.done /\ new.classes = classes /\ new.content = content
    BY <1>1, <1>8, <2>1 DEF NoRsp
  <2>4. content \in Seq(Int) /\ rows = Rows(content, batch)
    BY <1>1, <1>8, RaDataIsTyped DEF NoRsp
  <2>5. ASSUME NEW i \in DOMAIN rows PROVE Best(Range(classes[i]), rows[i], count)
    <3>1. rows[i] \in Seq(Int)
      BY <1>4, <2>4, RowsAre
    <3> QED BY <1>4, <1>8, <3>1, TopIsBest
  <2>6. ClassesAreBest'
    <3>1. rows = Rows(new.content, raReq'.body[1].batch)
      BY <1>1, <2>2, <2>3, <2>4
    <3>2. raReq'.body[1].classes = count
      BY <1>1, <2>2
    <3>3. \A i \in DOMAIN rows :
            /\ Cardinality(Range(new.classes[i])) = Min({count, Len(rows[i])})
            /\ \A k \in Range(new.classes[i]), l \in DOMAIN rows[i] \ Range(new.classes[i]) : rows[i][l] <= rows[i][k]
      BY <2>3, <2>5 DEF Best
    <3>4. raRsp' = new /\ raRsp'.classes = new.classes
      BY <2>2
    <3>5. \A i \in DOMAIN Rows(raRsp'.content, raReq'.body[1].batch) :
            /\ Cardinality(Range(raRsp'.classes[i])) = Min({raReq'.body[1].classes, Len(Rows(raRsp'.content, raReq'.body[1].batch)[i])})
            /\ \A k \in Range(raRsp'.classes[i]), l \in DOMAIN Rows(raRsp'.content, raReq'.body[1].batch)[i] \ Range(raRsp'.classes[i]) :
                 Rows(raRsp'.content, raReq'.body[1].batch)[i][l] <= Rows(raRsp'.content, raReq'.body[1].batch)[i][k]
      BY <3>1, <3>2, <3>3, <3>4, Zenon
    <3> QED BY <3>5, Zenon DEF ClassesAreBest
  <2> QED BY <1>2, <1>8, <2>1, <2>3, <2>6, EndIsFine
<1> QED BY <1>3, <1>6, <1>7, <1>8

\* The other ways an operation ends.
LEMMA OthersAreFine ==
  ASSUME RaInv
  PROVE  /\ PredictRefused \/ PredictNoType \/ GetModelMeta => RaInv'
         /\ \A status : CreateTask(status) => RaInv'
<1>1. ASSUME PredictRefused PROVE RaInv'
  <2>1. raPc = "predict" /\ Fails("INVALID_ARGUMENT", "error")
    BY <1>1 DEF PredictRefused
  <2> QED BY <2>1, FailureIsFine
<1>2. ASSUME PredictNoType PROVE RaInv'
  <2>1. raPc = "predict" /\ RaEnds("INVALID_ARGUMENT", NoRsp)
    BY <1>2 DEF PredictNoType
  <2>2. raRsp' = NoRsp
    BY <2>1 DEF RaEnds
  <2> QED BY <2>1, <2>2, NoClasses, EndIsFine
<1>3. ASSUME GetModelMeta PROVE RaInv'
  <2>1. /\ raPc = "meta"
        /\ \/ \E states : RaEnds("OK", [NoRsp EXCEPT !.done = TRUE, !.states = states])
           \/ RaEnds("NOT_FOUND", NoRsp)
    BY <1>3 DEF GetModelMeta
  <2>2. raCall.op = "meta"
    BY <2>1 DEF RaInv, InOrder
  <2>3. ASSUME NEW states, RaEnds("OK", [NoRsp EXCEPT !.done = TRUE, !.states = states]) PROVE RaInv'
    <3>1. PICK rsp : rsp = [NoRsp EXCEPT !.done = TRUE, !.states = states]
      OBVIOUS
    <3>2. raRsp' = rsp /\ rsp.done /\ rsp.classes = <<>>
      BY <2>3, <3>1 DEF RaEnds, NoRsp
    <3>3. ClassesAreBest'
      BY <3>2 DEF ClassesAreBest
    <3> QED BY <2>1, <2>2, <2>3, <3>1, <3>2, <3>3, EndIsFine
  <2>4. ASSUME RaEnds("NOT_FOUND", NoRsp) PROVE RaInv'
    <3>1. raRsp' = NoRsp
      BY <2>4 DEF RaEnds
    <3> QED BY <2>1, <2>4, <3>1, NoClasses, EndIsFine
  <2> QED BY <2>1, <2>3, <2>4
<1>4. ASSUME NEW status, CreateTask(status) PROVE RaInv'
  <2>1. PICK end, rsp : /\ end = IF Runnable(raCall) /\ status = "OK" THEN "OK" ELSE "INTERNAL"
                        /\ rsp = [NoRsp EXCEPT !.done = TRUE]
    OBVIOUS
  <2>2. raPc = "task" /\ RaEnds(end, rsp)
    BY <1>4, <2>1 DEF CreateTask
  <2>3. rsp.done /\ rsp.classes = <<>> /\ (end = "OK" => Runnable(raCall))
    BY <2>1 DEF NoRsp
  <2>4. raRsp' = rsp
    BY <2>2 DEF RaEnds
  <2>5. ClassesAreBest'
    BY <2>3, <2>4 DEF ClassesAreBest
  <2> QED BY <2>2, <2>3, <2>5, EndIsFine
<1> QED BY <1>1, <1>2, <1>3, <1>4

\* The response is written and the answer sent.
LEMMA AnswerIsFine == RaInv /\ (WriteResponse \/ WriteFails \/ Reply) => RaInv'
<1> SUFFICES ASSUME RaInv, WriteResponse \/ WriteFails \/ Reply PROVE RaInv'
  OBVIOUS
<1>1. raReply = [code |-> raReply.code, text |-> raReply.text]
  BY DEF RaInv, InOrder
<1>2. CASE WriteResponse
  <2>1. raPc = "write" /\ raPc' = "reply" /\ raStatus' = "OK" /\ raReply' = [raReply EXCEPT !.text = raRsp]
        /\ UNCHANGED <<raReq, raCall, raRsp>>
    BY <1>2 DEF WriteResponse, Answers
  <2>2. ReqIsTyped'
    BY <2>1 DEF RaInv, ReqIsTyped
  <2>3. InOrder' /\ raReply'.text = raRsp
    BY <1>1, <2>1 DEF InOrder
  <2>4. raRsp.done /\ (raCall.op # "meta" => Runnable(raCall))
    BY <2>1 DEF RaInv, InOrder
  <2>5. AnswersFit'
    BY <2>1, <2>3, <2>4 DEF AnswersFit, Runnable, Served, Ready, RaConfigured
  <2>6. GoesWhereItSays'
    BY <2>1 DEF GoesWhereItSays
  <2>7. ClassesAreBest'
    BY <2>1, ClassesStay DEF RaInv, RestAnswers
  <2> QED BY <2>2, <2>3, <2>5, <2>6, <2>7 DEF RaInv, RestAnswers
<1>3. CASE WriteFails
  <2>1. raPc = "write" /\ Fails("INTERNAL", "error")
    BY <1>3 DEF WriteFails, Fails
  <2> QED BY <2>1, FailureIsFine
<1>4. CASE Reply
  <2>1. PICK code : raPc' = "idle" /\ raReply' = [raReply EXCEPT !.code = code] /\ raRsp' = NoRsp
    BY <1>4 DEF Reply
  <2>2. ReqIsTyped' /\ GoesWhereItSays' /\ AnswersFit'
    BY <2>1 DEF ReqIsTyped, GoesWhereItSays, AnswersFit
  <2>3. InOrder'
    BY <1>1, <2>1 DEF InOrder
  <2> QED BY <2>1, <2>2, <2>3, NoClasses DEF RaInv, RestAnswers
<1> QED BY <1>2, <1>3, <1>4

\* A request that no dispatcher takes changes the answer alone.
LEMMA RefusalIsFine ==
  ASSUME RaInv, NEW method, NEW uri, Refuse(method, uri) \/ UNCHANGED ravars
  PROVE  RaInv'
<1>1. UNCHANGED <<raPc, raReq, raStatus, raCall, raRsp>>
  BY DEF Refuse, ravars
<1>2. ReqIsTyped' /\ GoesWhereItSays'
  BY <1>1 DEF RaInv, RestAnswers, ReqIsTyped, GoesWhereItSays
<1>3. ClassesAreBest'
  BY <1>1, ClassesStay DEF RaInv, RestAnswers
<1>4. Runnable(raCall)' <=> Runnable(raCall)
  BY <1>1 DEF Runnable, Served, Ready, RaConfigured
<1>5. CASE Refuse(method, uri)
  <2>1. PICK code : raPc = "idle" /\ raReply' = [code |-> code, text |-> Unset]
    BY <1>5 DEF Refuse
  <2>2. InOrder' /\ AnswersFit'
    BY <1>1, <2>1 DEF RaInv, InOrder, AnswersFit
  <2> QED BY <1>2, <1>3, <2>2 DEF RaInv, RestAnswers
<1>6. CASE UNCHANGED ravars
  <2>1. InOrder' /\ AnswersFit'
    BY <1>1, <1>4, <1>6 DEF RaInv, RestAnswers, InOrder, AnswersFit, ravars
  <2> QED BY <1>2, <1>3, <2>1 DEF RaInv, RestAnswers
<1> QED BY <1>5, <1>6

\* A request goes where its target says, and is answered with what it asked for.
THEOREM RequestsAreAnsweredRight == RaSpec => []RestAnswers
<1>1. RaInit => RaInv
  BY RestStarts
<1>2. RaInv /\ [RaNext]_ravars => RaInv'
  <2> SUFFICES ASSUME RaInv, [RaNext]_ravars PROVE RaInv'
    OBVIOUS
  <2>1. CASE ReadChunk \/ EndOfBody
    BY <2>1, ReadingIsFine
  <2>2. CASE Route
    BY <2>2, RouteIsFine
  <2>3. CASE PredictRefused \/ PredictNoType \/ GetModelMeta
    BY <2>3, OthersAreFine
  <2>4. CASE WriteResponse \/ WriteFails \/ Reply
    BY <2>4, AnswerIsFine
  <2>5. CASE \E status \in RaStatuses : CreateTask(status)
    BY <2>5, OthersAreFine
  <2>6. CASE \E status \in RaStatuses, content \in RaContents : Predict(status, content)
    BY <2>6, PredictIsFine
  <2>7. CASE \E method \in {"GET", "POST", "PUT", "LOCK"}, uri \in RaUris : Refuse(method, uri)
    BY <2>7, RefusalIsFine
  <2>8. CASE \E method \in {"GET", "POST", "PUT", "LOCK"}, uri \in RaUris, body \in RaBodies : Receive(method, uri, body)
    <3>1. PICK method \in {"GET", "POST", "PUT", "LOCK"}, uri \in RaUris, body \in RaBodies : Receive(method, uri, body)
      BY <2>8
    <3> QED BY <3>1, ReadingIsFine
  <2>9. CASE UNCHANGED ravars
    BY <2>9, RefusalIsFine
  <2> QED BY <2>1, <2>2, <2>3, <2>4, <2>5, <2>6, <2>7, <2>8, <2>9 DEF RaNext
<1>3. RaInv => RestAnswers
  BY DEF RaInv
<1> QED BY <1>1, <1>2, <1>3, PTL DEF RaSpec
-----------------------------------------------------------------------------
(***************************************************************************)
(* ModelConfigs.  What config() reads of a file that is valid has the      *)
(* fields it must have, and normalising it again changes nothing.          *)
(***************************************************************************)
\* Normalising fills the sizes in that are missing; it adds none that is not valid.
LEMMA SizesAre ==
  ASSUME NEW b, IsBatching(b), NEW maxBatch \in Int, NEW n, n = WithSizes(b, maxBatch)
  PROVE  /\ IsBatching(n) /\ WithSizes(n, maxBatch) = n
         /\ ValidBatching(n, maxBatch) <=> ValidBatching(b, maxBatch)
<1>1. PICK sizes : sizes = DefaultSizes(maxBatch)
  OBVIOUS
<1>2. sizes \in Seq(Int) /\ \A i \in DOMAIN sizes : sizes[i] > 0 /\ sizes[i] <= maxBatch
  BY <1>1 DEF DefaultSizes
<1>3. b = [preferred |-> b.preferred, delay |-> b.delay] /\ b.preferred \in Seq(Int) /\ b.delay \in Int
  BY DEF IsBatching
<1>4. n = [preferred |-> IF b.preferred # <<>> THEN b.preferred ELSE sizes, delay |-> b.delay]
  BY <1>1, <1>3 DEF WithSizes
<1>5. IsBatching(n)
  BY <1>2, <1>3, <1>4 DEF IsBatching
<1>6. WithSizes(n, maxBatch) = n
  <2>1. WithSizes(n, maxBatch) = [n EXCEPT !.preferred = IF n.preferred # <<>> THEN n.preferred ELSE sizes]
    BY <1>1 DEF WithSizes
  <2> QED BY <1>4, <2>1
<1>7. CASE b.preferred # <<>>
  <2>1. n.delay = b.delay /\ n.preferred = b.preferred
    BY <1>4, <1>7
  <2> QED BY <1>5, <1>6, <2>1 DEF ValidBatching
<1>8. CASE b.preferred = <<>>
  <2>1. n.delay = b.delay /\ n.preferred = sizes /\ DOMAIN b.preferred = {}
    BY <1>4, <1>8
  <2> QED BY <1>2, <1>5, <1>6, <2>1 DEF ValidBatching
<1> QED BY <1>7, <1>8

\* Batching parameters that are normalised are typed, and normal.
LEMMA BatchingIs ==
  ASSUME NEW batching, \A b \in batching : IsBatching(b), NEW maxBatch \in Int, NEW normal, normal = NormalBatching(batching, maxBatch)
  PROVE  /\ NormalBatching(normal, maxBatch) = normal
         /\ (\A b \in normal : ValidBatching(b, maxBatch)) <=> (\A b \in batching : ValidBatching(b, maxBatch))
<1>1. normal = {WithSizes(b, maxBatch) : b \in batching}
  BY DEF NormalBatching
<1>2. \A n \in normal : WithSizes(n, maxBatch) = n
  BY <1>1, SizesAre
<1>3. NormalBatching(normal, maxBatch) = normal
  BY <1>2 DEF NormalBatching
<1>4. \A b \in batching : ValidBatching(WithSizes(b, maxBatch), maxBatch) <=> ValidBatching(b, maxBatch)
  BY SizesAre
<1> QED BY <1>1, <1>3, <1>4

\* The devices of a machine, in order.
Devices(devices) == [d \in 1 .. Count(devices) |-> d - 1]
\* The devices there are, as _NormalizeModelConfig() lists them.
LEMMA DevicesExist ==
  ASSUME NEW devices \in Int
  PROVE  /\ Count(devices) \in Nat /\ DOMAIN Devices(devices) = 1 .. Count(devices)
         /\ \A i \in 1 .. Count(devices) : Exists(Devices(devices)[i], devices)
         /\ Devices(devices) # <<>> <=> Count(devices) > 0
         /\ Devices(devices) \in Seq(Int)
  BY DEF Count, Devices, Exists

\* A group that is normalised is typed, valid when it was, and normal.
LEMMA GroupIs ==
  ASSUME NEW g, IsGroup(g), NEW name, NEW i \in Nat, NEW devices \in Int, NEW normal, normal = NormalGroup(g, name, i, devices)
  PROVE  /\ IsGroup(normal) /\ normal.kind # "AUTO"
         /\ NormalGroup(normal, name, i, devices) = normal
         /\ ValidGroup(normal, devices) <=> SaneGroup(g, devices)
<1>1. PICK kind, gpus : kind = NormalKind(g, devices) /\ gpus = IF kind = "GPU" /\ g.gpus = <<>> THEN Devices(devices) ELSE g.gpus
  OBVIOUS
<1>2. normal = [name |-> IF g.name = <<>> THEN <<name, i - 1>> ELSE g.name, kind |-> kind,
                count |-> IF g.count < 1 THEN 1 ELSE g.count, gpus |-> gpus]
  BY <1>1 DEF NormalGroup, Devices
<1>3. g.kind \in {"AUTO", "CPU", "GPU"} /\ g.count \in Int /\ g.gpus \in Seq(Int)
  BY DEF IsGroup
<1>4. PICK all \in BOOLEAN : all <=> \A j \in DOMAIN g.gpus : Exists(g.gpus[j], devices)
  OBVIOUS
<1>5. kind = IF g.kind # "AUTO" THEN g.kind ELSE IF Count(devices) > 0 /\ all THEN "GPU" ELSE "CPU"
  BY <1>1, <1>4 DEF NormalKind
<1>6. kind \in {"CPU", "GPU"}
  BY <1>3, <1>5
<1>7. gpus \in Seq(Int)
  BY <1>1, <1>3, DevicesExist
<1>8. IsGroup(normal) /\ normal.kind = kind /\ normal.gpus = gpus
  BY <1>2, <1>3, <1>6, <1>7 DEF IsGroup
<1>9. NormalGroup(normal, name, i, devices) = normal
  <2>1. NormalKind(normal, devices) = kind
    BY <1>6, <1>8 DEF NormalKind
  <2>2. gpus = IF kind = "GPU" /\ gpus = <<>> THEN Devices(devices) ELSE gpus
    BY <1>1
  <2>3. <<name, i - 1>> # <<>>
    OBVIOUS
  <2>4. normal.name # <<>> /\ normal.count >= 1 /\ normal.count \in Int
    BY <1>2, <1>3, <2>3
  <2>5. NormalGroup(normal, name, i, devices) = [name |-> normal.name, kind |-> kind, count |-> normal.count, gpus |-> gpus]
    BY <1>8, <2>1, <2>2, <2>4 DEF NormalGroup, Devices
  <2> QED BY <1>2, <2>5
<1>10. PICK any \in BOOLEAN : any <=> g.gpus # <<>>
  OBVIOUS
<1>11. /\ ~any => all
       /\ any /\ all => Count(devices) > 0
  <2>1. ~any => DOMAIN g.gpus = {}
    BY <1>3, <1>10
  <2>2. any => 1 \in DOMAIN g.gpus /\ g.gpus[1] \in Int
    BY <1>3, <1>10
  <2>3. ASSUME Exists(g.gpus[1], devices), g.gpus[1] \in Int PROVE Count(devices) > 0
    BY <2>3 DEF Exists, Count
  <2> QED BY <1>4, <2>1, <2>2, <2>3
<1>12. SaneGroup(g, devices) <=> \/ g.kind = "CPU" /\ ~any
                                 \/ g.kind = "GPU" /\ Count(devices) > 0 /\ all
                                 \/ g.kind = "AUTO" /\ all
  BY <1>3, <1>4, <1>10 DEF SaneGroup
<1>13. ValidGroup(normal, devices) <=> \/ kind = "GPU" /\ gpus # <<>> /\ \A j \in DOMAIN gpus : Exists(gpus[j], devices)
                                       \/ kind = "CPU" /\ gpus = <<>>
  BY <1>6, <1>8 DEF ValidGroup
<1>14. CASE kind = "CPU"
  <2>1. ValidGroup(normal, devices) <=> ~any
    BY <1>1, <1>10, <1>13, <1>14
  <2> QED BY <1>3, <1>5, <1>8, <1>9, <1>11, <1>12, <1>14, <2>1
<1>15. CASE kind = "GPU"
  <2>1. ValidGroup(normal, devices) <=> IF any THEN all ELSE Count(devices) > 0
    <3>1. CASE any
      BY <1>1, <1>4, <1>10, <1>13, <1>15, <3>1
    <3>2. CASE ~any
      <4>1. gpus = Devices(devices)
        BY <1>1, <1>10, <1>15, <3>2
      <4> QED BY <1>13, <1>15, <3>2, <4>1, DevicesExist
    <3> QED BY <3>1, <3>2
  <2> QED BY <1>3, <1>5, <1>8, <1>9, <1>11, <1>12, <1>15, <2>1
<1> QED BY <1>6, <1>14, <1>15

\* The default policy is filled in once.
LEMMA PolicyStays == \A p : NormalPolicy(NormalPolicy(p)) = NormalPolicy(p)
  BY DEF NormalPolicy

\* What a runtime loads is valid if the configuration is sane.
LEMMA NormalIs ==
  ASSUME NEW c, IsConfig(c), NEW name, NEW devices \in Int, NEW normal, normal = NormalizeModelConfig(c, name, devices)
  PROVE  /\ NormalizeModelConfig(normal, name, devices) = normal
         /\ \A i \in DOMAIN normal.groups : normal.groups[i].kind # "AUTO"
         /\ ValidateModelConfig(normal, devices) <=> Sane(c, devices)
<1>1. PICK groups : groups = IF c.groups = <<>> THEN <<DefaultGroup(name)>> ELSE c.groups
  OBVIOUS
<1>2. PICK n \in Nat : n >= 1 /\ DOMAIN groups = 1 .. n /\ \A i \in 1 .. n : IsGroup(groups[i])
  <2>1. IsGroup(DefaultGroup(name))
    BY DEF IsGroup, DefaultGroup
  <2>2. CASE c.groups = <<>>
    <3>1. groups = <<DefaultGroup(name)>>
      BY <1>1, <2>2
    <3> QED BY <2>1, <3>1
  <2>3. CASE c.groups # <<>>
    <3>1. groups = c.groups
      BY <1>1, <2>3
    <3>2. PICK S : S = ToSet(groups)
      OBVIOUS
    <3>3. groups \in Seq(S) /\ \A g \in S : IsGroup(g)
      BY <3>1, <3>2 DEF IsConfig
    <3>4. PICK m \in Nat : m = Len(groups)
      BY <3>3
    <3>5. m # 0
      BY <2>3, <3>1, <3>3, <3>4
    <3>6. \A i \in 1 .. m : groups[i] \in S
      BY <3>3, <3>4, ElementOfSeq
    <3> QED BY <3>3, <3>4, <3>5, <3>6
  <2> QED BY <2>2, <2>3
<1>3. PICK pol, batching, list :
        /\ pol = NormalPolicy(c.policy) /\ batching = NormalBatching(c.batching, c.maxBatch)
        /\ list = [i \in 1 .. n |-> NormalGroup(groups[i], name, i, devices)]
  OBVIOUS
<1>4. normal = [c EXCEPT !.policy = pol, !.batching = batching, !.groups = list]
  BY <1>1, <1>2, <1>3 DEF NormalizeModelConfig
<1>5. normal = [policy |-> pol, batching |-> batching, maxBatch |-> c.maxBatch, groups |-> list, labels |-> c.labels]
  BY <1>4 DEF IsConfig
<1>6. \A i \in 1 .. n : /\ list[i].kind # "AUTO" /\ NormalGroup(list[i], name, i, devices) = list[i]
                        /\ ValidGroup(list[i], devices) <=> SaneGroup(groups[i], devices)
  BY <1>2, <1>3, GroupIs
<1>7. c.maxBatch \in Int /\ \A b \in c.batching : IsBatching(b)
  BY DEF IsConfig
<1>8. DOMAIN list = 1 .. n /\ list # <<>>
  <2>1. 1 \in DOMAIN list
    BY <1>2, <1>3
  <2> QED BY <1>3, <2>1
<1>9. NormalizeModelConfig(normal, name, devices) = normal
  <2>1. normal.groups = list /\ normal.maxBatch = c.maxBatch /\ normal.policy = pol /\ normal.batching = batching
    BY <1>5
  <2>2. NormalPolicy(pol) = pol /\ NormalBatching(batching, c.maxBatch) = batching
    BY <1>3, <1>7, BatchingIs, PolicyStays
  <2>3. PICK again, first, second, third :
          /\ again = IF normal.groups = <<>> THEN <<DefaultGroup(name)>> ELSE normal.groups
          /\ first = NormalPolicy(normal.policy) /\ second = NormalBatching(normal.batching, normal.maxBatch)
          /\ third = [i \in DOMAIN again |-> NormalGroup(again[i], name, i, devices)]
    OBVIOUS
  <2>4. NormalizeModelConfig(normal, name, devices) = [normal EXCEPT !.policy = first, !.batching = second, !.groups = third]
    BY <2>3 DEF NormalizeModelConfig
  <2>5. again = list
    BY <1>8, <2>1, <2>3
  <2>6. first = pol /\ second = batching
    BY <2>1, <2>2, <2>3
  <2>7. third = list
    <3>1. third = [i \in 1 .. n |-> NormalGroup(list[i], name, i, devices)]
      BY <1>8, <2>3, <2>5
    <3> QED BY <1>3, <1>6, <3>1
  <2>8. [normal EXCEPT !.policy = pol, !.batching = batching, !.groups = list] = normal
    <3>1. PICK r1 : r1 = [normal EXCEPT !.policy = pol]
      OBVIOUS
    <3>2. r1 = normal
      BY <1>5, <3>1
    <3>3. PICK r2 : r2 = [r1 EXCEPT !.batching = batching]
      OBVIOUS
    <3>4. r2 = normal
      BY <1>5, <3>2, <3>3
    <3>5. [r2 EXCEPT !.groups = list] = normal
      BY <1>5, <3>4
    <3> QED BY <3>1, <3>3, <3>5
  <2> QED BY <2>4, <2>6, <2>7, <2>8
<1>10. \A i \in DOMAIN normal.groups : normal.groups[i].kind # "AUTO"
  BY <1>5, <1>6, <1>8
<1>11. ValidateModelConfig(normal, devices)
         <=> /\ \A b \in batching : ValidBatching(b, c.maxBatch)
             /\ devices # -1 => \A i \in 1 .. n : ValidGroup(list[i], devices)
  BY <1>5, <1>8 DEF ValidateModelConfig
<1>12. (\A b \in batching : ValidBatching(b, c.maxBatch)) <=> (\A b \in c.batching : ValidBatching(b, c.maxBatch))
  BY <1>3, <1>7, BatchingIs
<1>13. (\A i \in 1 .. n : SaneGroup(groups[i], devices)) <=> \A i \in DOMAIN c.groups : SaneGroup(c.groups[i], devices)
  <2>1. CASE c.groups = <<>>
    <3>1. groups = <<DefaultGroup(name)>> /\ DOMAIN c.groups = {}
      BY <1>1, <2>1
    <3>2. SaneGroup(DefaultGroup(name), devices)
      BY DEF SaneGroup, DefaultGroup
    <3>3. \A i \in 1 .. n : groups[i] = DefaultGroup(name)
      <4>1. DOMAIN groups = {1}
        BY <3>1
      <4> QED BY <1>2, <3>1, <4>1
    <3> QED BY <3>1, <3>2, <3>3
  <2>2. CASE c.groups # <<>>
    BY <1>1, <1>2, <2>2
  <2> QED BY <2>1, <2>2
<1>14. ValidateModelConfig(normal, devices) <=> Sane(c, devices)
  BY <1>6, <1>11, <1>12, <1>13 DEF Sane
<1> QED BY <1>9, <1>10, <1>14

\* The store has configurations, and so have the files that can be parsed.
CfInv == /\ DOMAIN cfFiles = CfNames /\ DOMAIN cfStore = CfNames
         /\ \A n \in CfNames : \/ cfFiles[n] \in {{}, {Empty}, {NoText}}
                               \/ \A c \in cfFiles[n] : IsConfig(c)
         /\ \A n \in CfNames : \A c \in cfStore[n] : IsConfig(c)
         /\ ConfigsHold

\* A configuration with another policy is typed like any other.
LEMMA PolicyChanges ==
  ASSUME CfInv, NEW n \in CfNames, NEW pol
  PROVE  \A c \in WithPolicy(n, pol) : IsConfig(c)
<1> SUFFICES ASSUME NEW c \in cfStore[n] PROVE IsConfig([c EXCEPT !.policy = {pol}])
  BY DEF WithPolicy
<1>1. IsConfig(c)
  BY DEF CfInv
<1>2. PICK new : new = [c EXCEPT !.policy = {pol}]
  OBVIOUS
<1>3. new = [policy |-> {pol}, batching |-> c.batching, maxBatch |-> c.maxBatch, groups |-> c.groups, labels |-> c.labels]
  BY <1>1, <1>2 DEF IsConfig
<1>4. IsConfig(new)
  BY <1>1, <1>3 DEF IsConfig
<1> QED BY <1>2, <1>4

\* What does not touch the store keeps the invariant.
LEMMA ConfigsStay ==
  ASSUME CfInv, NEW names \in SUBSET CfNames, Visits(names), UNCHANGED <<cfFiles, cfLoaded>>
  PROVE  CfInv'
<1>1. PICK new : /\ new = {n \in names : ~InStore(n) /\ Parsed(cfFiles[n]) # {}}
                 /\ cfStore' = [n \in CfNames |-> IF n \in new THEN cfFiles[n] ELSE cfStore[n]]
                 /\ cfChanged' = cfChanged \ new
  BY DEF Visits
<1>2. ASSUME NEW n \in new PROVE \A c \in cfFiles[n] : IsConfig(c)
  <2>1. n \in CfNames /\ cfFiles[n] \notin {{}, {Empty}, {NoText}}
    BY <1>1 DEF Parsed, Mapped
  <2> QED BY <2>1 DEF CfInv
<1>3. \A n \in CfNames : \A c \in cfStore'[n] : IsConfig(c)
  BY <1>1, <1>2 DEF CfInv
<1>4. PoliciesSurvive'
  <2>1. SUFFICES ASSUME NEW n \in CfNames, cfStore'[n] # {}, n \notin cfChanged' PROVE cfFiles[n] = cfStore'[n]
    BY DEF PoliciesSurvive, InStore
  <2>2. CASE n \in new
    BY <1>1, <2>2
  <2>3. CASE n \notin new
    BY <1>1, <2>1, <2>3 DEF CfInv, ConfigsHold, PoliciesSurvive, InStore
  <2> QED BY <2>2, <2>3
<1>5. DOMAIN cfStore' = CfNames
  BY <1>1
<1>6. NormalIsValid'
  BY DEF CfInv, ConfigsHold, NormalIsValid
<1> QED BY <1>3, <1>4, <1>5, <1>6 DEF CfInv, ConfigsHold

\* The store or a file changes for one name, or the store is gone.
LEMMA StoreChanges ==
  ASSUME CfInv
  PROVE  /\ Restart => CfInv'
         /\ \A n \in CfNames : DeleteConfig(n) \/ CrashInSave(n) => CfInv'
         /\ \A n \in CfNames : \A pol : UpdatePolicy(n, pol) \/ SaveFails(n, pol) => CfInv'
         /\ \A n \in CfNames : \A file : EditFile(n, file) /\ (file \in {{}, {Empty}, {NoText}} \/ \A c \in file : IsConfig(c)) => CfInv'
<1>1. UNCHANGED cfLoaded => NormalIsValid'
  BY DEF CfInv, ConfigsHold, NormalIsValid
<1>2. Restart => CfInv'
  BY <1>1 DEF Restart, CfInv, ConfigsHold, PoliciesSurvive, InStore
<1>3. ASSUME NEW n \in CfNames, DeleteConfig(n) PROVE CfInv'
  BY <1>1, <1>3 DEF DeleteConfig, CfInv, ConfigsHold, PoliciesSurvive, InStore
<1>4. ASSUME NEW n \in CfNames, CrashInSave(n) PROVE CfInv'
  BY <1>1, <1>4 DEF CrashInSave, CfInv, ConfigsHold, PoliciesSurvive, InStore
<1>5. ASSUME NEW n \in CfNames, NEW pol, UpdatePolicy(n, pol) PROVE CfInv'
  <2>1. PICK new : new = WithPolicy(n, pol) /\ \A c \in new : IsConfig(c)
    BY PolicyChanges
  <2>2. cfStore' = [cfStore EXCEPT ![n] = new] /\ cfFiles' = [cfFiles EXCEPT ![n] = new] /\ cfChanged' = cfChanged \ {n} /\ UNCHANGED cfLoaded
    BY <1>5, <2>1 DEF UpdatePolicy
  <2> QED BY <1>1, <2>1, <2>2 DEF CfInv, ConfigsHold, PoliciesSurvive, InStore
<1>6. ASSUME NEW n \in CfNames, NEW pol, SaveFails(n, pol) PROVE CfInv'
  <2>1. PICK new : new = WithPolicy(n, pol) /\ \A c \in new : IsConfig(c)
    BY PolicyChanges
  <2>2. cfStore' = [cfStore EXCEPT ![n] = new] /\ cfFiles' = [cfFiles EXCEPT ![n] = {Empty}] /\ cfChanged' = cfChanged \cup {n} /\ UNCHANGED cfLoaded
    BY <1>6, <2>1 DEF SaveFails
  <2> QED BY <1>1, <2>1, <2>2 DEF CfInv, ConfigsHold, PoliciesSurvive, InStore
<1>7. ASSUME NEW n \in CfNames, NEW file, EditFile(n, file), file \in {{}, {Empty}, {NoText}} \/ \A c \in file : IsConfig(c) PROVE CfInv'
  BY <1>1, <1>7 DEF EditFile, CfInv, ConfigsHold, PoliciesSurvive, InStore
<1> QED BY <1>2, <1>3, <1>4, <1>5, <1>6, <1>7

\* A load keeps what it loaded, and with which result.
LEMMA LoadIsValid ==
  ASSUME CfInv, NEW n \in CfNames, NEW devices \in Int, LoadConfig(n, devices)
  PROVE  CfInv'
<1>1. PICK c, normal, ok : /\ c = TheOne(cfStore[n]) /\ normal = NormalizeModelConfig(c, n, devices)
                           /\ ok = ValidateModelConfig(normal, devices)
  OBVIOUS
<1>2. cfLoaded' = {[name |-> n, config |-> c, devices |-> devices, normal |-> normal, ok |-> ok]}
  BY <1>1 DEF LoadConfig
<1>3. cfStore[n] # {} /\ UNCHANGED <<cfFiles, cfStore, cfLabels, cfChanged>>
  BY DEF LoadConfig, InStore
<1>4. c \in cfStore[n]
  BY <1>1, <1>3 DEF TheOne
<1>5. IsConfig(c)
  BY <1>4 DEF CfInv
<1>6. /\ NormalizeModelConfig(normal, n, devices) = normal
      /\ \A i \in DOMAIN normal.groups : normal.groups[i].kind # "AUTO"
      /\ ValidateModelConfig(normal, devices) <=> Sane(c, devices)
  BY <1>1, <1>5, NormalIs
<1>7. NormalIsValid'
  <2>1. SUFFICES ASSUME NEW l \in cfLoaded'
                 PROVE  /\ l.ok <=> Sane(l.config, l.devices)
                        /\ NormalizeModelConfig(l.normal, l.name, l.devices) = l.normal
                        /\ \A i \in DOMAIN l.normal.groups : l.normal.groups[i].kind # "AUTO"
    BY DEF NormalIsValid
  <2>2. l.name = n /\ l.config = c /\ l.devices = devices /\ l.normal = normal /\ l.ok = ok
    BY <1>2, <2>1
  <2>3. ok <=> Sane(c, devices)
    BY <1>1, <1>6
  <2> QED BY <1>6, <2>2, <2>3
<1> QED BY <1>3, <1>7 DEF CfInv, ConfigsHold, PoliciesSurvive, InStore

\* For any configurations and devices: a sane configuration is loaded, another
\* refused, and a policy whose update succeeded survives a restart.
THEOREM ConfigurationsHold == CfSpec => []ConfigsHold
<1>1. CfInit => CfInv
  BY DEF CfInit, CfInv, ConfigsHold, NormalIsValid, PoliciesSurvive, InStore
<1>2. CfInv /\ [CfNext]_cfvars => CfInv'
  <2> SUFFICES ASSUME CfInv, [CfNext]_cfvars PROVE CfInv'
    OBVIOUS
  <2>1. CASE ConfigStore
    BY <2>1, ConfigsStay DEF ConfigStore
  <2>2. CASE Restart
    BY <2>2, StoreChanges
  <2>3. CASE \E n \in CfNames : ConfigModel(n)
    <3>1. PICK n \in CfNames : Visits({n}) /\ UNCHANGED <<cfFiles, cfLoaded>>
      BY <2>3 DEF ConfigModel
    <3>2. {n} \in SUBSET CfNames
      OBVIOUS
    <3> QED BY <3>1, <3>2, ConfigsStay
  <2>4. CASE \E n \in CfNames : DeleteConfig(n) \/ CrashInSave(n)
    BY <2>4, StoreChanges
  <2>5. CASE \E n \in CfNames : \E file \in {{}, {Empty}, {NoText}} \cup {{c} : c \in CfConfigs} : EditFile(n, file)
    <3>1. PICK n \in CfNames, file \in {{}, {Empty}, {NoText}} \cup {{c} : c \in CfConfigs} : EditFile(n, file)
      BY <2>5
    <3>2. file \in {{}, {Empty}, {NoText}} \/ \A c \in file : IsConfig(c)
      BY <3>1, CfConfigsAreTyped
    <3> QED BY <3>1, <3>2, StoreChanges
  <2>6. CASE \E n \in CfNames, pol \in CfPolicies : UpdatePolicy(n, pol) \/ SaveFails(n, pol)
    BY <2>6, StoreChanges
  <2>7. CASE \E n \in CfNames, devices \in CfDevices : LoadConfig(n, devices)
    BY <2>7, LoadIsValid, CfConfigsAreTyped
  <2>8. CASE UNCHANGED cfvars
    BY <2>8 DEF cfvars, CfInv, ConfigsHold, NormalIsValid, PoliciesSurvive, InStore
  <2> QED BY <2>1, <2>2, <2>3, <2>4, <2>5, <2>6, <2>7, <2>8 DEF CfNext
<1>3. CfInv => ConfigsHold
  BY DEF CfInv
<1> QED BY <1>1, <1>2, <1>3, PTL DEF CfSpec
-----------------------------------------------------------------------------
(***************************************************************************)
(* ModelCompiler.  The search keeps its queue in order of the lengths of   *)
(* the chains, so what needs fewer compilers is done before; and of a      *)
(* directory, what a job has written is known step by step.                *)
(***************************************************************************)
\* What one more compiler makes.
OneMore(M) == M \union {CompilerGraph[i][2] : i \in {k \in DOMAIN CompilerGraph : CompilerGraph[k][1] \in M}}
\* f is what can be made with at most 0, 1, ... n compilers.
MadeUpTo(f, source, n) == f = [m \in 0 .. n |-> IF m = 0 THEN {source} ELSE OneMore(f[m - 1])]

\* There is such an f for every source and number.
LEMMA MadeUpToExists == \A source : \A n \in Nat : \E f : MadeUpTo(f, source, n)
<1> SUFFICES ASSUME NEW source PROVE \A n \in Nat : \E f : MadeUpTo(f, source, n)
  OBVIOUS
<1> DEFINE T == {n \in Nat : \E f : MadeUpTo(f, source, n)}
<1>1. 0 \in T
  <2>1. PICK f : f = [m \in 0 .. 0 |-> {source}]
    OBVIOUS
  <2>2. \A m \in 0 .. 0 : m = 0
    OBVIOUS
  <2>3. MadeUpTo(f, source, 0)
    BY <2>1, <2>2 DEF MadeUpTo
  <2> QED BY <2>3
<1>2. ASSUME NEW n \in Nat, n \in T PROVE n + 1 \in T
  <2>1. PICK f : MadeUpTo(f, source, n)
    BY <1>2
  <2>2. PICK g : g = [m \in 0 .. n + 1 |-> IF m = n + 1 THEN OneMore(f[n]) ELSE f[m]]
    OBVIOUS
  <2>3. ASSUME NEW m \in 0 .. n + 1 PROVE g[m] = IF m = 0 THEN {source} ELSE OneMore(g[m - 1])
    <3>1. CASE m = n + 1
      <4>1. m # 0 /\ m - 1 = n /\ n \in 0 .. n + 1 /\ n # n + 1
        BY <3>1
      <4> QED BY <2>2, <3>1, <4>1
    <3>2. CASE m = 0
      <4>1. 0 \in 0 .. n /\ f[0] = {source} /\ 0 # n + 1
        BY <2>1 DEF MadeUpTo
      <4> QED BY <2>2, <3>2, <4>1
    <3>3. CASE m # 0 /\ m # n + 1
      <4>1. m \in 0 .. n /\ m - 1 \in 0 .. n + 1 /\ m - 1 # n + 1
        BY <3>3
      <4>2. f[m] = OneMore(f[m - 1])
        BY <2>1, <3>3, <4>1 DEF MadeUpTo
      <4> QED BY <2>2, <3>3, <4>1, <4>2
    <3> QED BY <3>1, <3>2, <3>3
  <2>4. MadeUpTo(g, source, n + 1)
    BY <2>2, <2>3 DEF MadeUpTo
  <2> QED BY <2>4
<1>3. \A n \in Nat : n \in T
  <2> HIDE DEF T
  <2> QED BY <1>1, <1>2, NatSetInduction
<1> QED BY <1>3

\* Two of them agree where both say something.
LEMMA MadeUpToAgree ==
  ASSUME NEW source, NEW n \in Nat, NEW k \in Nat, n <= k, NEW f, NEW g, MadeUpTo(f, source, n), MadeUpTo(g, source, k)
  PROVE  \A m \in 0 .. n : f[m] = g[m]
<1> DEFINE T == {m \in Nat : m <= n => f[m] = g[m]}
<1>1. 0 \in T
  BY DEF MadeUpTo
<1>2. ASSUME NEW m \in Nat, m \in T PROVE m + 1 \in T
  <2>1. SUFFICES ASSUME m + 1 <= n PROVE f[m + 1] = g[m + 1]
    OBVIOUS
  <2>2. m + 1 \in 0 .. n /\ m + 1 \in 0 .. k /\ m + 1 # 0 /\ m + 1 - 1 = m /\ f[m] = g[m]
    BY <1>2, <2>1
  <2>3. f[m + 1] = OneMore(f[m]) /\ g[m + 1] = OneMore(g[m])
    <3>1. PICK j : j = m + 1
      OBVIOUS
    <3>2. j \in 0 .. n /\ j \in 0 .. k /\ j # 0 /\ j - 1 = m
      BY <2>2, <3>1
    <3>3. f[j] = OneMore(f[j - 1]) /\ g[j] = OneMore(g[j - 1])
      <4>1. \A i \in 0 .. n : f[i] = IF i = 0 THEN {source} ELSE OneMore(f[i - 1])
        BY DEF MadeUpTo
      <4>2. \A i \in 0 .. k : g[i] = IF i = 0 THEN {source} ELSE OneMore(g[i - 1])
        BY DEF MadeUpTo
      <4> QED BY <3>2, <4>1, <4>2
    <3> QED BY <3>1, <3>2, <3>3
  <2> QED BY <2>2, <2>3
<1>3. \A m \in Nat : m \in T
  <2> HIDE DEF T
  <2> QED BY <1>1, <1>2, NatSetInduction
<1> QED BY <1>3

\* The recursion of MadeFrom, unfolded.
LEMMA MadeIs ==
  ASSUME NEW source
  PROVE  /\ MadeFrom(source)[0] = {source}
         /\ \A n \in Nat : MadeFrom(source)[n + 1] = OneMore(MadeFrom(source)[n])
<1> DEFINE F(n) == CHOOSE f : MadeUpTo(f, source, n)
<1>1. \A n \in Nat : MadeUpTo(F(n), source, n)
  BY MadeUpToExists
<1> HIDE DEF F
<1>2. PICK g : g = [n \in Nat |-> F(n)[n]]
  OBVIOUS
<1>3. ASSUME NEW n \in Nat PROVE g[n] = IF n = 0 THEN {source} ELSE OneMore(g[n - 1])
  <2>1. MadeUpTo(F(n), source, n)
    BY <1>1
  <2>2. n \in 0 .. n /\ F(n)[n] = IF n = 0 THEN {source} ELSE OneMore(F(n)[n - 1])
    <3>1. \A i \in 0 .. n : F(n)[i] = IF i = 0 THEN {source} ELSE OneMore(F(n)[i - 1])
      <4>1. PICK f : f = F(n) /\ MadeUpTo(f, source, n)
        BY <2>1
      <4>2. \A i \in 0 .. n : f[i] = IF i = 0 THEN {source} ELSE OneMore(f[i - 1])
        BY <4>1 DEF MadeUpTo
      <4> QED BY <4>1, <4>2
    <3> QED BY <3>1
  <2>3. CASE n = 0
    BY <1>2, <2>2, <2>3
  <2>4. CASE n # 0
    <3>1. n - 1 \in Nat /\ n - 1 <= n /\ n - 1 \in 0 .. n - 1
      BY <2>4
    <3>2. MadeUpTo(F(n - 1), source, n - 1)
      BY <1>1, <3>1
    <3>3. F(n - 1)[n - 1] = F(n)[n - 1]
      BY <2>1, <3>1, <3>2, MadeUpToAgree
    <3> QED BY <1>2, <2>2, <2>4, <3>1, <3>3
  <2> QED BY <2>3, <2>4
<1>4. g = [n \in Nat |-> IF n = 0 THEN {source} ELSE OneMore(g[n - 1])]
  BY <1>2, <1>3
<1>5. PICK h : h = MadeFrom(source)
  OBVIOUS
<1>6. h = CHOOSE f : f = [n \in Nat |-> IF n = 0 THEN {source} ELSE OneMore(f[n - 1])]
  BY <1>5, Zenon DEF MadeFrom, OneMore
<1>7. h = [n \in Nat |-> IF n = 0 THEN {source} ELSE OneMore(h[n - 1])]
  BY <1>4, <1>6, Zenon
<1>8. h[0] = {source}
  BY <1>7
<1>9. ASSUME NEW n \in Nat PROVE h[n + 1] = OneMore(h[n])
  <2>1. n + 1 \in Nat /\ n + 1 # 0 /\ n + 1 - 1 = n
    OBVIOUS
  <2> QED BY <1>7, <2>1
<1> QED BY <1>5, <1>8, <1>9

\* A chain of compilers from one type to another.
Edges == {CompilerGraph[i] : i \in DOMAIN CompilerGraph}
Leads(chain, from, to) ==
  /\ chain \in Seq(Edges)
  /\ \A i \in DOMAIN chain : chain[i][1] = IF i = 1 THEN from ELSE chain[i - 1][2]
  /\ to = IF chain = <<>> THEN from ELSE chain[Len(chain)][2]

\* What the search knows of a type that waits, and those that are done.
Items(source) == [at : {source} \union {e[2] : e \in Edges}, chain : Seq(Edges)]
Waiting(s) == {s.at} \union {s.queue[i].at : i \in DOMAIN s.queue}
Done(s) == s.visited \ Waiting(s)

SearchIsTyped(s, source) ==
  /\ s = [at |-> s.at, chain |-> s.chain, queue |-> s.queue, visited |-> s.visited]
  /\ Leads(s.chain, source, s.at) /\ s.queue \in Seq(Items(source))
  /\ s.at \in s.visited /\ source \in s.visited
  /\ \A i \in DOMAIN s.queue : Leads(s.queue[i].chain, source, s.queue[i].at) /\ s.queue[i].at \in s.visited
\* The queue is in order of the lengths of the chains, of which there are two.
QueueIsOrdered(s) ==
  /\ \A i \in DOMAIN s.queue : Len(s.queue[i].chain) \in {Len(s.chain), Len(s.chain) + 1}
  /\ \A i, j \in DOMAIN s.queue : i < j => Len(s.queue[i].chain) <= Len(s.queue[j].chain)
\* All that can be made of what is done was visited.
DoneIsClosed(s, target) == /\ \A e \in Edges : e[1] \in Done(s) => e[2] \in s.visited
                           /\ target \notin Done(s)
\* What needs fewer compilers is done, and what waits needs as many as its chain has.
ShorterIsDone(s, made) ==
  /\ Len(s.chain) >= 1 => made[Len(s.chain) - 1] \subseteq Done(s)
  /\ \A i \in DOMAIN s.queue : Len(s.queue[i].chain) = Len(s.chain) + 1 => s.queue[i].at \notin made[Len(s.chain)]
SearchIsRight(s, source, target) ==
  SearchIsTyped(s, source) /\ QueueIsOrdered(s) /\ DoneIsClosed(s, target) /\ ShorterIsDone(s, MadeFrom(source))

\* One more compiler, by the edges of the graph.
LEMMA OneMoreIs == \A M : OneMore(M) = M \union {e[2] : e \in {f \in Edges : f[1] \in M}}
  BY DEF OneMore, Edges

\* _find_path() begins with the source, which was visited, and nothing waits.
LEMMA SearchStarts ==
  ASSUME NEW source, NEW target, NEW s, s = [at |-> source, chain |-> <<>>, queue |-> <<>>, visited |-> {source}]
  PROVE  SearchIsRight(s, source, target)
<1>1. s.at = source /\ s.chain = <<>> /\ s.queue = <<>> /\ s.visited = {source}
  OBVIOUS
<1>2. s.queue \in Seq(Items(source)) /\ DOMAIN s.queue = {} /\ Len(s.chain) = 0 /\ DOMAIN s.chain = {} /\ s.chain \in Seq(Edges)
  BY <1>1
<1>3. Done(s) = {}
  BY <1>1 DEF Done, Waiting
<1>4. SearchIsTyped(s, source)
  BY <1>1, <1>2 DEF SearchIsTyped, Leads
<1>5. QueueIsOrdered(s) /\ ShorterIsDone(s, MadeFrom(source))
  BY <1>2 DEF QueueIsOrdered, ShorterIsDone
<1>6. DoneIsClosed(s, target)
  BY <1>3 DEF DoneIsClosed
<1> QED BY <1>4, <1>5, <1>6 DEF SearchIsRight

\* What the compilers of the chain at hand can make was visited.
LEMMA MadeIsVisited ==
  ASSUME NEW source, NEW target, NEW s, SearchIsRight(s, source, target)
  PROVE  Len(s.chain) \in Nat /\ MadeFrom(source)[Len(s.chain)] \subseteq s.visited
<1>1. PICK d \in Nat : d = Len(s.chain)
  BY DEF SearchIsRight, SearchIsTyped, Leads
<1>2. CASE d = 0
  <2>1. MadeFrom(source)[0] = {source} /\ source \in s.visited
    BY MadeIs DEF SearchIsRight, SearchIsTyped
  <2> QED BY <1>1, <1>2, <2>1
<1>3. CASE d # 0
  <2>1. PICK k \in Nat : k = d - 1
    BY <1>3
  <2>2. MadeFrom(source)[d] = OneMore(MadeFrom(source)[k])
    <3>1. d = k + 1
      BY <2>1
    <3> QED BY <3>1, MadeIs
  <2>3. MadeFrom(source)[k] \subseteq Done(s)
    BY <1>1, <1>3, <2>1 DEF SearchIsRight, ShorterIsDone
  <2>4. Done(s) \subseteq s.visited
    BY DEF Done
  <2>5. \A e \in Edges : e[1] \in Done(s) => e[2] \in s.visited
    BY DEF SearchIsRight, DoneIsClosed
  <2>6. OneMore(MadeFrom(source)[k]) \subseteq s.visited
    BY <2>3, <2>4, <2>5, OneMoreIs
  <2> QED BY <1>1, <2>2, <2>6
<1> QED BY <1>2, <1>3

\* The search ends when nothing waits, and then there is no chain.
LEMMA SearchEnds ==
  ASSUME NEW source, NEW target, NEW s, SearchIsRight(s, source, target), s.at # target, s.queue = <<>>,
         \A e \in Edges : e[1] = s.at => e[2] \in s.visited
  PROVE  \A n \in Nat : target \notin MadeFrom(source)[n]
<1>1. Waiting(s) = {s.at}
  <2>1. DOMAIN s.queue = {}
    OBVIOUS
  <2> QED BY <2>1 DEF Waiting
<1>2. \A x \in s.visited : x = s.at \/ x \in Done(s)
  BY <1>1 DEF Done
<1>3. target \notin s.visited /\ \A e \in Edges : e[1] \in s.visited => e[2] \in s.visited
  BY <1>2 DEF SearchIsRight, DoneIsClosed
<1> DEFINE T == {n \in Nat : MadeFrom(source)[n] \subseteq s.visited}
<1>4. 0 \in T
  BY MadeIs DEF SearchIsRight, SearchIsTyped
<1>5. ASSUME NEW n \in Nat, n \in T PROVE n + 1 \in T
  <2>1. MadeFrom(source)[n + 1] = OneMore(MadeFrom(source)[n])
    BY MadeIs
  <2>2. OneMore(MadeFrom(source)[n]) \subseteq s.visited
    BY <1>3, <1>5, OneMoreIs
  <2> QED BY <2>1, <2>2
<1>6. \A n \in Nat : n \in T
  <2> HIDE DEF T
  <2> QED BY <1>4, <1>5, NatSetInduction
<1> QED BY <1>3, <1>6

\* The search goes on with the first type that waits.
LEMMA SearchPops ==
  ASSUME NEW source, NEW target, NEW s, SearchIsRight(s, source, target), s.at # target, s.queue # <<>>,
         \A e \in Edges : e[1] = s.at => e[2] \in s.visited,
         NEW t, t = [at |-> Head(s.queue).at, chain |-> Head(s.queue).chain, queue |-> Tail(s.queue), visited |-> s.visited]
  PROVE  SearchIsRight(t, source, target)
<1>1. PICK q, n : q = s.queue /\ n = Len(q)
  OBVIOUS
<1>2. q \in Seq(Items(source)) /\ n \in Nat /\ n >= 1 /\ DOMAIN q = 1 .. n
  BY <1>1 DEF SearchIsRight, SearchIsTyped
<1>3. PICK r : r = Tail(q)
  OBVIOUS
<1>4. r \in Seq(Items(source)) /\ DOMAIN r = 1 .. n - 1 /\ \A i \in 1 .. n - 1 : r[i] = q[i + 1]
  BY <1>1, <1>2, <1>3
<1>5. t.at = q[1].at /\ t.chain = q[1].chain /\ t.queue = r /\ t.visited = s.visited
  BY <1>1, <1>2, <1>3
<1>6. \A i \in 1 .. n : Leads(q[i].chain, source, q[i].at) /\ q[i].at \in s.visited
  BY <1>1, <1>2 DEF SearchIsRight, SearchIsTyped
<1>7. 1 \in 1 .. n
  BY <1>2
<1>7a. ASSUME NEW i \in 1 .. n - 1 PROVE \E j \in 1 .. n : j = i + 1 /\ j > 1 /\ r[i] = q[j]
  BY <1>2, <1>4
<1>7b. ASSUME NEW j \in 1 .. n, j # 1 PROVE \E i \in 1 .. n - 1 : j = i + 1 /\ r[i] = q[j]
  <2>1. PICK i \in 1 .. n - 1 : i + 1 = j
    <3>1. j - 1 \in 1 .. n - 1 /\ j - 1 + 1 = j
      BY <1>2, <1>7b
    <3> QED BY <3>1
  <2> QED BY <1>4, <2>1
<1>8. SearchIsTyped(t, source)
  <2>1. Leads(t.chain, source, t.at) /\ t.at \in t.visited
    BY <1>5, <1>6, <1>7
  <2>2. source \in t.visited
    BY <1>5 DEF SearchIsRight, SearchIsTyped
  <2>3. ASSUME NEW i \in DOMAIN t.queue PROVE Leads(t.queue[i].chain, source, t.queue[i].at) /\ t.queue[i].at \in t.visited
    <3>1. i \in 1 .. n - 1
      BY <1>4, <1>5
    <3>2. PICK j \in 1 .. n : r[i] = q[j]
      BY <1>7a, <3>1
    <3> QED BY <1>5, <1>6, <3>2
  <2>4. t = [at |-> t.at, chain |-> t.chain, queue |-> t.queue, visited |-> t.visited]
    BY <1>5
  <2> QED BY <1>4, <1>5, <2>1, <2>2, <2>3, <2>4 DEF SearchIsTyped
<1>9. PICK d \in Nat : d = Len(s.chain)
  BY MadeIsVisited
<1>10. PICK len : len = [i \in 1 .. n |-> Len(q[i].chain)]
  OBVIOUS
<1>11. /\ \A i \in 1 .. n : len[i] \in {d, d + 1}
       /\ \A i, j \in 1 .. n : i < j => len[i] <= len[j]
  BY <1>1, <1>2, <1>9, <1>10 DEF SearchIsRight, QueueIsOrdered
<1>12. Len(t.chain) = len[1]
  BY <1>5, <1>7, <1>10
<1>12a. ASSUME NEW i \in 1 .. n - 1 PROVE \E j \in 1 .. n : j = i + 1 /\ r[i] = q[j] /\ Len(t.queue[i].chain) = len[j]
  <2>1. PICK j \in 1 .. n : j = i + 1 /\ r[i] = q[j]
    BY <1>7a
  <2>2. Len(q[j].chain) = len[j]
    BY <1>10
  <2> QED BY <1>5, <2>1, <2>2
<1>13. ASSUME NEW j \in 1 .. n PROVE len[j] \in {len[1], len[1] + 1}
  <2>1. j = 1 \/ 1 < j
    BY <1>2
  <2>2. len[j] \in {d, d + 1} /\ len[1] \in {d, d + 1}
    BY <1>7, <1>11
  <2>3. len[1] <= len[j]
    <3>1. CASE j = 1
      BY <1>9, <2>2, <3>1
    <3>2. CASE 1 < j
      BY <1>7, <1>11, <3>2
    <3> QED BY <2>1, <3>1, <3>2
  <2> QED BY <1>9, <2>2, <2>3
<1>14. QueueIsOrdered(t)
  <2>1. DOMAIN t.queue = 1 .. n - 1
    BY <1>4, <1>5
  <2>2. ASSUME NEW i \in DOMAIN t.queue PROVE Len(t.queue[i].chain) \in {Len(t.chain), Len(t.chain) + 1}
    <3>1. PICK j \in 1 .. n : Len(t.queue[i].chain) = len[j]
      BY <1>12a, <2>1
    <3> QED BY <1>12, <1>13, <3>1
  <2>3. ASSUME NEW i \in DOMAIN t.queue, NEW k \in DOMAIN t.queue, i < k PROVE Len(t.queue[i].chain) <= Len(t.queue[k].chain)
    <3>1. PICK j \in 1 .. n : j = i + 1 /\ Len(t.queue[i].chain) = len[j]
      BY <1>12a, <2>1
    <3>2. PICK m \in 1 .. n : m = k + 1 /\ Len(t.queue[k].chain) = len[m]
      BY <1>12a, <2>1
    <3>3. j < m
      BY <2>1, <2>3, <3>1, <3>2
    <3> QED BY <1>11, <3>1, <3>2, <3>3
  <2> QED BY <2>2, <2>3 DEF QueueIsOrdered
<1>15. PICK ats : ats = {q[i].at : i \in 1 .. n}
  OBVIOUS
<1>16. Waiting(t) = ats
  <2>1. Waiting(t) = {q[1].at} \union {r[i].at : i \in 1 .. n - 1}
    BY <1>4, <1>5 DEF Waiting
  <2>2. ASSUME NEW x \in Waiting(t) PROVE x \in ats
    <3>1. CASE x = q[1].at
      BY <1>7, <1>15, <3>1
    <3>2. CASE x # q[1].at
      <4>1. PICK i \in 1 .. n - 1 : x = r[i].at
        BY <2>1, <2>2, <3>2
      <4>2. PICK j \in 1 .. n : r[i] = q[j]
        BY <1>7a
      <4> QED BY <1>15, <4>1, <4>2
    <3> QED BY <3>1, <3>2
  <2>3. ASSUME NEW x \in ats PROVE x \in Waiting(t)
    <3>1. PICK j \in 1 .. n : x = q[j].at
      BY <1>15, <2>3
    <3>2. CASE j = 1
      BY <2>1, <3>1, <3>2
    <3>3. CASE j # 1
      <4>1. PICK i \in 1 .. n - 1 : r[i] = q[j]
        BY <1>7b, <3>3
      <4> QED BY <2>1, <3>1, <4>1
    <3> QED BY <3>2, <3>3
  <2> QED BY <2>2, <2>3
<1>17. Waiting(s) = {s.at} \union ats
  BY <1>1, <1>2, <1>15 DEF Waiting
<1>18. Done(t) = s.visited \ ats /\ Done(s) \subseteq Done(t) /\ Done(t) \subseteq Done(s) \union {s.at}
  BY <1>5, <1>16, <1>17 DEF Done
<1>19. DoneIsClosed(t, target)
  BY <1>5, <1>18 DEF SearchIsRight, DoneIsClosed
<1>20. PICK made : made = MadeFrom(source)
  OBVIOUS
<1>21. made[d] \subseteq s.visited
  BY <1>9, <1>20, MadeIsVisited
<1>22. /\ d >= 1 => made[d - 1] \subseteq Done(s)
       /\ \A i \in 1 .. n : len[i] = d + 1 => q[i].at \notin made[d]
  BY <1>1, <1>2, <1>9, <1>10, <1>20 DEF SearchIsRight, ShorterIsDone
<1>23. ShorterIsDone(t, made)
  <2>0. DOMAIN t.queue = 1 .. n - 1
    BY <1>4, <1>5
  <2>1. CASE len[1] = d
    <3>1. Len(t.chain) = d
      BY <1>12, <2>1
    <3>2. Len(t.chain) >= 1 => made[Len(t.chain) - 1] \subseteq Done(t)
      BY <1>18, <1>22, <3>1
    <3>3. ASSUME NEW i \in DOMAIN t.queue, Len(t.queue[i].chain) = Len(t.chain) + 1 PROVE t.queue[i].at \notin made[Len(t.chain)]
      <4>1. PICK j \in 1 .. n : r[i] = q[j] /\ Len(t.queue[i].chain) = len[j]
        BY <1>12a, <2>0
      <4> QED BY <1>5, <1>22, <3>1, <3>3, <4>1
    <3> QED BY <3>2, <3>3 DEF ShorterIsDone
  <2>2. CASE len[1] = d + 1
    <3>1. ASSUME NEW j \in 1 .. n PROVE len[j] = d + 1
      <4>1. len[j] \in {d, d + 1} /\ len[j] \in {len[1], len[1] + 1}
        BY <1>11, <1>13
      <4> QED BY <1>9, <2>2, <4>1
    <3>2. made[d] \cap ats = {}
      BY <1>15, <1>22, <3>1
    <3>3. made[d] \subseteq Done(t)
      BY <1>18, <1>21, <3>2
    <3>4. Len(t.chain) = d + 1
      BY <1>12, <2>2
    <3>5. ASSUME NEW i \in DOMAIN t.queue, Len(t.queue[i].chain) = Len(t.chain) + 1 PROVE FALSE
      <4>1. PICK j \in 1 .. n : Len(t.queue[i].chain) = len[j]
        BY <1>12a, <2>0
      <4>2. len[j] = d + 1
        BY <3>1
      <4> QED BY <1>9, <3>4, <3>5, <4>1, <4>2
    <3>6. PICK c : c = Len(t.chain)
      OBVIOUS
    <3>7. c - 1 = d
      BY <1>9, <3>4, <3>6
    <3> QED BY <3>3, <3>5, <3>6, <3>7 DEF ShorterIsDone
  <2> QED BY <1>7, <1>11, <2>1, <2>2
<1> QED BY <1>8, <1>14, <1>19, <1>20, <1>23 DEF SearchIsRight

\* A chain becomes longer by a compiler of what it leads to.
LEMMA LeadsOn ==
  ASSUME NEW c, NEW source, NEW at, Leads(c, source, at), NEW e \in Edges, e[1] = at
  PROVE  Leads(Append(c, e), source, e[2]) /\ Len(Append(c, e)) = Len(c) + 1
<1>1. PICK d, b : d = Len(c) /\ b = Append(c, e)
  OBVIOUS
<1>2. c \in Seq(Edges) /\ d \in Nat /\ DOMAIN c = 1 .. d
  BY <1>1 DEF Leads
<1>3. b \in Seq(Edges) /\ Len(b) = d + 1 /\ DOMAIN b = 1 .. d + 1 /\ b[d + 1] = e /\ \A i \in 1 .. d : b[i] = c[i]
  BY <1>1, <1>2
<1>4. \A i \in 1 .. d : c[i][1] = IF i = 1 THEN source ELSE c[i - 1][2]
  BY <1>2 DEF Leads
<1>5. at = IF d = 0 THEN source ELSE c[d][2]
  BY <1>1, <1>2 DEF Leads
<1>6. ASSUME NEW i \in 1 .. d + 1 PROVE b[i][1] = IF i = 1 THEN source ELSE b[i - 1][2]
  <2>1. CASE i = d + 1
    <3>1. b[i][1] = at
      BY <1>3, <2>1
    <3>2. CASE d = 0
      <4>1. i = 1 /\ at = source
        BY <1>5, <2>1, <3>2
      <4> QED BY <3>1, <4>1
    <3>3. CASE d # 0
      <4>1. i # 1 /\ i - 1 = d /\ d \in 1 .. d
        BY <1>2, <2>1, <3>3
      <4>2. at = b[d][2]
        BY <1>3, <1>5, <3>3, <4>1
      <4> QED BY <3>1, <4>1, <4>2
    <3> QED BY <3>2, <3>3
  <2>2. CASE i # d + 1
    <3>1. i \in 1 .. d
      BY <1>2, <2>2
    <3>2. i # 1 => i - 1 \in 1 .. d
      BY <1>2, <3>1
    <3>3. b[i] = c[i] /\ (i # 1 => b[i - 1] = c[i - 1])
      BY <1>3, <3>1, <3>2
    <3>4. c[i][1] = IF i = 1 THEN source ELSE c[i - 1][2]
      BY <1>4, <3>1
    <3> QED BY <3>3, <3>4
  <2> QED BY <2>1, <2>2
<1>7. b # <<>> /\ b[Len(b)][2] = e[2]
  BY <1>2, <1>3
<1>8. Leads(b, source, e[2])
  BY <1>3, <1>6, <1>7 DEF Leads
<1> QED BY <1>1, <1>3, <1>8

\* The search lets a type that was not visited wait.
LEMMA SearchGrows ==
  ASSUME NEW source, NEW target, NEW s, SearchIsRight(s, source, target), NEW e \in Edges, e[1] = s.at, e[2] \notin s.visited,
         NEW t, t = [s EXCEPT !.queue = Append(@, [at |-> e[2], chain |-> Append(s.chain, e)]), !.visited = @ \union {e[2]}]
  PROVE  SearchIsRight(t, source, target)
<1>1. PICK q, n, it : q = s.queue /\ n = Len(q) /\ it = [at |-> e[2], chain |-> Append(s.chain, e)]
  OBVIOUS
<1>2. q \in Seq(Items(source)) /\ n \in Nat /\ DOMAIN q = 1 .. n
  BY <1>1 DEF SearchIsRight, SearchIsTyped
<1>3. it.at = e[2] /\ it.chain = Append(s.chain, e)
  BY <1>1
<1>4. PICK d \in Nat : d = Len(s.chain)
  BY MadeIsVisited
<1>5. Leads(it.chain, source, it.at) /\ Len(it.chain) = d + 1
  <2>1. Leads(s.chain, source, s.at)
    BY DEF SearchIsRight, SearchIsTyped
  <2> QED BY <1>3, <1>4, <2>1, LeadsOn
<1>6. it \in Items(source)
  <2>1. it.chain \in Seq(Edges)
    BY <1>5 DEF Leads
  <2> QED BY <1>1, <1>3, <2>1 DEF Items
<1>7. PICK r : r = Append(q, it)
  OBVIOUS
<1>8. r \in Seq(Items(source)) /\ DOMAIN r = 1 .. n + 1 /\ r[n + 1] = it /\ \A i \in 1 .. n : r[i] = q[i]
  BY <1>1, <1>2, <1>6, <1>7
<1>9. s = [at |-> s.at, chain |-> s.chain, queue |-> s.queue, visited |-> s.visited]
  BY DEF SearchIsRight, SearchIsTyped
<1>10. /\ t.at = s.at /\ t.chain = s.chain /\ t.queue = r /\ t.visited = s.visited \union {e[2]}
       /\ t = [at |-> t.at, chain |-> t.chain, queue |-> t.queue, visited |-> t.visited]
  <2>1. t = [at |-> s.at, chain |-> s.chain, queue |-> r, visited |-> s.visited \union {e[2]}]
    <3>1. PICK a, b, c, v : a = s.at /\ b = s.chain /\ c = s.queue /\ v = s.visited /\ s = [at |-> a, chain |-> b, queue |-> c, visited |-> v]
      BY <1>9
    <3>2. r = Append(c, [at |-> e[2], chain |-> Append(b, e)])
      BY <1>1, <1>7, <3>1
    <3> QED BY <3>1, <3>2
  <2>2. PICK a, b, v : a = s.at /\ b = s.chain /\ v = s.visited \union {e[2]}
    OBVIOUS
  <2>3. t = [at |-> a, chain |-> b, queue |-> r, visited |-> v]
    BY <2>1, <2>2
  <2>4. t.at = a /\ t.chain = b /\ t.queue = r /\ t.visited = v
    BY ONLY <2>3
  <2>5. t = [at |-> t.at, chain |-> t.chain, queue |-> t.queue, visited |-> t.visited]
    BY ONLY <2>3, <2>4
  <2> QED BY <2>2, <2>4, <2>5
<1>11. ASSUME NEW i \in 1 .. n + 1 PROVE i \in 1 .. n \/ i = n + 1
  BY <1>2
<1>12. SearchIsTyped(t, source)
  <2>1. Leads(t.chain, source, t.at) /\ t.at \in t.visited /\ source \in t.visited
    BY <1>10 DEF SearchIsRight, SearchIsTyped
  <2>2. ASSUME NEW i \in DOMAIN t.queue PROVE Leads(t.queue[i].chain, source, t.queue[i].at) /\ t.queue[i].at \in t.visited
    <3>1. CASE i = n + 1
      BY <1>3, <1>5, <1>8, <1>10, <3>1
    <3>2. CASE i \in 1 .. n
      <4>1. Leads(q[i].chain, source, q[i].at) /\ q[i].at \in s.visited
        BY <1>1, <1>2, <3>2 DEF SearchIsRight, SearchIsTyped
      <4> QED BY <1>8, <1>10, <3>2, <4>1
    <3> QED BY <1>8, <1>10, <1>11, <3>1, <3>2
  <2> QED BY <1>8, <1>10, <2>1, <2>2 DEF SearchIsTyped
<1>13. PICK len : len = [i \in 1 .. n |-> Len(q[i].chain)]
  OBVIOUS
<1>14. /\ \A i \in 1 .. n : len[i] \in {d, d + 1}
       /\ \A i, j \in 1 .. n : i < j => len[i] <= len[j]
  BY <1>1, <1>2, <1>4, <1>13 DEF SearchIsRight, QueueIsOrdered
<1>15. \A i \in 1 .. n : Len(t.queue[i].chain) = len[i]
  BY <1>8, <1>10, <1>13
<1>16. Len(t.queue[n + 1].chain) = d + 1 /\ Len(t.chain) = d
  BY <1>4, <1>5, <1>8, <1>10
<1>17. QueueIsOrdered(t)
  <2>0. DOMAIN t.queue = 1 .. n + 1
    BY <1>8, <1>10
  <2>1. ASSUME NEW i \in DOMAIN t.queue PROVE Len(t.queue[i].chain) \in {Len(t.chain), Len(t.chain) + 1}
    BY <1>11, <1>14, <1>15, <1>16, <2>0
  <2>2. ASSUME NEW i \in DOMAIN t.queue, NEW j \in DOMAIN t.queue, i < j PROVE Len(t.queue[i].chain) <= Len(t.queue[j].chain)
    <3>1. i \in 1 .. n
      BY <1>2, <2>0, <2>2
    <3>2. len[i] \in Nat /\ len[i] <= d + 1
      BY <1>4, <1>14, <3>1
    <3>3. CASE j = n + 1
      BY <1>15, <1>16, <3>1, <3>2, <3>3
    <3>4. CASE j \in 1 .. n
      BY <1>14, <1>15, <2>2, <3>1, <3>4
    <3> QED BY <1>11, <2>0, <3>3, <3>4
  <2> QED BY <2>1, <2>2 DEF QueueIsOrdered
<1>18. Done(t) = Done(s)
  <2>1. Waiting(s) = {s.at} \union {q[i].at : i \in 1 .. n}
    BY <1>1, <1>2 DEF Waiting
  <2>2. Waiting(t) = {s.at} \union {r[i].at : i \in 1 .. n + 1}
    <3>1. t.at = s.at /\ t.queue = r /\ DOMAIN r = 1 .. n + 1
      BY <1>8, <1>10
    <3> QED BY <3>1 DEF Waiting
  <2>3. ASSUME NEW x PROVE x \in Waiting(t) <=> x \in Waiting(s) \union {e[2]}
    <3>1. ASSUME x \in Waiting(t), x # s.at, x # e[2] PROVE x \in Waiting(s)
      <4>1. PICK i \in 1 .. n + 1 : x = r[i].at
        BY <2>2, <3>1
      <4>2. i \in 1 .. n
        BY <1>3, <1>8, <1>11, <3>1, <4>1
      <4> QED BY <1>8, <2>1, <4>1, <4>2
    <3>2. ASSUME x \in Waiting(s), x # s.at PROVE x \in Waiting(t)
      <4>1. PICK i \in 1 .. n : x = q[i].at
        BY <2>1, <3>2
      <4>2. i \in 1 .. n + 1 /\ r[i] = q[i]
        BY <1>2, <1>8
      <4> QED BY <2>2, <4>1, <4>2
    <3>3. e[2] \in Waiting(t)
      <4>1. n + 1 \in 1 .. n + 1
        BY <1>2
      <4> QED BY <1>3, <1>8, <2>2, <4>1
    <3> QED BY <2>1, <2>2, <3>1, <3>2, <3>3
  <2>4. Waiting(t) = Waiting(s) \union {e[2]}
    BY <2>3
  <2> QED BY <1>10, <2>4 DEF Done
<1>19. DoneIsClosed(t, target)
  BY <1>10, <1>18 DEF SearchIsRight, DoneIsClosed
<1>20. PICK made : made = MadeFrom(source)
  OBVIOUS
<1>21. e[2] \notin made[d]
  BY <1>4, <1>20, MadeIsVisited
<1>22. /\ d >= 1 => made[d - 1] \subseteq Done(s)
       /\ \A i \in 1 .. n : len[i] = d + 1 => q[i].at \notin made[d]
  BY <1>1, <1>2, <1>4, <1>13, <1>20 DEF SearchIsRight, ShorterIsDone
<1>23. ShorterIsDone(t, made)
  <2>1. Len(t.chain) >= 1 => made[Len(t.chain) - 1] \subseteq Done(t)
    BY <1>16, <1>18, <1>22
  <2>2. ASSUME NEW i \in DOMAIN t.queue, Len(t.queue[i].chain) = Len(t.chain) + 1 PROVE t.queue[i].at \notin made[Len(t.chain)]
    <3>1. CASE i = n + 1
      BY <1>3, <1>8, <1>10, <1>16, <1>21, <3>1
    <3>2. CASE i \in 1 .. n
      BY <1>8, <1>10, <1>15, <1>16, <1>22, <2>2, <3>2
    <3> QED BY <1>8, <1>10, <1>11, <3>1, <3>2
  <2> QED BY <2>1, <2>2 DEF ShorterIsDone
<1> QED BY <1>12, <1>17, <1>19, <1>20, <1>23 DEF SearchIsRight

-----------------------------------------------------------------------------
\* The greatest of a finite set of numbers: the one that the fewest exceed.
LEMMA GreatestExists ==
  ASSUME NEW S, S \subseteq Int, S # {}, IsFiniteSet(S)
  PROVE  Max(S) \in S /\ \A n \in S : n <= Max(S)
<1> DEFINE Above(m) == {n \in S : n > m}
           Counts == {Cardinality(Above(m)) : m \in S}
<1>1. \A m \in S : IsFiniteSet(Above(m)) /\ Cardinality(Above(m)) \in Nat
  BY FS_Subset, FS_CardinalityType
<1>2. PICK m \in S : \A n \in S : Cardinality(Above(m)) <= Cardinality(Above(n))
  <2>1. Counts \subseteq Nat /\ Counts # {}
    BY <1>1
  <2>2. PICK c \in Counts : \A d \in Counts : c <= d
    BY <2>1, LeastNumber
  <2> QED BY <2>2
<1>3. ASSUME NEW n \in S PROVE m >= n
  <2> SUFFICES ASSUME n > m PROVE FALSE
    OBVIOUS
  <2>0. ASSUME NEW k \in S, k > n PROVE k > m
    <3>1. k \in Int /\ n \in Int /\ m \in Int
      OBVIOUS
    <3> QED BY <2>0, <3>1
  <2>1. Above(n) \subseteq Above(m) /\ n \in Above(m) /\ n \notin Above(n)
    <3>1. n \in Int /\ ~(n > n)
      OBVIOUS
    <3>2. n \in Above(m) /\ n \notin Above(n)
      BY <3>1
    <3> QED BY <2>0, <3>2
  <2>2. Cardinality(Above(n)) < Cardinality(Above(m))
    <3>1. Above(n) # Above(m) /\ IsFiniteSet(Above(m))
      BY <1>1, <2>1
    <3>2. Cardinality(Above(n)) <= Cardinality(Above(m)) /\ Cardinality(Above(n)) # Cardinality(Above(m))
      BY <2>1, <3>1, FS_Subset
    <3> QED BY <1>1, <3>2
  <2> QED BY <1>1, <1>2, <2>2
<1>4. Max(S) \in S /\ \A n \in S : Max(S) >= n
  BY <1>3 DEF Max
<1> QED BY <1>4

\* _get_next_version() exceeds every number there is.
LEMMA NextVersionIsNew ==
  ASSUME IsFiniteSet(DOMAIN cmDir)
  PROVE  \A name \in DOMAIN cmDir \cap DOMAIN CmNumber : cmDir[name] # PlainFile => CmNumber[name] < CmNextVersion
<1>1. PICK names : names = {n \in DOMAIN cmDir \cap DOMAIN CmNumber : cmDir[n] # PlainFile}
  OBVIOUS
<1>2. IsFiniteSet(names)
  BY <1>1, FS_Subset
<1>3. PICK f : f = [n \in names |-> CmNumber[n]]
  OBVIOUS
<1>4. f \in Surjection(names, Numbers)
  BY <1>1, <1>3 DEF Surjection, Numbers
<1>5. IsFiniteSet(Numbers)
  BY <1>2, <1>4, FS_Surjection
<1>6. IsFiniteSet({0} \union Numbers)
  BY <1>5, FS_Singleton, FS_Union
<1>7. Numbers \subseteq Int
  BY CmNumbersAreExact DEF Numbers
<1>8. PICK S : S = {0} \union Numbers
  OBVIOUS
<1>8a. S \subseteq Int /\ S # {} /\ IsFiniteSet(S)
  BY <1>6, <1>7, <1>8
<1>9. Max(S) \in S /\ \A v \in S : v <= Max(S)
  BY <1>8a, GreatestExists
<1>10. PICK m \in Int : m = Max(S)
  BY <1>8a, <1>9
<1>11. CmNextVersion = m + 1
  BY <1>8, <1>10 DEF CmNextVersion
<1>12. ASSUME NEW name \in DOMAIN cmDir \cap DOMAIN CmNumber, cmDir[name] # PlainFile PROVE CmNumber[name] < CmNextVersion
  <2>1. PICK v : v = CmNumber[name]
    OBVIOUS
  <2>2. v \in Numbers
    BY <1>12, <2>1 DEF Numbers
  <2>3. v \in Int /\ v <= m
    BY <1>7, <1>8, <1>9, <1>10, <2>2
  <2> QED BY <1>11, <2>1, <2>3
<1> QED BY <1>12

\* The graph's compilers, and what can be compiled is no target.
LEMMA GraphIsThere == DOMAIN CompilerGraph \subseteq Nat /\ Len(CompilerGraph) \in Nat
<1>1. Len(CompilerGraph) = 29
  BY DEF CompilerGraph
<1>2. DOMAIN CompilerGraph = 1 .. 29
  BY DEF CompilerGraph
<1> QED BY <1>1, <1>2

Sources == {"KerasModelFile", "OneFlowModelFile", "ONNXModelFile", "OpenvinoModelFile", "FrozenGraphFile", "TfModelFile",
            "SavedModelFile", "TorchModelFile", "PaddlePaddleModelFile"}

\* Whatever the job, the sources are those that are registered.
LEMMA SourcesAreThese ==
  ASSUME NEW job
  PROVE  DOMAIN SourceModels(job) \subseteq Nat /\ \A i \in DOMAIN SourceModels(job) : SourceModels(job)[i][1] \in Sources
<1>1. DOMAIN SourceModels(job) = 1 .. 9
  BY DEF SourceModels
<1>2. ASSUME NEW i \in 1 .. 9 PROVE SourceModels(job)[i][1] \in Sources
  <2>1. i = 1 \/ i = 2 \/ i = 3 \/ i = 4 \/ i = 5 \/ i = 6 \/ i = 7 \/ i = 8 \/ i = 9
    OBVIOUS
  <2> QED BY <2>1 DEF SourceModels, Sources
<1> QED BY <1>1, <1>2

\* A source has to be compiled at least once.
LEMMA SourcesAreNoTargets ==
  ASSUME NEW t \in DOMAIN TargetModels
  PROVE  TargetModels[t] \notin Sources
BY DEF TargetModels, Targets, Sources

-----------------------------------------------------------------------------
\* The steps of a job after its chain was found.
Chained == {"configure", "compile", "describe", "config", "text", "number", "mkdir", "write", "finish", "package", "pack"}
\* The search and what comes of it.
SearchInv ==
  /\ cmPc = "search" => SearchIsRight(cmSearch, cmSource, Target) /\ cmSource \in Sources /\ Target \notin Sources
  /\ cmPc = "configure" => Leads(cmChain, cmSource, Target) /\ Target \notin MadeWithin(Len(cmChain) - 1)
  /\ cmPc \in Chained => cmChain # <<>>
  /\ cmPc = "answer" /\ cmStatus = "failure" => cmSource = "" \/ cmChain # <<>> \/ \A n \in Nat : Target \notin MadeWithin(n)

\* No job runs at first.
LEMMA SearchInvInit == CmInit => SearchInv
  BY DEF CmInit, SearchInv, Chained

\* A job begins its search, or its source or target is not known.
LEMMA SearchInvBegin == Begin => SearchInv'
<1> SUFFICES ASSUME Begin PROVE SearchInv'
  OBVIOUS
<1>1. PICK job \in CmJobs[cmCount + 1] :
        LET accepted == {i \in DOMAIN SourceModels(job) : SourceModels(job)[i][2]}
        IN /\ cmJob' = job
           /\ IF accepted = {} \/ job.target \notin DOMAIN TargetModels
              THEN cmPc' = "answer" /\ cmSource' = ""
              ELSE /\ cmPc' = "search"
                   /\ cmSource' = SourceModels(job)[Min(accepted)][1]
                   /\ cmSearch' = [at |-> cmSource', chain |-> <<>>, queue |-> <<>>, visited |-> {cmSource'}]
  BY DEF Begin, CmGoto
<1>2. PICK accepted : accepted = {i \in DOMAIN SourceModels(job) : SourceModels(job)[i][2]}
  OBVIOUS
<1>3. CASE accepted = {} \/ job.target \notin DOMAIN TargetModels
  <2>1. cmPc' = "answer" /\ cmSource' = ""
    BY <1>1, <1>2, <1>3
  <2> QED BY <2>1 DEF SearchInv, Chained
<1>4. CASE accepted # {} /\ job.target \in DOMAIN TargetModels
  <2>1. /\ cmJob' = job /\ cmPc' = "search" /\ cmSource' = SourceModels(job)[Min(accepted)][1]
        /\ cmSearch' = [at |-> cmSource', chain |-> <<>>, queue |-> <<>>, visited |-> {cmSource'}]
    BY <1>1, <1>2, <1>4
  <2>2. Min(accepted) \in accepted
    <3>1. accepted \subseteq Nat
      BY <1>2, SourcesAreThese
    <3>2. PICK n \in accepted : \A m \in accepted : n <= m
      BY <1>4, <3>1, LeastNumber
    <3> QED BY <3>2 DEF Min
  <2>3. cmSource' \in Sources
    BY <1>2, <2>1, <2>2, SourcesAreThese
  <2>4. Target' \notin Sources
    BY <1>4, <2>1, SourcesAreNoTargets DEF Target
  <2>5. SearchIsRight(cmSearch', cmSource', Target')
    BY <2>1, SearchStarts
  <2> QED BY <2>1, <2>3, <2>4, <2>5 DEF SearchInv, Chained
<1> QED BY <1>3, <1>4

\* A step of the search, case by case.
LEMMA SearchInvSearch == SearchInv /\ Search => SearchInv'
<1> SUFFICES ASSUME SearchInv, Search PROVE SearchInv'
  OBVIOUS
<1> DEFINE found == cmSearch.at = Target
           new == {i \in DOMAIN CompilerGraph : CompilerGraph[i][1] = cmSearch.at /\ CompilerGraph[i][2] \notin cmSearch.visited}
<1>1. cmPc = "search" /\ cmJob' = cmJob /\ cmSource' = cmSource
  BY DEF Search, cmgiven
<1>2. Target' = Target
  BY <1>1 DEF Target
<1>3. SearchIsRight(cmSearch, cmSource, Target) /\ cmSource \in Sources /\ Target \notin Sources
  BY <1>1 DEF SearchInv
<1>4. CASE found /\ cmChain' = cmSearch.chain /\ cmPc' = "configure"
  <2>1. PICK c : c = cmSearch.chain
    OBVIOUS
  <2>2. Leads(c, cmSource, Target)
    BY <1>3, <1>4, <2>1 DEF SearchIsRight, SearchIsTyped
  <2>3. c # <<>>
    BY <1>3, <2>2 DEF Leads
  <2>4. Target \notin MadeFrom(cmSource)[Len(c) - 1]
    <3>1. Len(c) >= 1
      BY <2>2, <2>3 DEF Leads
    <3>2. MadeFrom(cmSource)[Len(c) - 1] \subseteq Done(cmSearch)
      BY <1>3, <2>1, <3>1 DEF SearchIsRight, ShorterIsDone
    <3>3. Target \notin Done(cmSearch)
      BY <1>3 DEF SearchIsRight, DoneIsClosed
    <3> QED BY <3>2, <3>3
  <2> QED BY <1>1, <1>2, <1>4, <2>1, <2>2, <2>3, <2>4 DEF SearchInv, MadeWithin
<1>5. CASE ~found /\ new # {} /\ cmPc' = cmPc
           /\ cmSearch' = [cmSearch EXCEPT !.queue = Append(@, [at |-> CompilerGraph[Min(new)][2], chain |-> Append(cmSearch.chain, CompilerGraph[Min(new)])]),
                                           !.visited = @ \union {CompilerGraph[Min(new)][2]}]
  <2>1. Min(new) \in new
    <3>1. new \subseteq Nat
      BY GraphIsThere
    <3>2. PICK n \in new : \A m \in new : n <= m
      BY <1>5, <3>1, LeastNumber
    <3> QED BY <3>2 DEF Min
  <2>2. PICK e : e = CompilerGraph[Min(new)]
    OBVIOUS
  <2>3. e \in Edges /\ e[1] = cmSearch.at /\ e[2] \notin cmSearch.visited
    BY <2>1, <2>2 DEF Edges
  <2>4. cmSearch' = [cmSearch EXCEPT !.queue = Append(@, [at |-> e[2], chain |-> Append(cmSearch.chain, e)]), !.visited = @ \union {e[2]}]
    BY <1>5, <2>2
  <2>5. SearchIsRight(cmSearch', cmSource, Target)
    BY <1>3, <2>3, <2>4, SearchGrows
  <2> QED BY <1>1, <1>2, <1>3, <1>5, <2>5 DEF SearchInv, Chained
<1>6. ASSUME new = {}, NEW e \in Edges, e[1] = cmSearch.at PROVE e[2] \in cmSearch.visited
  BY <1>6 DEF Edges
<1>7. CASE ~found /\ new = {} /\ cmSearch.queue # <<>> /\ cmPc' = cmPc
           /\ cmSearch' = [at |-> Head(cmSearch.queue).at, chain |-> Head(cmSearch.queue).chain,
                           queue |-> Tail(cmSearch.queue), visited |-> cmSearch.visited]
  <2>1. SearchIsRight(cmSearch', cmSource, Target)
    BY <1>3, <1>6, <1>7, SearchPops
  <2> QED BY <1>1, <1>2, <1>3, <1>7, <2>1 DEF SearchInv, Chained
<1>8. CASE ~found /\ new = {} /\ cmSearch.queue = <<>> /\ cmPc' = "answer" /\ cmChain' = cmChain
  <2>1. \A n \in Nat : Target \notin MadeFrom(cmSource)[n]
    BY <1>3, <1>6, <1>8, SearchEnds
  <2> QED BY <1>1, <1>2, <1>8, <2>1 DEF SearchInv, Chained, MadeWithin
<1> HIDE DEF new, found
<1>9. \/ found /\ cmChain' = cmSearch.chain /\ cmPc' = "configure"
      \/ ~found /\ new # {} /\ cmPc' = cmPc
         /\ cmSearch' = [cmSearch EXCEPT !.queue = Append(@, [at |-> CompilerGraph[Min(new)][2], chain |-> Append(cmSearch.chain, CompilerGraph[Min(new)])]),
                                         !.visited = @ \union {CompilerGraph[Min(new)][2]}]
      \/ ~found /\ new = {} /\ cmSearch.queue # <<>> /\ cmPc' = cmPc
         /\ cmSearch' = [at |-> Head(cmSearch.queue).at, chain |-> Head(cmSearch.queue).chain,
                         queue |-> Tail(cmSearch.queue), visited |-> cmSearch.visited]
      \/ ~found /\ new = {} /\ cmSearch.queue = <<>> /\ cmPc' = "answer" /\ cmChain' = cmChain
  BY DEF Search, found, new, CmGoto, Raise
<1> QED BY <1>4, <1>5, <1>7, <1>8, <1>9

\* The chain stays as it was found.
LEMMA SearchInvStays ==
  ASSUME SearchInv, UNCHANGED <<cmJob, cmSource, cmChain>>,
         cmPc' = "search" => cmPc = "search" /\ cmSearch' = cmSearch,
         cmPc' = "configure" => cmPc = "configure", cmPc' \in Chained => cmPc \in Chained,
         cmPc' = "answer" /\ cmStatus' = "failure" => cmPc \in Chained \/ (cmPc = "answer" /\ cmStatus = "failure")
  PROVE  SearchInv'
<1>1. Target' = Target
  BY DEF Target
<1>2. cmPc' = "search" => SearchIsRight(cmSearch', cmSource', Target') /\ cmSource' \in Sources /\ Target' \notin Sources
  BY <1>1 DEF SearchInv
<1>3. cmPc' = "configure" => Leads(cmChain', cmSource', Target') /\ Target' \notin MadeFrom(cmSource')[Len(cmChain') - 1]
  BY <1>1 DEF SearchInv, MadeWithin
<1>4. cmPc' \in Chained => cmChain' # <<>>
  BY DEF SearchInv
<1>5. cmPc' = "answer" /\ cmStatus' = "failure" => cmSource' = "" \/ cmChain' # <<>> \/ \A n \in Nat : Target' \notin MadeFrom(cmSource')[n]
  BY <1>1 DEF SearchInv, MadeWithin
<1> QED BY <1>2, <1>3, <1>4, <1>5 DEF SearchInv, MadeWithin

\* Every step keeps what is known of the search.
LEMMA SearchInvNext == SearchInv /\ [CmNext]_cmvars => SearchInv'
<1> SUFFICES ASSUME SearchInv, [CmNext]_cmvars PROVE SearchInv'
  OBVIOUS
<1>1. CASE Begin
  BY <1>1, SearchInvBegin
<1>2. CASE Search
  BY <1>2, SearchInvSearch
<1>3. CASE Configure
  BY <1>3, SearchInvStays DEF Configure, CmGoto, Raise, Chained, cmgiven
<1>4. CASE Compile
  BY <1>4, SearchInvStays DEF Compile, CmGoto, Raise, Chained, cmgiven, cmanswer
<1>5. CASE Describe
  BY <1>5, SearchInvStays DEF Describe, CmGoto, Raise, Chained, cmgiven, cmanswer, cmfound
<1>6. CASE WriteConfig
  BY <1>6, SearchInvStays DEF WriteConfig, CmGoto, Raise, Chained, cmgiven, cmanswer, cmfound
<1>7. CASE ChooseVersion
  BY <1>7, SearchInvStays DEF ChooseVersion, CmGoto, Raise, Chained, cmgiven, cmanswer, cmfound
<1>8. CASE MakeVersionDir
  BY <1>8, SearchInvStays DEF MakeVersionDir, CmGoto, Raise, Chained, cmgiven, cmanswer, cmfound
<1>9. CASE WriteModel
  BY <1>9, SearchInvStays DEF WriteModel, CmGoto, Raise, Chained, cmgiven, cmanswer, cmfound
<1>10. CASE Package
  BY <1>10, SearchInvStays DEF Package, CmGoto, Raise, Chained, cmgiven, cmanswer, cmfound
<1>11. CASE Answer
  BY <1>11, SearchInvStays DEF Answer, CmGoto, Chained, cmgiven, cmanswer, cmfound
<1>12. CASE Kill
  BY <1>12, SearchInvStays DEF Kill, CmGoto, Chained, cmgiven, cmanswer, cmfound
<1>13. CASE UNCHANGED cmvars
  BY <1>13, SearchInvStays DEF cmvars, Chained, cmgiven, cmanswer, cmfound
<1> QED BY <1>1, <1>2, <1>3, <1>4, <1>5, <1>6, <1>7, <1>8, <1>9, <1>10, <1>11, <1>12, <1>13 DEF CmNext

\* The property follows.
LEMMA ChainFollows == SearchInv => ChainIsShortest
<1> SUFFICES ASSUME SearchInv PROVE ChainIsShortest
  OBVIOUS
<1>1. ASSUME cmPc = "configure"
      PROVE  /\ \A i \in DOMAIN cmChain : cmChain[i][1] = IF i = 1 THEN cmSource ELSE cmChain[i - 1][2]
             /\ cmChain # <<>> /\ Last(cmChain)[2] = Target /\ Target \notin MadeWithin(Len(cmChain) - 1)
  <2>1. Leads(cmChain, cmSource, Target) /\ Target \notin MadeWithin(Len(cmChain) - 1) /\ cmChain # <<>>
    BY <1>1 DEF SearchInv, Chained
  <2> QED BY <2>1 DEF Leads, Last
<1>2. ASSUME cmPc = "answer", cmStatus = "failure", cmSource # "", cmChain = <<>>
      PROVE  Target \notin MadeWithin(Len(CompilerGraph))
  BY <1>2, GraphIsThere DEF SearchInv
<1> QED BY <1>1, <1>2 DEF ChainIsShortest

-----------------------------------------------------------------------------
\* The steps of a job that has a configuration, a version, a directory of it, and its whole model in there.
Written == {"write", "finish", "package", "pack"}
Versioned == Written \union {"mkdir"}
ConfigMade == Versioned \union {"number"}
Succeeds == cmPc = "answer" /\ cmStatus = "success"
OwnConfig == {[platform |-> cmJob.target, job |-> cmCount]}

\* What a job that chose its version has put into the directory, step by step.
OwnSoFar ==
  CASE cmPc = "write" -> {}
    [] cmPc = "finish" -> {OwnFile(FALSE)}
    [] OTHER -> {OwnFile(TRUE)}

DirIsFinite == IsFiniteSet(DOMAIN cmDir)
JobIsTyped == cmPc # "idle" => cmJob.version \subseteq Int /\ \A u, v \in cmJob.version : u = v
BeforeIsKept ==
  \A name \in DOMAIN cmBefore :
    name \in DOMAIN cmDir /\ (cmDir[name] # cmBefore[name] => \E v \in cmJob.version : name = CmText[v])
VersionIsGood ==
  cmPc \in Versioned \/ Succeeds => cmVersion \in DOMAIN CmText /\ (cmJob.version = {} \/ cmVersion \in cmJob.version)
VersionIsFree == cmPc = "mkdir" /\ cmJob.version = {} /\ Taken => cmDir[Name] = PlainFile
DirIsOwn ==
  cmPc \in Written \/ Succeeds =>
    /\ Name \in DOMAIN cmDir
    /\ cmJob.version = {} => Name \notin DOMAIN cmBefore /\ cmDir[Name] = OwnSoFar
    /\ cmPc \notin {"write", "finish"} => OwnFile(TRUE) \in cmDir[Name]
ConfigIsOwn == cmPc \in ConfigMade => cmConfig = OwnConfig
PackageIsOwn == Succeeds => cmPackages[cmVersion] = cmDir[Name] \union OwnConfig
HeardIsSaid == cmHeard \subseteq {cmStatus} /\ (cmPc \notin {"idle", "answer"} => cmHeard = {})

StoreInv ==
  /\ DirIsFinite /\ JobIsTyped /\ BeforeIsKept /\ VersionIsGood /\ VersionIsFree
  /\ DirIsOwn /\ ConfigIsOwn /\ PackageIsOwn /\ HeardIsSaid

\* Nothing was stored yet by a job.
LEMMA StoreInvInit == CmInit => StoreInv
<1> SUFFICES ASSUME CmInit PROVE StoreInv
  OBVIOUS
<1>1. cmPc = "idle" /\ cmDir \in CmInitial /\ cmBefore = cmDir /\ cmHeard = {}
  BY DEF CmInit
<1>2. DirIsFinite
  BY <1>1, CmJobsAreTyped DEF DirIsFinite
<1>3. BeforeIsKept
  BY <1>1 DEF BeforeIsKept
<1> QED BY <1>1, <1>2, <1>3
     DEF StoreInv, JobIsTyped, VersionIsGood, VersionIsFree, DirIsOwn, ConfigIsOwn, PackageIsOwn, HeardIsSaid,
         ConfigMade, Versioned, Written, Succeeds

\* A job begins: what is in the directory was there before it.
LEMMA StoreInvBegin == StoreInv /\ Begin => StoreInv'
<1> SUFFICES ASSUME StoreInv, Begin PROVE StoreInv'
  OBVIOUS
<1>1. PICK job \in CmJobs[cmCount + 1] : cmJob' = job /\ cmCount + 1 \in DOMAIN CmJobs
  BY DEF Begin
<1>2. /\ cmBefore' = cmDir /\ cmDir' = cmDir /\ cmHeard' = {}
      /\ cmPc' = "search" \/ (cmPc' = "answer" /\ cmStatus' = "failure")
  BY DEF Begin, CmGoto, cmstored
<1>3. JobIsTyped'
  BY <1>1, CmJobsAreTyped DEF JobIsTyped
<1>4. DirIsFinite' /\ BeforeIsKept'
  BY <1>2 DEF StoreInv, DirIsFinite, BeforeIsKept
<1> QED BY <1>2, <1>3, <1>4
     DEF StoreInv, VersionIsGood, VersionIsFree, DirIsOwn, ConfigIsOwn, PackageIsOwn, HeardIsSaid,
         ConfigMade, Versioned, Written, Succeeds

\* A job that has no version yet, that raises, is killed or answers, stores nothing.
LEMMA StoreInvStays ==
  ASSUME StoreInv, UNCHANGED <<cmJob, cmCount, cmBefore, cmDir>>, cmPc = "idle" => cmPc' = "idle",
         cmPc' \in ConfigMade => cmPc' = cmPc /\ cmVersion' = cmVersion /\ cmConfig' = cmConfig,
         cmPc' = "answer" /\ cmStatus' = "success" =>
           Succeeds /\ cmVersion' = cmVersion /\ cmPackages' = cmPackages,
         HeardIsSaid'
  PROVE  StoreInv'
<1>1. DirIsFinite' /\ JobIsTyped' /\ BeforeIsKept'
  BY DEF StoreInv, DirIsFinite, JobIsTyped, BeforeIsKept
<1>2. Succeeds' => Succeeds /\ cmVersion' = cmVersion /\ cmPackages' = cmPackages /\ cmPc' = cmPc
  BY DEF Succeeds
<1>3. cmVersion' = cmVersion => Name' = Name
  BY DEF Name
<1>4. OwnFile(TRUE)' = OwnFile(TRUE) /\ OwnFile(FALSE)' = OwnFile(FALSE)
  BY DEF OwnFile
<1>5. OwnConfig' = OwnConfig
  BY DEF OwnConfig
<1>6. VersionIsGood'
  BY <1>2 DEF StoreInv, VersionIsGood, ConfigMade, Versioned
<1>7. VersionIsFree'
  BY <1>3 DEF StoreInv, VersionIsFree, Taken, ConfigMade, Versioned
<1>8. DirIsOwn'
  <2> SUFFICES ASSUME cmPc' \in Written \/ Succeeds'
               PROVE  /\ Name' \in DOMAIN cmDir'
                      /\ cmJob'.version = {} => Name' \notin DOMAIN cmBefore' /\ cmDir'[Name'] = OwnSoFar'
                      /\ cmPc' \notin {"write", "finish"} => OwnFile(TRUE)' \in cmDir'[Name']
    BY DEF DirIsOwn
  <2>1. (cmPc \in Written \/ Succeeds) /\ cmPc' = cmPc /\ Name' = Name
    BY <1>2, <1>3 DEF ConfigMade, Versioned
  <2>2. OwnSoFar' = OwnSoFar
    BY <1>4, <2>1 DEF OwnSoFar, OwnFile
  <2> QED BY <1>4, <2>1, <2>2 DEF StoreInv, DirIsOwn
<1>9. ConfigIsOwn' /\ PackageIsOwn'
  BY <1>2, <1>3, <1>5 DEF StoreInv, ConfigIsOwn, PackageIsOwn
<1> QED BY <1>1, <1>6, <1>7, <1>8, <1>9 DEF StoreInv

\* config.pbtxt
LEMMA StoreInvConfig == StoreInv /\ WriteConfig => StoreInv'
<1> SUFFICES ASSUME StoreInv, WriteConfig PROVE StoreInv'
  OBVIOUS
<1>1. cmPc \in {"config", "text"} /\ UNCHANGED <<cmJob, cmCount, cmBefore, cmDir, cmVersion, cmHeard, cmPackages>>
  BY DEF WriteConfig, cmgiven, CmGoto, Raise, cmanswer
<1>2. cmHeard = {} /\ HeardIsSaid'
  BY <1>1 DEF StoreInv, HeardIsSaid
<1>3. CASE cmPc = "text" /\ cmConfig' = OwnConfig /\ cmPc' = "number" /\ UNCHANGED cmanswer
  <2>1. DirIsFinite' /\ JobIsTyped' /\ BeforeIsKept'
    BY <1>1 DEF StoreInv, DirIsFinite, JobIsTyped, BeforeIsKept
  <2>2. cmPc' \notin Versioned /\ ~Succeeds' /\ OwnConfig' = OwnConfig
    BY <1>1, <1>3 DEF Versioned, Written, Succeeds, OwnConfig
  <2> QED BY <1>2, <1>3, <2>1, <2>2
       DEF StoreInv, VersionIsGood, VersionIsFree, DirIsOwn, ConfigIsOwn, PackageIsOwn, Versioned
<1>4. CASE cmPc' = "text" \/ Raise
  BY <1>1, <1>2, <1>4, StoreInvStays DEF Raise, CmGoto, ConfigMade, Versioned, Written
<1> QED BY <1>3, <1>4 DEF WriteConfig, CmGoto, OwnConfig

\* The number of the version: nothing but a plain file has the name of the next one.
LEMMA StoreInvNumber == StoreInv /\ ChooseVersion => StoreInv'
<1> SUFFICES ASSUME StoreInv, ChooseVersion PROVE StoreInv'
  OBVIOUS
<1>1. /\ cmPc = "number" /\ cmPc' = "mkdir" /\ UNCHANGED <<cmJob, cmCount, cmBefore, cmDir, cmConfig, cmHeard, cmStatus>>
      /\ cmVersion' = (IF cmJob.version = {} THEN CmNextVersion ELSE Max(cmJob.version)) /\ cmVersion' \in DOMAIN CmText
  BY DEF ChooseVersion, cmgiven, cmstored, CmGoto, cmanswer
<1>2. DirIsFinite' /\ JobIsTyped' /\ BeforeIsKept' /\ HeardIsSaid'
  BY <1>1 DEF StoreInv, DirIsFinite, JobIsTyped, BeforeIsKept, HeardIsSaid
<1>3. VersionIsGood'
  <2>1. ASSUME cmJob.version # {} PROVE Max(cmJob.version) \in cmJob.version
    <3>1. cmJob.version \subseteq Int /\ \A u, v \in cmJob.version : u = v
      BY <1>1 DEF StoreInv, JobIsTyped
    <3>2. PICK v \in cmJob.version : \A u \in cmJob.version : v >= u
      BY <2>1, <3>1
    <3> QED BY <3>2 DEF Max
  <2> QED BY <1>1, <2>1 DEF VersionIsGood
<1>4. VersionIsFree'
  <2>1. SUFFICES ASSUME cmJob.version = {}, CmText[cmVersion'] \in DOMAIN cmDir, cmDir[CmText[cmVersion']] # PlainFile PROVE FALSE
    BY <1>1 DEF VersionIsFree, Taken, Name
  <2>2. PICK v : v = cmVersion'
    OBVIOUS
  <2>3. CmText[v] \in DOMAIN CmNumber /\ CmNumber[CmText[v]] = v
    BY <1>1, <2>2, CmNumbersAreExact
  <2>4. v < CmNextVersion
    BY <2>1, <2>2, <2>3, NextVersionIsNew DEF StoreInv, DirIsFinite
  <2>5. v = CmNextVersion /\ v \in Int
    BY <1>1, <2>1, <2>2, <2>3, CmNumbersAreExact
  <2> QED BY <2>4, <2>5
<1>5. cmPc' \notin Written /\ ~Succeeds' /\ OwnConfig' = OwnConfig /\ cmConfig = OwnConfig
  BY <1>1 DEF Written, Succeeds, OwnConfig, StoreInv, ConfigIsOwn, ConfigMade
<1> QED BY <1>1, <1>2, <1>3, <1>4, <1>5 DEF StoreInv, DirIsOwn, ConfigIsOwn, PackageIsOwn

-----------------------------------------------------------------------------
\* What a step into or in the directory of the version keeps.
LEMMA StoreInvWritten ==
  ASSUME StoreInv, UNCHANGED <<cmJob, cmCount, cmBefore, cmVersion, cmConfig, cmHeard, cmStatus>>,
         cmPc \in Versioned, cmPc' \in Written,
         NEW nm, nm = Name, nm \in DOMAIN cmDir', DOMAIN cmDir' \subseteq DOMAIN cmDir \union {nm}, DOMAIN cmDir \subseteq DOMAIN cmDir',
         \A x \in DOMAIN cmDir \ {nm} : cmDir'[x] = cmDir[x],
         cmDir'[nm] # cmDir[nm] => cmJob.version # {} \/ nm \notin DOMAIN cmBefore,
         cmJob.version = {} => nm \notin DOMAIN cmBefore /\ cmDir'[nm] = OwnSoFar',
         cmPc' \notin {"write", "finish"} => OwnFile(TRUE) \in cmDir'[nm]
  PROVE  StoreInv'
<1>1. Name' = nm /\ OwnFile(TRUE)' = OwnFile(TRUE) /\ OwnConfig' = OwnConfig
  BY DEF Name, OwnFile, OwnConfig
<1>2. cmPc' # "idle" /\ cmPc # "idle" /\ cmPc' # "mkdir" /\ cmPc' # "answer" /\ cmPc # "answer" /\ cmPc \in ConfigMade
  BY DEF Versioned, Written, ConfigMade
<1>3. DirIsFinite'
  <2>1. IsFiniteSet(DOMAIN cmDir) /\ IsFiniteSet({nm})
    BY FS_Singleton DEF StoreInv, DirIsFinite
  <2>2. IsFiniteSet(DOMAIN cmDir \union {nm})
    BY <2>1, FS_Union
  <2> QED BY <2>2, FS_Subset DEF DirIsFinite
<1>4. JobIsTyped' /\ HeardIsSaid'
  BY <1>2 DEF StoreInv, JobIsTyped, HeardIsSaid
<1>5. cmVersion \in DOMAIN CmText /\ (cmJob.version = {} \/ cmVersion \in cmJob.version) /\ VersionIsGood'
  BY DEF StoreInv, VersionIsGood, Versioned
<1>6. BeforeIsKept'
  <2>1. ASSUME NEW name \in DOMAIN cmBefore PROVE name \in DOMAIN cmDir' /\ (cmDir'[name] # cmBefore[name] => \E v \in cmJob.version : name = CmText[v])
    <3>1. name \in DOMAIN cmDir /\ (cmDir[name] # cmBefore[name] => \E v \in cmJob.version : name = CmText[v])
      BY DEF StoreInv, BeforeIsKept
    <3>2. CASE name # nm
      BY <3>1, <3>2
    <3>3. CASE name = nm
      <4>1. cmJob.version # {} => \E v \in cmJob.version : name = CmText[v]
        BY <1>5, <3>3 DEF Name
      <4> QED BY <3>1, <3>3, <4>1
    <3> QED BY <3>2, <3>3
  <2> QED BY <2>1 DEF BeforeIsKept
<1>7. DirIsOwn'
  BY <1>1, <1>2 DEF DirIsOwn, Succeeds
<1>8. VersionIsFree' /\ PackageIsOwn'
  BY <1>2 DEF VersionIsFree, PackageIsOwn, Succeeds
<1>9. ConfigIsOwn'
  BY <1>1, <1>2 DEF StoreInv, ConfigIsOwn
<1> QED BY <1>3, <1>4, <1>5, <1>6, <1>7, <1>8, <1>9 DEF StoreInv

\* The directory of the version: a new one unless the version was given.
LEMMA StoreInvMkdir == StoreInv /\ MakeVersionDir => StoreInv'
<1> SUFFICES ASSUME StoreInv, MakeVersionDir PROVE StoreInv'
  OBVIOUS
<1>1. cmPc = "mkdir" /\ UNCHANGED <<cmJob, cmCount, cmBefore, cmVersion, cmConfig, cmHeard, cmPackages>>
  BY DEF MakeVersionDir, cmgiven, cmanswer, CmGoto, Raise
<1>2. cmHeard = {} /\ HeardIsSaid'
  BY <1>1 DEF StoreInv, HeardIsSaid
<1>3. CASE Raise /\ UNCHANGED cmDir
  BY <1>1, <1>2, <1>3, StoreInvStays DEF Raise, CmGoto, ConfigMade, Versioned, Written
<1>4. CASE ~SaveRefuses /\ cmPc' = "write" /\ UNCHANGED cmanswer
           /\ cmDir' = [n \in DOMAIN cmDir \union {Name} |-> IF n \in DOMAIN cmDir THEN cmDir[n] ELSE {}]
  <2>1. PICK nm : nm = Name
    OBVIOUS
  <2>2. cmJob.version = {} => ~Taken
    BY <1>1, <1>4 DEF StoreInv, VersionIsFree, SaveRefuses
  <2>3. /\ DOMAIN cmDir' = DOMAIN cmDir \union {nm} /\ \A x \in DOMAIN cmDir : cmDir'[x] = cmDir[x]
        /\ nm \notin DOMAIN cmDir => cmDir'[nm] = {}
    BY <1>4, <2>1
  <2>4. nm \notin DOMAIN cmDir => nm \notin DOMAIN cmBefore
    BY DEF StoreInv, BeforeIsKept
  <2>5. OwnSoFar' = {}
    BY <1>4 DEF OwnSoFar
  <2>6. cmJob.version = {} => nm \notin DOMAIN cmDir
    BY <2>1, <2>2 DEF Taken
  <2> QED BY <1>1, <1>4, <2>1, <2>3, <2>4, <2>5, <2>6, StoreInvWritten DEF Versioned, Written, cmanswer
<1> QED BY <1>3, <1>4 DEF MakeVersionDir, CmGoto

\* The files of the model.
LEMMA StoreInvWrite == StoreInv /\ WriteModel => StoreInv'
<1> SUFFICES ASSUME StoreInv, WriteModel PROVE StoreInv'
  OBVIOUS
<1>1. cmPc \in {"write", "finish"} /\ UNCHANGED <<cmJob, cmCount, cmBefore, cmVersion, cmConfig, cmHeard, cmPackages>>
  BY DEF WriteModel, cmgiven, cmanswer, CmGoto, Raise
<1>2. cmHeard = {} /\ HeardIsSaid'
  BY <1>1 DEF StoreInv, HeardIsSaid
<1>3. CASE Raise /\ UNCHANGED cmDir
  BY <1>1, <1>2, <1>3, StoreInvStays DEF Raise, CmGoto, ConfigMade, Versioned, Written
<1>4. PICK nm : nm = Name
  OBVIOUS
<1>5. nm \in DOMAIN cmDir /\ (cmJob.version = {} => nm \notin DOMAIN cmBefore /\ cmDir[nm] = OwnSoFar)
  BY <1>1, <1>4 DEF StoreInv, DirIsOwn, Written
<1>6. ASSUME NEW whole \in BOOLEAN, cmDir' = [cmDir EXCEPT ![Name] = WithOwn(whole)], cmStatus' = cmStatus,
             cmPc = (IF whole THEN "finish" ELSE "write"), cmPc' = (IF whole THEN "package" ELSE "finish")
      PROVE  StoreInv'
  <2>1. DOMAIN cmDir' = DOMAIN cmDir /\ cmDir'[nm] = WithOwn(whole) /\ \A x \in DOMAIN cmDir \ {nm} : cmDir'[x] = cmDir[x]
    BY <1>4, <1>5, <1>6
  <2>2. OwnFile(whole) \in WithOwn(whole)
    BY DEF WithOwn
  <2>3. ASSUME cmJob.version = {} PROVE WithOwn(whole) = OwnSoFar'
    <3>1. WithOwn(whole) = {f \in cmDir[nm] : f.target # cmJob.target} \union {OwnFile(whole)}
      BY <1>4 DEF WithOwn
    <3>2. cmDir[nm] \in {{}, {OwnFile(FALSE)}}
      BY <1>5, <1>6, <2>3 DEF OwnSoFar
    <3>3. OwnFile(FALSE).target = cmJob.target
      BY DEF OwnFile
    <3>4. WithOwn(whole) = {OwnFile(whole)}
      BY <3>1, <3>2, <3>3
    <3>5. OwnSoFar' = {OwnFile(whole)}
      BY <1>1, <1>6 DEF OwnSoFar, OwnFile
    <3> QED BY <3>4, <3>5
  <2> QED BY <1>1, <1>4, <1>5, <1>6, <2>1, <2>2, <2>3, StoreInvWritten DEF Versioned, Written
<1>7. CASE cmPc = "write" /\ cmDir' = [cmDir EXCEPT ![Name] = WithOwn(FALSE)] /\ cmPc' = "finish" /\ UNCHANGED cmanswer
  BY <1>6, <1>7 DEF cmanswer
<1>8. CASE cmPc = "finish" /\ cmDir' = [cmDir EXCEPT ![Name] = WithOwn(TRUE)] /\ cmPc' = "package" /\ UNCHANGED cmanswer
  BY <1>6, <1>8 DEF cmanswer
<1> QED BY <1>3, <1>7, <1>8 DEF WriteModel, CmGoto

\* The package, of what the job has made.
LEMMA StoreInvPackage == StoreInv /\ Package => StoreInv'
<1> SUFFICES ASSUME StoreInv, Package PROVE StoreInv'
  OBVIOUS
<1>1. cmPc \in {"package", "pack"} /\ UNCHANGED <<cmJob, cmCount, cmBefore, cmDir, cmVersion, cmConfig, cmHeard>>
  BY DEF Package, cmgiven, cmanswer, CmGoto, Raise
<1>2. cmHeard = {} /\ HeardIsSaid'
  BY <1>1 DEF StoreInv, HeardIsSaid
<1>3. CASE Raise
  BY <1>1, <1>2, <1>3, StoreInvStays DEF Raise, CmGoto, ConfigMade, Versioned, Written
<1>4. /\ DirIsFinite' /\ JobIsTyped' /\ BeforeIsKept' /\ Name' = Name
      /\ OwnFile(TRUE)' = OwnFile(TRUE) /\ OwnConfig' = OwnConfig /\ cmConfig = OwnConfig
  BY <1>1 DEF StoreInv, DirIsFinite, JobIsTyped, BeforeIsKept, Name, OwnFile, OwnConfig, ConfigIsOwn, ConfigMade, Versioned, Written
<1>5. /\ cmVersion \in DOMAIN CmText /\ (cmJob.version = {} \/ cmVersion \in cmJob.version) /\ Name \in DOMAIN cmDir
      /\ cmJob.version = {} => Name \notin DOMAIN cmBefore /\ cmDir[Name] = {OwnFile(TRUE)}
      /\ OwnFile(TRUE) \in cmDir[Name]
  BY <1>1 DEF StoreInv, VersionIsGood, DirIsOwn, OwnSoFar, Versioned, Written
<1>6. ASSUME cmPc' \in {"pack", "answer"} PROVE VersionIsGood' /\ DirIsOwn' /\ VersionIsFree' /\ OwnSoFar' = {OwnFile(TRUE)}
  <2>1. OwnSoFar' = {OwnFile(TRUE)}
    BY <1>4, <1>6 DEF OwnSoFar, OwnFile
  <2> QED BY <1>1, <1>4, <1>5, <1>6, <2>1 DEF VersionIsGood, DirIsOwn, VersionIsFree
<1>7. CASE cmPc' = "pack" /\ UNCHANGED cmanswer
  BY <1>1, <1>2, <1>4, <1>6, <1>7 DEF StoreInv, ConfigIsOwn, PackageIsOwn, Succeeds
<1>8. CASE cmPc' = "answer" /\ cmStatus' = "success" /\ cmPackages' = Packed(cmDir[Name] \union cmConfig)
  <2>1. PICK v, own : v = cmVersion /\ own = cmDir[Name] \union cmConfig
    OBVIOUS
  <2>2. cmPackages' = Packed(own)
    BY <1>8, <2>1
  <2>3. cmPackages'[v] = own
    BY <2>1, <2>2 DEF Packed
  <2>4. PackageIsOwn'
    BY <1>1, <1>4, <2>1, <2>3 DEF PackageIsOwn
  <2> QED BY <1>1, <1>2, <1>4, <1>6, <1>8, <2>4 DEF StoreInv, ConfigIsOwn, ConfigMade, Versioned, Written
<1> QED BY <1>3, <1>7, <1>8 DEF Package, CmGoto

\* The answer that is sent again is the same.
LEMMA StoreInvAnswer == StoreInv /\ Answer => StoreInv'
<1> SUFFICES ASSUME StoreInv, Answer PROVE StoreInv'
  OBVIOUS
<1>1. /\ cmPc = "answer" /\ cmPc' \in {"answer", "idle"} /\ UNCHANGED <<cmgiven, cmstored, cmVersion, cmStatus>>
      /\ cmHeard' \in {cmHeard, cmHeard \union {cmStatus}}
  BY DEF Answer, CmGoto
<1>2. HeardIsSaid'
  BY <1>1 DEF StoreInv, HeardIsSaid
<1> QED BY <1>1, <1>2, StoreInvStays DEF cmgiven, cmstored, ConfigMade, Versioned, Written, Succeeds

\* Every step keeps what is known of the directory, the packages and the answers.
LEMMA StoreInvNext == StoreInv /\ [CmNext]_cmvars => StoreInv'
<1> SUFFICES ASSUME StoreInv, [CmNext]_cmvars PROVE StoreInv'
  OBVIOUS
<1>1. CASE Begin
  BY <1>1, StoreInvBegin
<1>2. CASE Search \/ Configure \/ Compile \/ Describe
  <2>1. /\ cmPc \in {"search", "configure", "compile", "describe"} /\ UNCHANGED <<cmgiven, cmstored, cmHeard>>
        /\ (cmPc' \in {"search", "configure", "compile", "describe", "config"} \/ (cmPc' = "answer" /\ cmStatus' = "failure"))
    BY <1>2 DEF Search, Configure, Compile, Describe, CmGoto, Raise, cmanswer
  <2>2. HeardIsSaid'
    BY <2>1 DEF StoreInv, HeardIsSaid
  <2> QED BY <2>1, <2>2, StoreInvStays DEF cmgiven, cmstored, ConfigMade, Versioned, Written
<1>3. CASE WriteConfig
  BY <1>3, StoreInvConfig
<1>4. CASE ChooseVersion
  BY <1>4, StoreInvNumber
<1>5. CASE MakeVersionDir
  BY <1>5, StoreInvMkdir
<1>6. CASE WriteModel
  BY <1>6, StoreInvWrite
<1>7. CASE Package
  BY <1>7, StoreInvPackage
<1>8. CASE Answer
  BY <1>8, StoreInvAnswer
<1>9. CASE Kill
  <2>1. cmPc' = "idle" /\ UNCHANGED <<cmgiven, cmstored, cmanswer>>
    BY <1>9 DEF Kill, CmGoto
  <2>2. HeardIsSaid'
    BY <2>1 DEF StoreInv, HeardIsSaid, cmanswer
  <2> QED BY <2>1, <2>2, StoreInvStays DEF cmgiven, cmstored, ConfigMade, Versioned, Written
<1>10. CASE UNCHANGED cmvars
  <2>1. UNCHANGED <<cmPc, cmgiven, cmstored, cmVersion, cmanswer>>
    BY <1>10 DEF cmvars
  <2>2. HeardIsSaid'
    BY <2>1 DEF StoreInv, HeardIsSaid, cmanswer
  <2> QED BY <2>1, <2>2, StoreInvStays DEF cmgiven, cmstored, cmanswer, Succeeds
<1> QED BY <1>1, <1>2, <1>3, <1>4, <1>5, <1>6, <1>7, <1>8, <1>9, <1>10 DEF CmNext

\* The properties follow.
LEMMA VersionsFollow == StoreInv => VersionsAreNew /\ Cardinality(cmHeard) <= 1
<1> SUFFICES ASSUME StoreInv PROVE VersionsAreNew /\ Cardinality(cmHeard) <= 1
  OBVIOUS
<1>1. ASSUME Succeeds
      PROVE  /\ OwnFile(TRUE) \in cmDir[Name]
             /\ cmJob.version = {} => cmDir[Name] = {OwnFile(TRUE)} /\ Name \notin DOMAIN cmBefore
             /\ cmPackages[cmVersion] = cmDir[Name] \union OwnConfig
  BY <1>1 DEF StoreInv, DirIsOwn, PackageIsOwn, OwnSoFar, Succeeds
<1>2. VersionsAreNew
  BY <1>1 DEF VersionsAreNew, StoreInv, BeforeIsKept, Succeeds, OwnConfig
<1>3. Cardinality(cmHeard) <= 1
  <2>1. IsFiniteSet({cmStatus}) /\ Cardinality({cmStatus}) = 1
    BY FS_Singleton
  <2>2. Cardinality(cmHeard) <= Cardinality({cmStatus})
    BY <2>1, FS_Subset DEF StoreInv, HeardIsSaid
  <2> QED BY <2>1, <2>2
<1> QED BY <1>2, <1>3

\* ModelCompiler: the chain of compilers is a shortest one, the search fails
\* only when there is none, nothing that was there is touched by a job that may
\* choose its version, whatever killed jobs have left, success is answered for
\* what was made, and no caller hears two answers.
THEOREM CompilerIsRight == CmSpec => []CompiledHold
<1> DEFINE Inv == SearchInv /\ StoreInv
<1>1. CmInit => Inv
  BY SearchInvInit, StoreInvInit
<1>2. Inv /\ [CmNext]_cmvars => Inv'
  BY SearchInvNext, StoreInvNext
<1>3. Inv => CompiledHold
  BY ChainFollows, VersionsFollow DEF CompiledHold
<1> HIDE DEF Inv
<1> QED BY <1>1, <1>2, <1>3, PTL DEF CmSpec
=============================================================================
