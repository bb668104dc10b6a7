-------------------------- MODULE Containers_proofs --------------------------
(***************************************************************************)
(* For any lists, elements and Optionals: the links of the rings, the      *)
(* numbers of the lists and their loops are right, every operation does to *)
(* the sequences what SequenceLists says, and an Optional holds its value. *)
(***************************************************************************)
EXTENDS MCContainers, WellFoundedInduction, FiniteSetTheorems, SequenceTheorems, TLAPS

\* The order of the natural numbers, for the library's theorem on least elements.
NatOrder == {ss \in Nat \X Nat : ss[1] < ss[2]}
LEMMA NatOrderIsWellFounded == IsWellFoundedOn(NatOrder, Nat)
  BY NatLessThanWellFounded DEF OpToRel, NatOrder

\* Every nonempty set of natural numbers has a least one.
LEMMA LeastNumber == ASSUME NEW S \in SUBSET Nat, S # {} PROVE \E n \in S : \A m \in S : n <= m
<1>1. PICK n \in S : \A m \in S : ~(<<m, n>> \in NatOrder)
  BY NatOrderIsWellFounded, WFMin
<1>2. \A m \in S : m < n => <<m, n>> \in NatOrder
  BY DEF NatOrder
<1>3. \A m \in S : ~(m < n)
  BY <1>1, <1>2
<1> QED BY <1>3

\* Induction for sets of natural numbers.
LEMMA NatSetInduction ==
  ASSUME NEW S, 0 \in S, \A n \in Nat : n \in S => n + 1 \in S
  PROVE  \A n \in Nat : n \in S
<1> SUFFICES ASSUME Nat \ S # {} PROVE FALSE
  OBVIOUS
<1>1. PICK n \in Nat \ S : \A m \in Nat \ S : n <= m
  BY LeastNumber
<1>2. n # 0 /\ n - 1 \in Nat /\ n - 1 \in S
  BY <1>1
<1> QED BY <1>1, <1>2
-----------------------------------------------------------------------------
(* What the sequences are in which the operations result. *)
Put(s, k, t) == SubSeq(s, 1, k - 1) \o t \o SubSeq(s, k, Len(s))
Cut(s, i, j) == SubSeq(s, 1, i - 1) \o SubSeq(s, j + 1, Len(s))

\* Two sequences are equal when they agree at every place.
LEMMA SameSeq ==
  ASSUME NEW S, NEW a \in Seq(S), NEW b \in Seq(S), Len(a) = Len(b), \A k \in 1 .. Len(a) : a[k] = b[k]
  PROVE  a = b
OBVIOUS

\* What a concatenation has at each place; the same for three sequences.
LEMMA JoinIs ==
  ASSUME NEW S, NEW a \in Seq(S), NEW b \in Seq(S)
  PROVE  /\ a \o b \in Seq(S) /\ Len(a \o b) = Len(a) + Len(b)
         /\ \A k \in 1 .. Len(a) : (a \o b)[k] = a[k]
         /\ \A k \in 1 .. Len(b) : (a \o b)[Len(a) + k] = b[k]
OBVIOUS

LEMMA JoinTypes ==
  ASSUME NEW S, NEW a \in Seq(S), NEW b \in Seq(S), NEW c \in Seq(S)
  PROVE  /\ a \o b \o c \in Seq(S) /\ Len(a \o b \o c) = Len(a) + Len(b) + Len(c)
         /\ \A k \in 1 .. Len(a) : (a \o b \o c)[k] = a[k]
         /\ \A k \in 1 .. Len(b) : (a \o b \o c)[Len(a) + k] = b[k]
         /\ \A k \in 1 .. Len(c) : (a \o b \o c)[Len(a) + Len(b) + k] = c[k]
<1>0. PICK d : d = a \o b
  OBVIOUS
<1>1. d \in Seq(S) /\ d = a \o b
  BY <1>0
<1>2. d \o c \in Seq(S) /\ Len(d \o c) = Len(d) + Len(c) /\ Len(d) = Len(a) + Len(b)
  BY <1>1
<1>3. \A k \in 1 .. Len(d) : (d \o c)[k] = d[k]
  BY <1>1
<1>4. \A k \in 1 .. Len(c) : (d \o c)[Len(d) + k] = c[k]
  BY <1>1
<1>5. (\A k \in 1 .. Len(a) : d[k] = a[k]) /\ \A k \in 1 .. Len(b) : d[Len(a) + k] = b[k]
  BY <1>1
<1>6. (\A k \in 1 .. Len(a) : k \in 1 .. Len(d)) /\ \A k \in 1 .. Len(b) : Len(a) + k \in 1 .. Len(d)
  BY <1>2
<1>7. /\ d \o c \in Seq(S) /\ Len(d \o c) = Len(a) + Len(b) + Len(c)
      /\ (\A k \in 1 .. Len(a) : (d \o c)[k] = a[k])
      /\ (\A k \in 1 .. Len(b) : (d \o c)[Len(a) + k] = b[k])
      /\ \A k \in 1 .. Len(c) : (d \o c)[Len(a) + Len(b) + k] = c[k]
  BY <1>2, <1>3, <1>4, <1>5, <1>6
<1> QED BY <1>1, <1>7, Zenon

\* What a part of a sequence has at each place.
LEMMA PartIs ==
  ASSUME NEW S, NEW s \in Seq(S), NEW i \in 1 .. Len(s) + 1, NEW j \in i - 1 .. Len(s)
  PROVE  /\ SubSeq(s, i, j) \in Seq(S) /\ Len(SubSeq(s, i, j)) = j - i + 1
         /\ \A k \in 1 .. j - i + 1 : SubSeq(s, i, j)[k] = s[i - 1 + k]
<1>1. Len(SubSeq(s, i, j)) = j - i + 1
  OBVIOUS
<1>2. \A k \in 1 .. j - i + 1 : SubSeq(s, i, j)[k] = s[i - 1 + k]
  OBVIOUS
<1>3. SubSeq(s, i, j) \in Seq(S)
  OBVIOUS
<1> QED BY <1>1, <1>2, <1>3

\* What a sequence is after t was put in before place k.
LEMMA PutIs ==
  ASSUME NEW S, NEW s \in Seq(S), NEW t \in Seq(S), NEW k \in 1 .. Len(s) + 1
  PROVE  /\ Put(s, k, t) \in Seq(S) /\ Len(Put(s, k, t)) = Len(s) + Len(t)
         /\ \A i \in 1 .. k - 1 : Put(s, k, t)[i] = s[i]
         /\ \A i \in 1 .. Len(t) : Put(s, k, t)[k - 1 + i] = t[i]
         /\ \A i \in k .. Len(s) : Put(s, k, t)[i + Len(t)] = s[i]
<1>a. PICK a : a = SubSeq(s, 1, k - 1)
  OBVIOUS
<1>b. PICK b : b = SubSeq(s, k, Len(s))
  OBVIOUS
<1>1. a \in Seq(S) /\ a = SubSeq(s, 1, k - 1) /\ Len(a) = k - 1 /\ \A i \in 1 .. k - 1 : a[i] = s[i]
  BY <1>a
<1>2. b \in Seq(S) /\ b = SubSeq(s, k, Len(s)) /\ Len(b) = Len(s) - k + 1 /\ \A i \in 1 .. Len(b) : b[i] = s[i + k - 1]
  BY <1>b
<1>3. PICK p : p = a \o t \o b
  OBVIOUS
<1>4. Put(s, k, t) = p
  BY <1>1, <1>2, <1>3, Zenon DEF Put
<1>5. /\ p \in Seq(S) /\ Len(p) = Len(a) + Len(t) + Len(b)
      /\ (\A i \in 1 .. Len(a) : p[i] = a[i])
      /\ (\A i \in 1 .. Len(t) : p[Len(a) + i] = t[i])
      /\ \A i \in 1 .. Len(b) : p[Len(a) + Len(t) + i] = b[i]
  <2>1. a \in Seq(S) /\ b \in Seq(S)
    BY <1>1, <1>2
  <2> QED BY <1>3, <2>1, JoinTypes
<1>6. p \in Seq(S) /\ Len(p) = Len(s) + Len(t)
  BY <1>1, <1>2, <1>5
<1>7. \A i \in 1 .. k - 1 : p[i] = s[i]
  BY <1>1, <1>5
<1>8. \A i \in 1 .. Len(t) : p[k - 1 + i] = t[i]
  BY <1>1, <1>5
<1>9. ASSUME NEW i \in k .. Len(s) PROVE p[i + Len(t)] = s[i]
  <2>1. i - k + 1 \in 1 .. Len(b)
    BY <1>2
  <2>2. p[k - 1 + Len(t) + (i - k + 1)] = b[i - k + 1]
    BY <1>1, <1>5, <2>1
  <2>3. k - 1 + Len(t) + (i - k + 1) = i + Len(t) /\ (i - k + 1) + k - 1 = i
    OBVIOUS
  <2> QED BY <1>2, <2>1, <2>2, <2>3
<1> QED BY <1>4, <1>6, <1>7, <1>8, <1>9, Zenon

\* What a sequence is after the places i to j were cut out.
LEMMA CutIs ==
  ASSUME NEW S, NEW s \in Seq(S), NEW i \in 1 .. Len(s), NEW j \in i .. Len(s)
  PROVE  /\ Cut(s, i, j) \in Seq(S) /\ Len(Cut(s, i, j)) = Len(s) - (j - i + 1)
         /\ \A k \in 1 .. i - 1 : Cut(s, i, j)[k] = s[k]
         /\ \A k \in i .. Len(s) - (j - i + 1) : Cut(s, i, j)[k] = s[k + (j - i + 1)]
<1>a. PICK a : a = SubSeq(s, 1, i - 1)
  OBVIOUS
<1>b. PICK b : b = SubSeq(s, j + 1, Len(s))
  OBVIOUS
<1>1. a \in Seq(S) /\ a = SubSeq(s, 1, i - 1) /\ Len(a) = i - 1 /\ \A k \in 1 .. i - 1 : a[k] = s[k]
  BY <1>a
<1>2. b \in Seq(S) /\ b = SubSeq(s, j + 1, Len(s)) /\ Len(b) = Len(s) - j /\ \A k \in 1 .. Len(b) : b[k] = s[k + j]
  BY <1>b
<1>3. PICK p : p = a \o b
  OBVIOUS
<1>4. Cut(s, i, j) = p
  BY <1>1, <1>2, <1>3, Zenon DEF Cut
<1>5. /\ p \in Seq(S) /\ Len(p) = Len(a) + Len(b)
      /\ (\A k \in 1 .. Len(a) : p[k] = a[k]) /\ \A k \in 1 .. Len(b) : p[Len(a) + k] = b[k]
  <2>1. a \in Seq(S) /\ b \in Seq(S)
    BY <1>1, <1>2
  <2> QED BY <1>3, <2>1, JoinIs
<1>6. p \in Seq(S) /\ Len(p) = Len(s) - (j - i + 1)
  BY <1>1, <1>2, <1>5
<1>7. \A k \in 1 .. i - 1 : p[k] = s[k]
  BY <1>1, <1>5
<1>8. ASSUME NEW k \in i .. Len(s) - (j - i + 1) PROVE p[k] = s[k + (j - i + 1)]
  <2>1. k - i + 1 \in 1 .. Len(b) /\ i - 1 + (k - i + 1) = k /\ (k - i + 1) + j = k + (j - i + 1)
    BY <1>2
  <2>2. p[i - 1 + (k - i + 1)] = b[k - i + 1]
    BY <1>1, <1>5, <2>1
  <2> QED BY <1>2, <2>1, <2>2
<1> QED BY <1>4, <1>6, <1>7, <1>8, Zenon
-----------------------------------------------------------------------------
(* What the pointers say of the sequences. *)
Rings == [next : [Nodes -> Nodes], prev : [Nodes -> Nodes]]
Contenting == [Lists -> Seq(Elems)]

\* The head of a list is before its first element and behind its last one.
NodeAt(s, h, k) == IF k \in 1 .. Len(s) THEN s[k] ELSE h

\* The pointers by lead from the head along s back to it; r does so both ways; it
\* links the elements of t, which are in no list.
Follows(by, h, s) == \A k \in 0 .. Len(s) : by[NodeAt(s, h, k)] = NodeAt(s, h, k + 1)
Linked(r, h, s) == \A k \in 0 .. Len(s) : /\ r.next[NodeAt(s, h, k)] = NodeAt(s, h, k + 1)
                                          /\ r.prev[NodeAt(s, h, k + 1)] = NodeAt(s, h, k)
Chained(r, t) == \A k \in 1 .. Len(t) - 1 : r.next[t[k]] = t[k + 1] /\ r.prev[t[k + 1]] = t[k]

\* No element is in two places.
Injective(s) == \A i, j \in 1 .. Len(s) : s[i] = s[j] => i = j
Apart(L) == \A g, h \in Lists : \A i \in 1 .. Len(L[g]), j \in 1 .. Len(L[h]) :
              L[g][i] = L[h][j] => g = h /\ i = j
Loose(L, t) == \A h \in Lists : \A i \in 1 .. Len(L[h]), j \in 1 .. Len(t) : L[h][i] # t[j]

\* The ring r links the lists of L, and the elements of t with one another.
Represents(r, L, t) == /\ r \in Rings /\ L \in Contenting /\ t \in Seq(Elems)
                       /\ Apart(L) /\ Loose(L, t) /\ Injective(t) /\ Chained(r, t)
                       /\ \A h \in Lists : Linked(r, h, L[h])

\* What the macros do to the pointers, as functions of the node.
LEMMA UnspliceIs ==
  ASSUME NEW r \in Rings, NEW a \in Nodes, NEW b \in Nodes, NEW p \in Nodes, NEW q \in Nodes,
         r.prev[a] = p, r.next[b] = q, p # b, NEW u, u = Unsplice(r, a, b)
  PROVE  /\ u \in Rings
         /\ \A x \in Nodes : /\ u.next[x] = IF x = p THEN q ELSE r.next[x]
                             /\ u.prev[x] = IF x = q THEN p ELSE r.prev[x]
BY DEF Rings, Unsplice

LEMMA SpliceBeforeIs ==
  ASSUME NEW r \in Rings, NEW p \in Nodes, NEW q \in Nodes, NEW a \in Nodes, NEW b \in Nodes,
         r.prev[p] = q, p # a, q # b, NEW u, u = SpliceBefore(r, p, a, b)
  PROVE  /\ u \in Rings
         /\ \A x \in Nodes : /\ u.next[x] = IF x = q THEN a ELSE IF x = b THEN p ELSE r.next[x]
                             /\ u.prev[x] = IF x = p THEN b ELSE IF x = a THEN q ELSE r.prev[x]
<1>1. u = [next |-> [r.next EXCEPT ![b] = p, ![q] = a], prev |-> [r.prev EXCEPT ![a] = q, ![p] = b]]
  BY DEF Rings, SpliceBefore
<1> QED BY <1>1 DEF Rings

LEMMA RingIs == ASSUME NEW x \in Rings, NEW y \in Rings, x.next = y.next, x.prev = y.prev PROVE x = y
BY DEF Rings

\* Behind a node is before the next one.
LEMMA AfterIsBefore ==
  ASSUME NEW r \in Rings, NEW p \in Nodes, NEW a \in Nodes, NEW b \in Nodes,
         r.prev[r.next[p]] = p, p # b, r.next[p] # a
  PROVE  SpliceAfter(r, p, a, b) = SpliceBefore(r, r.next[p], a, b)
<1>1. PICK q \in Nodes : q = r.next[p]
  BY DEF Rings
<1>2. PICK x : x = SpliceAfter(r, p, a, b)
  OBVIOUS
<1>3. PICK y : y = SpliceBefore(r, q, a, b)
  OBVIOUS
<1>4. x \in Rings /\ x.next = [r.next EXCEPT ![b] = q, ![p] = a] /\ x.prev = [r.prev EXCEPT ![a] = p, ![q] = b]
  <2>1. /\ SpliceAfter(r, p, a, b) \in Rings
        /\ SpliceAfter(r, p, a, b).next = [r.next EXCEPT ![b] = r.next[p], ![p] = a]
        /\ SpliceAfter(r, p, a, b).prev = [r.prev EXCEPT ![a] = p, ![r.next[p]] = b]
    BY DEF Rings, SpliceAfter
  <2> QED BY <1>1, <1>2, <2>1, Zenon
<1>p. r.prev[q] = p /\ q # a
  BY <1>1
<1>5. y \in Rings /\ y.next = [r.next EXCEPT ![b] = q, ![p] = a] /\ y.prev = [r.prev EXCEPT ![a] = p, ![q] = b]
    <2>1. /\ SpliceBefore(r, q, a, b) \in Rings
        /\ SpliceBefore(r, q, a, b).next = [r.next EXCEPT ![b] = q, ![r.prev[q]] = a]
        /\ SpliceBefore(r, q, a, b).prev = [r.prev EXCEPT ![a] = r.prev[q], ![q] = b]
    BY <1>p DEF Rings, SpliceBefore
  <2> QED BY <1>p, <1>3, <2>1, Zenon
<1>6. x = y
  BY <1>4, <1>5, RingIs
<1> QED BY <1>1, <1>2, <1>3, <1>6

\* A node is at one place of one list only.
LEMMA NodesApart ==
  ASSUME NEW L \in Contenting, Apart(L), NEW g \in Lists, NEW h \in Lists
  PROVE  /\ \A i \in 0 .. Len(L[g]), j \in 0 .. Len(L[h]) :
              NodeAt(L[g], g, i) = NodeAt(L[h], h, j) => g = h /\ i = j
         /\ \A i \in 1 .. Len(L[g]) + 1, j \in 1 .. Len(L[h]) + 1 :
              NodeAt(L[g], g, i) = NodeAt(L[h], h, j) => g = h /\ i = j
<1>1. L[g] \in Seq(Elems) /\ L[h] \in Seq(Elems)
  BY DEF Contenting
<1>2. (\A i \in 1 .. Len(L[g]) : L[g][i] \in Elems) /\ \A i \in 1 .. Len(L[h]) : L[h][i] \in Elems
  BY <1>1
<1>3. g \notin Elems /\ h \notin Elems
  BY HeadsAreNoElems
<1> QED BY <1>1, <1>2, <1>3 DEF Apart, NodeAt

LEMMA NodeIsNode ==
  ASSUME NEW s \in Seq(Elems), NEW h \in Lists, NEW k
  PROVE  NodeAt(s, h, k) \in Nodes
BY DEF NodeAt, Nodes

\* Taking out the elements from i to j of a list.
LEMMA CutKeeps ==
  ASSUME NEW r, NEW L, Represents(r, L, <<>>), NEW h \in Lists,
         NEW i \in 1 .. Len(L[h]), NEW j \in i .. Len(L[h])
  PROVE  Represents(Unsplice(r, L[h][i], L[h][j]), [L EXCEPT ![h] = Cut(L[h], i, j)], SubSeq(L[h], i, j))
<1> DEFINE s == L[h]
           M == [L EXCEPT ![h] = Cut(L[h], i, j)]
           u == Unsplice(r, L[h][i], L[h][j])
           t == SubSeq(L[h], i, j)
           d == j - i + 1
<1>1. /\ r \in Rings /\ L \in Contenting /\ Apart(L)
      /\ \A g \in Lists : L[g] \in Seq(Elems) /\ Linked(r, g, L[g])
  BY DEF Represents, Contenting
<1>r. r \in Rings
  BY <1>1
<1>a. Apart(L)
  BY <1>1
<1>2. /\ Cut(s, i, j) \in Seq(Elems) /\ Len(Cut(s, i, j)) = Len(s) - d
      /\ (\A k \in 1 .. i - 1 : Cut(s, i, j)[k] = s[k])
      /\ \A k \in i .. Len(s) - d : Cut(s, i, j)[k] = s[k + d]
  BY <1>1, CutIs
<1>3. t \in Seq(Elems) /\ Len(t) = d /\ \A k \in 1 .. d : t[k] = s[i - 1 + k]
  <2>1. i \in 1 .. Len(s) + 1 /\ j \in i - 1 .. Len(s)
    OBVIOUS
  <2> QED BY <1>1, <2>1, PartIs
<1>4. M \in Contenting /\ M[h] = Cut(s, i, j) /\ \A g \in Lists \ {h} : M[g] = L[g]
  BY <1>1, <1>2 DEF Contenting
<1>5. \A k \in 1 .. Len(s) : s[k] \in Elems /\ s[k] \in Nodes /\ NodeAt(s, h, k) = s[k]
  BY <1>1 DEF Nodes, NodeAt
<1>6. PICK p \in Nodes : p = NodeAt(s, h, i - 1)
  BY <1>1, NodeIsNode
<1>7. PICK q \in Nodes : q = NodeAt(s, h, j + 1)
  BY <1>1, NodeIsNode
<1>8. r.prev[s[i]] = p /\ r.next[s[j]] = q
  <2>1. i - 1 \in 0 .. Len(s) /\ (i - 1) + 1 = i /\ j \in 0 .. Len(s) /\ j \in 1 .. Len(s)
    OBVIOUS
  <2> QED BY <1>1, <1>5, <1>6, <1>7, <2>1 DEF Linked
<1>9. p # s[j]
  <2>1. j \in 0 .. Len(s) /\ i - 1 \in 0 .. Len(s) /\ i - 1 # j /\ j \in 1 .. Len(s)
    OBVIOUS
  <2> QED BY <1>1, <1>5, <1>6, <2>1, NodesApart
<1>10. /\ u \in Rings
       /\ \A x \in Nodes : /\ u.next[x] = IF x = p THEN q ELSE r.next[x]
                           /\ u.prev[x] = IF x = q THEN p ELSE r.prev[x]
  <2>1. PICK a \in Nodes : a = s[i] /\ r.prev[a] = p
    <3>1. i \in 1 .. Len(s)
      OBVIOUS
    <3> QED BY <1>5, <1>8, <3>1
  <2>2. PICK b \in Nodes : b = s[j] /\ r.next[b] = q /\ p # b
    <3>1. j \in 1 .. Len(s)
      OBVIOUS
    <3> QED BY <1>5, <1>8, <1>9, <3>1
  <2>3. u = Unsplice(r, a, b)
    BY <2>1, <2>2
  <2> QED BY <1>r, <2>1, <2>2, <2>3, UnspliceIs
<1> HIDE DEF u, M, t
<1>11. ASSUME NEW g \in Lists \ {h} PROVE Linked(u, g, M[g])
  <2>1. ASSUME NEW k \in 0 .. Len(L[g])
        PROVE  NodeAt(L[g], g, k) # p /\ NodeAt(L[g], g, k + 1) # q
    <3>1. k + 1 \in 1 .. Len(L[g]) + 1 /\ i - 1 \in 0 .. Len(s) /\ j + 1 \in 1 .. Len(s) + 1
      BY <1>1
    <3> QED BY <1>1, <1>6, <1>7, <3>1, NodesApart
  <2>2. ASSUME NEW k \in 0 .. Len(L[g])
        PROVE  NodeAt(L[g], g, k) \in Nodes /\ NodeAt(L[g], g, k + 1) \in Nodes
    BY <1>1, NodeIsNode
  <2> QED BY <1>1, <1>4, <1>10, <2>1, <2>2 DEF Linked, Rings
<1>12. Linked(u, h, M[h])
  <2>1. SUFFICES ASSUME NEW k \in 0 .. Len(s) - d
                 PROVE  /\ u.next[NodeAt(M[h], h, k)] = NodeAt(M[h], h, k + 1)
                        /\ u.prev[NodeAt(M[h], h, k + 1)] = NodeAt(M[h], h, k)
    BY <1>2, <1>4 DEF Linked
  <2>2. ASSUME NEW m \in 0 .. i - 1 PROVE NodeAt(M[h], h, m) = NodeAt(s, h, m)
    BY <1>2, <1>4 DEF NodeAt
  <2>3. ASSUME NEW m \in i .. Len(s) - d + 1 PROVE NodeAt(M[h], h, m) = NodeAt(s, h, m + d)
    BY <1>2, <1>4 DEF NodeAt
  <2>4. CASE k < i - 1
    <3>1. k \in 0 .. i - 1 /\ k + 1 \in 0 .. i - 1 /\ k \in 0 .. Len(s)
      BY <2>4
    <3>2. NodeAt(s, h, k) # p
      BY <1>1, <1>6, <2>4, <3>1, NodesApart
    <3>3. NodeAt(s, h, k + 1) # q
      <4>1. k + 1 \in 1 .. Len(s) + 1 /\ j + 1 \in 1 .. Len(s) + 1 /\ k + 1 # j + 1
        BY <2>4
      <4> QED BY <1>1, <1>7, <4>1, NodesApart
    <3> QED BY <1>1, <1>10, <2>2, <3>1, <3>2, <3>3, NodeIsNode DEF Linked, Rings
  <2>5. CASE k = i - 1
    <3>1. NodeAt(M[h], h, k) = p
      BY <1>6, <2>2, <2>5
    <3>2. NodeAt(M[h], h, k + 1) = q
      <4>1. k + 1 \in i .. Len(s) - d + 1 /\ k + 1 + d = j + 1
        BY <2>5
      <4> QED BY <1>7, <2>3, <4>1
    <3> QED BY <1>10, <3>1, <3>2 DEF Rings
  <2>6. CASE k > i - 1
    <3>1. k \in i .. Len(s) - d + 1 /\ k + 1 \in i .. Len(s) - d + 1 /\ k + d \in 0 .. Len(s) /\ (k + 1) + d = (k + d) + 1
      BY <2>6
    <3>2. NodeAt(s, h, k + d) # p
      <4>1. i - 1 \in 0 .. Len(s) /\ i - 1 # k + d
        BY <2>6
      <4> QED BY <1>1, <1>6, <3>1, <4>1, NodesApart
    <3>3. NodeAt(s, h, (k + d) + 1) # q
      <4>1. (k + d) + 1 \in 1 .. Len(s) + 1 /\ j + 1 \in 1 .. Len(s) + 1 /\ (k + d) + 1 # j + 1
        BY <2>6
      <4> QED BY <1>1, <1>7, <4>1, NodesApart
    <3>4. NodeAt(M[h], h, k) = NodeAt(s, h, k + d) /\ NodeAt(M[h], h, k + 1) = NodeAt(s, h, (k + d) + 1)
      BY <2>3, <3>1
    <3>5. r.next[NodeAt(s, h, k + d)] = NodeAt(s, h, (k + d) + 1) /\ r.prev[NodeAt(s, h, (k + d) + 1)] = NodeAt(s, h, k + d)
      BY <1>1, <3>1 DEF Linked
    <3>6. NodeAt(s, h, k + d) \in Nodes /\ NodeAt(s, h, (k + d) + 1) \in Nodes
      BY <1>1, NodeIsNode
    <3> HIDE DEF d
    <3> QED BY <1>1, <1>10, <3>2, <3>3, <3>4, <3>5, <3>6 DEF Rings
  <2> QED BY <2>4, <2>5, <2>6
<1>13. Chained(u, t)
  <2> SUFFICES ASSUME NEW k \in 1 .. d - 1
               PROVE  u.next[t[k]] = t[k + 1] /\ u.prev[t[k + 1]] = t[k]
    BY <1>3 DEF Chained
  <2>1. PICK m \in 1 .. Len(s) - 1 : m = i - 1 + k
    OBVIOUS
  <2>2. t[k] = s[m] /\ t[k + 1] = s[m + 1]
    BY <1>3, <2>1
  <2>3. m \in 1 .. Len(s) /\ m + 1 \in 1 .. Len(s) /\ m # i - 1 /\ m + 1 # j + 1 /\ m \in 0 .. Len(s) /\ m + 1 \in 1 .. Len(s) + 1
        /\ i - 1 \in 0 .. Len(s) /\ j + 1 \in 1 .. Len(s) + 1
    BY <2>1
  <2>4. s[m] # p /\ s[m + 1] # q
    BY <1>1, <1>5, <1>6, <1>7, <2>3, NodesApart
  <2>5. r.next[s[m]] = s[m + 1] /\ r.prev[s[m + 1]] = s[m]
    BY <1>1, <1>5, <2>3 DEF Linked
  <2> QED BY <1>1, <1>5, <1>10, <2>2, <2>3, <2>4, <2>5 DEF Rings
<1>17. ASSUME NEW g \in Lists, NEW k \in 1 .. Len(M[g])
      PROVE  \E x \in 1 .. Len(L[g]) : x = (IF g = h /\ k >= i THEN k + d ELSE k) /\ M[g][k] = L[g][x]
  <2>1. CASE g # h
    BY <1>1, <1>4, <2>1
  <2>2. CASE g = h /\ k < i
    <3>1. k \in 1 .. i - 1 /\ k \in 1 .. Len(s) /\ M[g][k] = s[k] /\ L[g] = s
      BY <1>1, <1>2, <1>4, <2>2
    <3> QED BY <2>2, <3>1
  <2>3. CASE g = h /\ k >= i
    <3>1. k \in 1 .. Len(s) - d
      BY <1>2, <1>4, <2>3
    <3>2. k \in i .. Len(s) - d /\ k + d \in 1 .. Len(s)
      BY <2>3, <3>1
    <3>3. M[g][k] = s[k + d]
      BY <1>2, <1>4, <2>3, <3>2
    <3> QED BY <2>3, <3>2, <3>3
  <2>4. k \in Int
    OBVIOUS
  <2> QED BY <2>1, <2>2, <2>3, <2>4
<1>14. Apart(M)
  <2> SUFFICES ASSUME NEW f \in Lists, NEW g \in Lists, NEW k \in 1 .. Len(M[f]), NEW m \in 1 .. Len(M[g]), M[f][k] = M[g][m]
               PROVE  f = g /\ k = m
    BY DEF Apart
  <2>1. PICK x \in 1 .. Len(L[f]) : x = (IF f = h /\ k >= i THEN k + d ELSE k) /\ M[f][k] = L[f][x]
    BY <1>17
  <2>2. PICK y \in 1 .. Len(L[g]) : y = (IF g = h /\ m >= i THEN m + d ELSE m) /\ M[g][m] = L[g][y]
    BY <1>17
  <2>3. L[f][x] = L[g][y]
    BY <2>1, <2>2
  <2>5. f = g /\ x = y
    BY <1>a, <2>3 DEF Apart
  <2>4. k \in Int /\ m \in Int /\ d \in Nat /\ i \in Int
    OBVIOUS
  <2> HIDE DEF d
  <2> QED BY <2>1, <2>2, <2>4, <2>5
<1>15. Loose(M, t)
  <2> SUFFICES ASSUME NEW g \in Lists, NEW k \in 1 .. Len(M[g]), NEW m \in 1 .. Len(t), M[g][k] = t[m] PROVE FALSE
    BY DEF Loose
  <2>1. PICK y \in 1 .. Len(s) : y = i - 1 + m /\ t[m] = s[y] /\ i <= y /\ y <= j
    BY <1>3
  <2>2. PICK x \in 1 .. Len(L[g]) : x = (IF g = h /\ k >= i THEN k + d ELSE k) /\ M[g][k] = L[g][x]
    BY <1>17
  <2>a. L[g][x] = L[h][y]
    BY <2>1, <2>2
  <2>3. g = h /\ x = y
    BY <1>a, <2>a DEF Apart
  <2>4. k \in Int
    OBVIOUS
  <2> QED BY <2>1, <2>2, <2>3, <2>4
<1>16. Injective(t)
  <2> SUFFICES ASSUME NEW k \in 1 .. Len(t), NEW m \in 1 .. Len(t), t[k] = t[m] PROVE k = m
    BY DEF Injective
  <2>0. i - 1 + k \in 1 .. Len(s) /\ t[k] = s[i - 1 + k]
    BY <1>3
  <2>1. PICK x \in 1 .. Len(s) : x = i - 1 + k /\ t[k] = s[x]
    BY <2>0
  <2>2. PICK y \in 1 .. Len(s) : y = i - 1 + m /\ t[m] = s[y]
    BY <1>3
  <2>3. x = y
    <3>1. L[h][x] = L[h][y]
      BY <2>1, <2>2
    <3> QED BY <1>a, <3>1, Zenon DEF Apart
  <2> QED BY <2>1, <2>2, <2>3
<1> QED BY <1>3, <1>4, <1>10, <1>11, <1>12, <1>13, <1>14, <1>15, <1>16 DEF Represents, u, M, t

\* Linking a chain of loose elements into a list, so that it begins at k.
LEMMA JoinKeeps ==
  ASSUME NEW r, NEW L, NEW t, Represents(r, L, t), t # <<>>, NEW h \in Lists, NEW k \in 1 .. Len(L[h]) + 1
  PROVE  Represents(SpliceBefore(r, NodeAt(L[h], h, k), t[1], t[Len(t)]), [L EXCEPT ![h] = Put(L[h], k, t)], <<>>)
<1> DEFINE s == L[h]
           M == [L EXCEPT ![h] = Put(L[h], k, t)]
           u == SpliceBefore(r, NodeAt(L[h], h, k), t[1], t[Len(t)])
<1>1. /\ r \in Rings /\ L \in Contenting /\ t \in Seq(Elems) /\ Chained(r, t)
      /\ \A g \in Lists : L[g] \in Seq(Elems) /\ Linked(r, g, L[g])
  BY DEF Represents, Contenting
<1>r. r \in Rings
  BY <1>1
<1>a. Apart(L) /\ Injective(t)
  BY DEF Represents
<1>l. \A g \in Lists : \A i \in 1 .. Len(L[g]), j \in 1 .. Len(t) : L[g][i] # t[j]
  BY DEF Represents, Loose
<1>2. PICK n \in Nat \ {0} : n = Len(t)
  BY <1>1
<1>3. /\ Put(s, k, t) \in Seq(Elems) /\ Len(Put(s, k, t)) = Len(s) + n
      /\ (\A i \in 1 .. k - 1 : Put(s, k, t)[i] = s[i])
      /\ (\A i \in 1 .. n : Put(s, k, t)[k - 1 + i] = t[i])
      /\ \A i \in k .. Len(s) : Put(s, k, t)[i + n] = s[i]
  <2>1. /\ Put(s, k, t) \in Seq(Elems) /\ Len(Put(s, k, t)) = Len(s) + Len(t)
        /\ (\A i \in 1 .. k - 1 : Put(s, k, t)[i] = s[i])
        /\ (\A i \in 1 .. Len(t) : Put(s, k, t)[k - 1 + i] = t[i])
        /\ \A i \in k .. Len(s) : Put(s, k, t)[i + Len(t)] = s[i]
    <3>1. PICK a \in Seq(Elems) : a = s
      BY <1>1
    <3>2. PICK b \in Seq(Elems) : b = t
      BY <1>1
    <3>3. PICK x \in 1 .. Len(a) + 1 : x = k
      BY <3>1
    <3>4. /\ Put(a, x, b) \in Seq(Elems) /\ Len(Put(a, x, b)) = Len(a) + Len(b)
          /\ (\A i \in 1 .. x - 1 : Put(a, x, b)[i] = a[i])
          /\ (\A i \in 1 .. Len(b) : Put(a, x, b)[x - 1 + i] = b[i])
          /\ \A i \in x .. Len(a) : Put(a, x, b)[i + Len(b)] = a[i]
      BY PutIs
    <3> HIDE DEF s
    <3> QED BY <3>1, <3>2, <3>3, <3>4
  <2> QED BY <1>2, <2>1
<1>4. M \in Contenting /\ M[h] = Put(s, k, t) /\ \A g \in Lists \ {h} : M[g] = L[g]
  BY <1>1, <1>3 DEF Contenting
<1>5. \A i \in 1 .. Len(s) : s[i] \in Elems /\ s[i] \in Nodes /\ NodeAt(s, h, i) = s[i]
  BY <1>1 DEF Nodes, NodeAt
<1>6. PICK p \in Nodes : p = NodeAt(s, h, k)
  BY <1>1, NodeIsNode
<1>7. PICK q \in Nodes : q = NodeAt(s, h, k - 1)
  BY <1>1, NodeIsNode
<1>8. r.prev[p] = q
  <2>1. k - 1 \in 0 .. Len(s) /\ (k - 1) + 1 = k
    OBVIOUS
  <2> QED BY <1>1, <1>6, <1>7, <2>1 DEF Linked
<1>9. \A i \in 1 .. n : t[i] \in Elems /\ t[i] \in Nodes
  BY <1>1, <1>2 DEF Nodes
<1>10. ASSUME NEW g \in Lists, NEW i, NEW j \in 1 .. n PROVE NodeAt(L[g], g, i) # t[j]
  BY <1>2, <1>9, <1>l, HeadsAreNoElems DEF NodeAt
<1>11. PICK a \in Nodes : a = t[1] /\ a # p /\ a # q
  <2>1. 1 \in 1 .. n
    OBVIOUS
  <2> QED BY <1>6, <1>7, <1>9, <1>10, <2>1
<1>12. PICK b \in Nodes : b = t[Len(t)] /\ b # p /\ b # q
  BY <1>2, <1>6, <1>7, <1>9, <1>10
<1>13. /\ u \in Rings
       /\ \A x \in Nodes : /\ u.next[x] = IF x = q THEN a ELSE IF x = b THEN p ELSE r.next[x]
                           /\ u.prev[x] = IF x = p THEN b ELSE IF x = a THEN q ELSE r.prev[x]
  <2>1. u = SpliceBefore(r, p, a, b)
    BY <1>6, <1>11, <1>12
  <2> HIDE DEF u
  <2> QED BY <1>r, <1>8, <1>11, <1>12, <2>1, SpliceBeforeIs
<1> HIDE DEF u, M
<1>14. ASSUME NEW g \in Lists \ {h} PROVE Linked(u, g, M[g])
  <2>1. ASSUME NEW i \in 0 .. Len(L[g])
        PROVE  NodeAt(L[g], g, i) # q /\ NodeAt(L[g], g, i + 1) # p
    <3>1. i + 1 \in 1 .. Len(L[g]) + 1 /\ k - 1 \in 0 .. Len(s) /\ k \in 1 .. Len(s) + 1
      BY <1>1
    <3> QED BY <1>1, <1>a, <1>6, <1>7, <3>1, NodesApart
  <2>2. ASSUME NEW i \in 0 .. Len(L[g])
        PROVE  NodeAt(L[g], g, i) # b /\ NodeAt(L[g], g, i + 1) # a
    <3>1. 1 \in 1 .. n /\ n \in 1 .. n
      OBVIOUS
    <3> QED BY <1>2, <1>10, <1>11, <1>12, <3>1
  <2>3. ASSUME NEW i \in 0 .. Len(L[g])
        PROVE  NodeAt(L[g], g, i) \in Nodes /\ NodeAt(L[g], g, i + 1) \in Nodes
    BY <1>1, NodeIsNode
  <2> QED BY <1>1, <1>4, <1>13, <2>1, <2>2, <2>3 DEF Linked, Rings
<1>15. Linked(u, h, M[h])
  <2>1. SUFFICES ASSUME NEW i \in 0 .. Len(s) + n
                 PROVE  /\ u.next[NodeAt(M[h], h, i)] = NodeAt(M[h], h, i + 1)
                        /\ u.prev[NodeAt(M[h], h, i + 1)] = NodeAt(M[h], h, i)
    BY <1>3, <1>4 DEF Linked
  <2>2. ASSUME NEW m \in 0 .. k - 1 PROVE NodeAt(M[h], h, m) = NodeAt(s, h, m)
    BY <1>3, <1>4 DEF NodeAt
  <2>3. ASSUME NEW m \in 1 .. n PROVE NodeAt(M[h], h, k - 1 + m) = t[m]
    BY <1>3, <1>4 DEF NodeAt
  <2>4. ASSUME NEW m \in k .. Len(s) + 1 PROVE NodeAt(M[h], h, m + n) = NodeAt(s, h, m)
    BY <1>3, <1>4 DEF NodeAt
  <2>o. 1 \in 1 .. n /\ n \in 1 .. n
    OBVIOUS
  <2>5. CASE i < k - 1
    <3>1. i \in 0 .. k - 1 /\ i + 1 \in 0 .. k - 1 /\ i \in 0 .. Len(s) /\ i + 1 \in 1 .. Len(s) + 1 /\ k - 1 \in 0 .. Len(s)
      BY <2>5
    <3>2. NodeAt(s, h, i) # q
      BY <1>1, <1>a, <1>7, <2>5, <3>1, NodesApart
    <3>3. NodeAt(s, h, i + 1) # p
      BY <1>1, <1>a, <1>6, <2>5, <3>1, NodesApart
    <3>4. NodeAt(s, h, i) # b /\ NodeAt(s, h, i + 1) # a
      BY <1>2, <1>10, <1>11, <1>12, <2>o
    <3> QED BY <1>1, <1>13, <2>2, <3>1, <3>2, <3>3, <3>4, NodeIsNode DEF Linked, Rings
  <2>6. CASE i = k - 1
    <3>1. NodeAt(M[h], h, i) = q
      BY <1>7, <2>2, <2>6
    <3>2. NodeAt(M[h], h, i + 1) = a
      <4>1. i + 1 = k - 1 + 1
        BY <2>6
      <4> QED BY <1>11, <2>3, <2>o, <4>1
    <3> QED BY <1>11, <1>12, <1>13, <3>1, <3>2 DEF Rings
  <2>7. CASE i \in k .. k - 2 + n
    <3>1. PICK m \in 1 .. n - 1 : i = k - 1 + m /\ i + 1 = k - 1 + (m + 1)
      <4>1. i - k + 1 \in 1 .. n - 1 /\ i = k - 1 + (i - k + 1) /\ i + 1 = k - 1 + ((i - k + 1) + 1)
        BY <2>7
      <4> QED BY <4>1
    <3>2. m \in 1 .. n /\ m + 1 \in 1 .. n
      OBVIOUS
    <3>3. NodeAt(M[h], h, i) = t[m] /\ NodeAt(M[h], h, i + 1) = t[m + 1]
      BY <2>3, <3>1, <3>2
    <3>4. r.next[t[m]] = t[m + 1] /\ r.prev[t[m + 1]] = t[m]
      BY <1>1, <1>2 DEF Chained
    <3>5. t[m] # b /\ t[m + 1] # a
      BY <1>2, <1>a, <1>11, <1>12, <2>o, <3>2 DEF Injective
    <3>6. t[m] # q /\ t[m + 1] # p /\ t[m] \in Nodes /\ t[m + 1] \in Nodes
      BY <1>6, <1>7, <1>9, <1>10, <3>2
    <3> QED BY <1>r, <1>13, <3>3, <3>4, <3>5, <3>6 DEF Rings
  <2>8. CASE i = k - 1 + n
    <3>1. NodeAt(M[h], h, i) = b
      BY <1>2, <1>12, <2>3, <2>8, <2>o
    <3>2. NodeAt(M[h], h, i + 1) = p
      <4>1. i + 1 = k + n /\ k \in k .. Len(s) + 1
        BY <2>8
      <4> QED BY <1>6, <2>4, <4>1
    <3> QED BY <1>11, <1>12, <1>13, <3>1, <3>2 DEF Rings
  <2>9. CASE i > k - 1 + n
    <3>1. PICK m \in k .. Len(s) : i = m + n /\ i + 1 = (m + 1) + n
      <4>1. i - n \in k .. Len(s) /\ i = (i - n) + n /\ i + 1 = ((i - n) + 1) + n
        BY <2>9
      <4> QED BY <4>1
    <3>2. m \in k .. Len(s) + 1 /\ m + 1 \in k .. Len(s) + 1 /\ m \in 0 .. Len(s) /\ m + 1 \in 1 .. Len(s) + 1
          /\ m # k - 1 /\ m + 1 # k /\ k - 1 \in 0 .. Len(s)
      OBVIOUS
    <3>3. NodeAt(M[h], h, i) = NodeAt(s, h, m) /\ NodeAt(M[h], h, i + 1) = NodeAt(s, h, m + 1)
      BY <2>4, <3>1, <3>2
    <3>4. NodeAt(s, h, m) # q /\ NodeAt(s, h, m + 1) # p
      BY <1>1, <1>a, <1>6, <1>7, <3>2, NodesApart
    <3>5. NodeAt(s, h, m) # b /\ NodeAt(s, h, m + 1) # a
      BY <1>2, <1>10, <1>11, <1>12, <2>o
    <3>6. r.next[NodeAt(s, h, m)] = NodeAt(s, h, m + 1) /\ r.prev[NodeAt(s, h, m + 1)] = NodeAt(s, h, m)
      BY <1>1, <3>2 DEF Linked
    <3>7. NodeAt(s, h, m) \in Nodes /\ NodeAt(s, h, m + 1) \in Nodes
      BY <1>1, NodeIsNode
    <3> QED BY <1>r, <1>13, <3>3, <3>4, <3>5, <3>6, <3>7 DEF Rings
  <2> QED BY <2>5, <2>6, <2>7, <2>8, <2>9
<1>16. ASSUME NEW g \in Lists, NEW i \in 1 .. Len(M[g])
       PROVE  \/ \E x \in 1 .. Len(L[g]) : x = (IF g = h /\ i >= k THEN i - n ELSE i) /\ (g = h /\ i >= k => x >= k) /\ M[g][i] = L[g][x]
              \/ g = h /\ \E x \in 1 .. n : x = i - k + 1 /\ M[g][i] = t[x]
  <2>1. CASE g # h
    BY <1>1, <1>4, <2>1
  <2>2. CASE g = h /\ i < k
    BY <1>3, <1>4, <2>2
  <2>3. CASE g = h /\ i \in k .. k - 1 + n
    <3>1. i - k + 1 \in 1 .. n /\ k - 1 + (i - k + 1) = i
      BY <2>3
    <3>2. M[g][i] = t[i - k + 1]
      BY <1>3, <1>4, <2>3, <3>1
    <3> QED BY <2>3, <3>1, <3>2
  <2>4. CASE g = h /\ i >= k + n
    <3>1. i - n \in k .. Len(s) /\ (i - n) + n = i
      BY <1>3, <1>4, <2>4
    <3>2. M[g][i] = L[g][i - n]
      BY <1>3, <1>4, <2>4, <3>1
    <3>3. PICK x \in 1 .. Len(L[g]) : x = i - n /\ x >= k /\ M[g][i] = L[g][x]
      BY <2>4, <3>1, <3>2
    <3>4. i >= k
      BY <2>4
    <3> QED BY <2>4, <3>3, <3>4
  <2>5. i \in Int
    OBVIOUS
  <2> QED BY <2>1, <2>2, <2>3, <2>4, <2>5
<1>17. Apart(M)
  <2> SUFFICES ASSUME NEW f \in Lists, NEW g \in Lists, NEW i \in 1 .. Len(M[f]), NEW j \in 1 .. Len(M[g]), M[f][i] = M[g][j]
               PROVE  f = g /\ i = j
    BY DEF Apart
  <2>0. i \in Int /\ j \in Int
    OBVIOUS
  <2>a. \/ \E x \in 1 .. Len(L[f]) : x = (IF f = h /\ i >= k THEN i - n ELSE i) /\ (f = h /\ i >= k => x >= k) /\ M[f][i] = L[f][x]
        \/ f = h /\ \E x \in 1 .. n : x = i - k + 1 /\ M[f][i] = t[x]
    BY <1>16
  <2>b. \/ \E y \in 1 .. Len(L[g]) : y = (IF g = h /\ j >= k THEN j - n ELSE j) /\ (g = h /\ j >= k => y >= k) /\ M[g][j] = L[g][y]
        \/ g = h /\ \E y \in 1 .. n : y = j - k + 1 /\ M[g][j] = t[y]
    BY <1>16
  <2>1. ASSUME NEW x \in 1 .. Len(L[f]), x = (IF f = h /\ i >= k THEN i - n ELSE i), f = h /\ i >= k => x >= k, M[f][i] = L[f][x],
               NEW y \in 1 .. Len(L[g]), y = (IF g = h /\ j >= k THEN j - n ELSE j), g = h /\ j >= k => y >= k, M[g][j] = L[g][y]
        PROVE  f = g /\ i = j
    <3>1. L[f][x] = L[g][y]
      BY <2>1
    <3>2. f = g /\ x = y
      BY <1>a, <3>1 DEF Apart
    <3> QED BY <2>0, <2>1, <3>2
  <2>2. ASSUME NEW x \in 1 .. n, f = h, x = i - k + 1, M[f][i] = t[x], NEW y \in 1 .. n, g = h, y = j - k + 1, M[g][j] = t[y]
        PROVE  f = g /\ i = j
    <3>1. x = y
      BY <1>2, <1>a, <2>2 DEF Injective
    <3> QED BY <2>0, <2>2, <3>1
  <2>3. ASSUME NEW x \in 1 .. Len(L[f]), M[f][i] = L[f][x], NEW y \in 1 .. n, M[g][j] = t[y] PROVE FALSE
    BY <1>2, <1>l, <2>3
  <2>4. ASSUME NEW y \in 1 .. Len(L[g]), M[g][j] = L[g][y], NEW x \in 1 .. n, M[f][i] = t[x] PROVE FALSE
    BY <1>2, <1>l, <2>4
  <2> QED BY <2>a, <2>b, <2>1, <2>2, <2>3, <2>4
<1>18. <<>> \in Seq(Elems) /\ Loose(M, <<>>) /\ Injective(<<>>) /\ Chained(u, <<>>)
  BY DEF Loose, Injective, Chained
<1> QED BY <1>4, <1>13, <1>14, <1>15, <1>17, <1>18 DEF Represents, u, M
-----------------------------------------------------------------------------
(* Walking along the pointers. *)
LEMMA FollowsIs ==
  ASSUME NEW r, NEW L, Represents(r, L, <<>>), NEW h \in Lists
  PROVE  /\ r.next \in [Nodes -> Nodes] /\ r.prev \in [Nodes -> Nodes]
         /\ L[h] \in Seq(Elems) /\ Injective(L[h]) /\ Follows(r.next, h, L[h])
         /\ Reverse(L[h]) \in Seq(Elems) /\ Injective(Reverse(L[h])) /\ Follows(r.prev, h, Reverse(L[h]))
<1>1. r \in Rings /\ L[h] \in Seq(Elems) /\ Linked(r, h, L[h]) /\ Apart(L)
  BY DEF Represents, Contenting
<1>2. PICK s \in Seq(Elems) : s = L[h]
  BY <1>1
<1>3. Injective(s)
  BY <1>1, <1>2 DEF Injective, Apart
<1>4. PICK d : d = Reverse(s)
  OBVIOUS
<1>5. d \in Seq(Elems) /\ Len(d) = Len(s) /\ \A k \in 1 .. Len(s) : d[k] = s[Len(s) - k + 1]
  BY <1>4 DEF Reverse
<1>6. Injective(d)
  <2> SUFFICES ASSUME NEW i \in 1 .. Len(d), NEW j \in 1 .. Len(d), d[i] = d[j] PROVE i = j
    BY DEF Injective
  <2>0. i \in 1 .. Len(s) /\ j \in 1 .. Len(s)
    BY <1>5
  <2>1. PICK x \in 1 .. Len(s) : x = Len(s) - i + 1 /\ d[i] = s[x]
    BY <1>5, <2>0
  <2>2. PICK y \in 1 .. Len(s) : y = Len(s) - j + 1 /\ d[j] = s[y]
    <3>1. Len(s) - j + 1 \in 1 .. Len(s)
      BY <2>0
    <3>2. d[j] = s[Len(s) - j + 1]
      BY <1>5, <2>0
    <3> QED BY <3>1, <3>2
  <2>3. x = y
    BY <1>3, <2>1, <2>2 DEF Injective
  <2> QED BY <2>0, <2>1, <2>2, <2>3
<1>7. Follows(r.next, h, s)
  BY <1>1, <1>2 DEF Linked, Follows
<1>8. Follows(r.prev, h, d)
  <2> SUFFICES ASSUME NEW k \in 0 .. Len(s) PROVE r.prev[NodeAt(d, h, k)] = NodeAt(d, h, k + 1)
    BY <1>5 DEF Follows
  <2>1. ASSUME NEW m \in 0 .. Len(s) + 1 PROVE NodeAt(d, h, m) = NodeAt(s, h, Len(s) + 1 - m)
    <3>1. m \in 1 .. Len(s) => Len(s) + 1 - m \in 1 .. Len(s) /\ Len(s) - m + 1 = Len(s) + 1 - m
      OBVIOUS
    <3>2. Len(s) + 1 - m \in 1 .. Len(s) => m \in 1 .. Len(s)
      OBVIOUS
    <3> QED BY <1>5, <3>1, <3>2 DEF NodeAt
  <2>2. PICK x \in 0 .. Len(s) : x = Len(s) - k /\ Len(s) + 1 - k = x + 1 /\ Len(s) + 1 - (k + 1) = x
    OBVIOUS
  <2>3. r.prev[NodeAt(s, h, x + 1)] = NodeAt(s, h, x)
    BY <1>1, <1>2 DEF Linked
  <2>4. k \in 0 .. Len(s) + 1 /\ k + 1 \in 0 .. Len(s) + 1
    OBVIOUS
  <2> QED BY <2>1, <2>2, <2>3, <2>4
<1>9. r.next \in [Nodes -> Nodes] /\ r.prev \in [Nodes -> Nodes]
  BY <1>1 DEF Rings
<1> QED BY <1>2, <1>3, <1>4, <1>5, <1>6, <1>7, <1>8, <1>9

\* The steps that Walk takes.
Steps(by, h, n) == CHOOSE at : at = [k \in 0 .. n |-> IF k = 0 THEN h ELSE by[at[k - 1]]]

\* The walk of Walk, unfolded: the function it chooses exists.
LEMMA StepsAre ==
  ASSUME NEW by, NEW h, NEW n \in Nat
  PROVE  Steps(by, h, n) = [k \in 0 .. n |-> IF k = 0 THEN h ELSE by[Steps(by, h, n)[k - 1]]]
<1> DEFINE S == {m \in Nat : \E at : at = [k \in 0 .. m |-> IF k = 0 THEN h ELSE by[at[k - 1]]]}
<1>1. 0 \in S
  <2>1. PICK at : at = [k \in 0 .. 0 |-> h]
    OBVIOUS
  <2>2. at = [k \in 0 .. 0 |-> IF k = 0 THEN h ELSE by[at[k - 1]]]
    BY <2>1
  <2> QED BY <2>2
<1>2. ASSUME NEW m \in Nat, m \in S PROVE m + 1 \in S
  <2>1. PICK at : at = [k \in 0 .. m |-> IF k = 0 THEN h ELSE by[at[k - 1]]]
    BY <1>2
  <2>2. PICK f : f = [k \in 0 .. m + 1 |-> IF k = m + 1 THEN by[at[m]] ELSE at[k]]
    OBVIOUS
  <2>3. ASSUME NEW k \in 0 .. m + 1 PROVE f[k] = IF k = 0 THEN h ELSE by[f[k - 1]]
    <3>1. \A x \in 0 .. m : f[x] = at[x] /\ at[x] = IF x = 0 THEN h ELSE by[at[x - 1]]
      <4>1. \A x \in 0 .. m : at[x] = IF x = 0 THEN h ELSE by[at[x - 1]]
        BY <2>1
      <4>2. \A x \in 0 .. m : f[x] = at[x]
        BY <2>2
      <4> QED BY <4>1, <4>2
    <3>2. f[m + 1] = by[at[m]]
      BY <2>2
    <3>3. CASE k = m + 1
      BY <3>1, <3>2, <3>3
    <3>4. CASE k \in 1 .. m
      <4>1. k \in 0 .. m /\ k - 1 \in 0 .. m
        BY <3>4
      <4> QED BY <3>1, <3>4, <4>1
    <3>5. CASE k = 0
      BY <3>1, <3>5
    <3> QED BY <3>3, <3>4, <3>5
  <2>4. f = [k \in 0 .. m + 1 |-> IF k = 0 THEN h ELSE by[f[k - 1]]]
    BY <2>2, <2>3
  <2> QED BY <2>4
<1>3. n \in S
  BY <1>1, <1>2, NatSetInduction
<1> QED BY <1>3 DEF Steps

LEMMA MinIs ==
  ASSUME NEW S \in SUBSET Int, NEW m \in S, \A k \in S : m <= k
  PROVE  Min(S) = m
<1>1. \A x \in S : (\A y \in S : x <= y) <=> x = m
  OBVIOUS
<1> QED BY <1>1 DEF Min

\* Pointers that follow a sequence from a head back to it are walked along it.
LEMMA WalkIs ==
  ASSUME NEW by \in [Nodes -> Nodes], NEW h \in Lists, NEW s \in Seq(Elems), Injective(s), Follows(by, h, s)
  PROVE  Walk(by, h) = s
<1> DEFINE N == Cardinality(Nodes)
           at == Steps(by, h, N)
           returns == {k \in DOMAIN at : k > 0 /\ at[k] = h}
           n == Len(s)
<1>0. N \in Nat /\ n \in Nat
  BY ElemsAreFinite, FS_CardinalityType DEF Nodes
<1>1. at = [k \in 0 .. N |-> IF k = 0 THEN h ELSE by[at[k - 1]]]
  BY <1>0, StepsAre
<1>2. Walk(by, h) = IF returns = {} THEN <<>> ELSE [k \in 1 .. Min(returns) - 1 |-> at[k]]
  BY Zenon DEF Walk, Steps
<1>3. \A k \in 1 .. n : s[k] \in Elems /\ s[k] # h /\ s[k] = NodeAt(s, h, k) /\ s[k] \in Nodes
  BY HeadsAreNoElems DEF NodeAt, Nodes
<1>4. n + 1 <= N
  <2>1. PICK f : f = [k \in 1 .. n + 1 |-> NodeAt(s, h, k)]
    OBVIOUS
  <2>2. f \in [1 .. n + 1 -> Nodes]
    BY <2>1, NodeIsNode
  <2>3. ASSUME NEW i \in 1 .. n + 1, NEW j \in 1 .. n + 1, f[i] = f[j] PROVE i = j
    BY <1>3, <2>1, <2>3 DEF NodeAt, Injective
  <2>4. f \in Injection(1 .. n + 1, Nodes)
    BY <2>2, <2>3 DEF Injection, IsInjective
  <2>5. IsFiniteSet(Nodes) /\ IsFiniteSet(1 .. n + 1) /\ Cardinality(1 .. n + 1) = n + 1
    BY <1>0, ElemsAreFinite, FS_Interval DEF Nodes
  <2> QED BY <2>4, <2>5, FS_Injection
<1> HIDE DEF at
<1>5. \A k \in 0 .. n + 1 : at[k] = NodeAt(s, h, k)
  <2> DEFINE S == {k \in Nat : k <= n + 1 => at[k] = NodeAt(s, h, k)}
  <2>1. 0 \in S
    BY <1>0, <1>1 DEF NodeAt
  <2>2. ASSUME NEW k \in Nat, k \in S PROVE k + 1 \in S
    <3> SUFFICES ASSUME k + 1 <= n + 1 PROVE at[k + 1] = NodeAt(s, h, k + 1)
      OBVIOUS
    <3>1. at[k] = NodeAt(s, h, k)
      BY <2>2, <1>0
    <3>2. k + 1 \in 0 .. N /\ k + 1 # 0 /\ (k + 1) - 1 = k /\ k \in 0 .. n
      BY <1>0, <1>4
    <3>3. at[k + 1] = by[at[k]]
      BY <1>1, <3>2
    <3> QED BY <3>1, <3>2, <3>3 DEF Follows
  <2>3. \A k \in Nat : k \in S
    BY <2>1, <2>2, NatSetInduction
  <2> QED BY <1>0, <2>3
<1>6. DOMAIN at = 0 .. N
  BY <1>1
<1>7. n + 1 \in returns /\ \A k \in returns : n + 1 <= k
  <2>1. n + 1 \in returns
    BY <1>0, <1>4, <1>5, <1>6 DEF NodeAt
  <2>2. ASSUME NEW k \in returns PROVE n + 1 <= k
    BY <1>0, <1>3, <1>5, <1>6
  <2> QED BY <2>1, <2>2
<1>8. Min(returns) = n + 1
  <2>1. returns \subseteq Int
    BY <1>0, <1>6
  <2> HIDE DEF returns, n
  <2> QED BY <1>7, <2>1, MinIs
<1>9. Walk(by, h) = [k \in 1 .. n |-> at[k]]
  <2>1. Min(returns) - 1 = n
    BY <1>0, <1>8
  <2> HIDE DEF returns, n
  <2> QED BY <1>2, <1>7, <2>1
<1>10. \A k \in 1 .. n : at[k] = s[k]
  BY <1>0, <1>3, <1>5
<1> QED BY <1>9, <1>10
-----------------------------------------------------------------------------
(* What the operations of the list do to the sequences. *)
LEMMA RepresentsLess == ASSUME NEW r, NEW L, NEW t, Represents(r, L, t) PROVE Represents(r, L, <<>>)
BY DEF Represents, Loose, Injective, Chained

\* The sequences that a ring represents are those that Contents reads off it,
\* and the way back reads off their reverse.
LEMMA RepresentsContents ==
  ASSUME NEW r, NEW L, Represents(r, L, <<>>)
  PROVE  [h \in Lists |-> Walk(r.next, h)] = L /\ \A h \in Lists : Walk(r.prev, h) = Reverse(L[h])
<1>1. ASSUME NEW h \in Lists PROVE Walk(r.next, h) = L[h] /\ Walk(r.prev, h) = Reverse(L[h])
  <2>1. /\ r.next \in [Nodes -> Nodes] /\ r.prev \in [Nodes -> Nodes]
        /\ L[h] \in Seq(Elems) /\ Injective(L[h]) /\ Follows(r.next, h, L[h])
        /\ Reverse(L[h]) \in Seq(Elems) /\ Injective(Reverse(L[h])) /\ Follows(r.prev, h, Reverse(L[h]))
    BY FollowsIs
  <2>2. Walk(r.next, h) = L[h]
    BY <2>1, WalkIs, Zenon
  <2>3. Walk(r.prev, h) = Reverse(L[h])
    BY <2>1, WalkIs, Zenon
  <2> QED BY <2>2, <2>3
<1>2. L \in [Lists -> Seq(Elems)]
  BY DEF Represents, Contenting
<1> QED BY <1>1, <1>2

\* The same place seen from the node before it.
LEMMA JoinAfterKeeps ==
  ASSUME NEW r, NEW L, NEW t, Represents(r, L, t), t # <<>>, NEW h \in Lists, NEW k \in 1 .. Len(L[h]) + 1
  PROVE  Represents(SpliceAfter(r, NodeAt(L[h], h, k - 1), t[1], t[Len(t)]), [L EXCEPT ![h] = Put(L[h], k, t)], <<>>)
<1>1. r \in Rings /\ L[h] \in Seq(Elems) /\ Linked(r, h, L[h]) /\ t \in Seq(Elems)
  BY DEF Represents, Contenting
<1>2. PICK p \in Nodes : p = NodeAt(L[h], h, k - 1)
  BY <1>1, NodeIsNode
<1>3. PICK q \in Nodes : q = NodeAt(L[h], h, k)
  BY <1>1, NodeIsNode
<1>4. r.next[p] = q /\ r.prev[q] = p
  <2>1. k - 1 \in 0 .. Len(L[h]) /\ (k - 1) + 1 = k
    BY <1>1
  <2> QED BY <1>1, <1>2, <1>3, <2>1 DEF Linked
<1>5. Len(t) \in 1 .. Len(t) /\ 1 \in 1 .. Len(t) /\ \A i \in 1 .. Len(t) : t[i] \in Elems /\ t[i] \in Nodes
  BY <1>1 DEF Nodes
<1>6. \A i \in 1 .. Len(L[h]), j \in 1 .. Len(t) : L[h][i] # t[j]
  BY DEF Represents, Loose
<1>7. PICK a \in Nodes : a = t[1] /\ a # q
  BY <1>3, <1>5, <1>6, HeadsAreNoElems DEF NodeAt
<1>8. PICK b \in Nodes : b = t[Len(t)] /\ b # p
  BY <1>2, <1>5, <1>6, HeadsAreNoElems DEF NodeAt
<1>9. SpliceAfter(r, p, a, b) = SpliceBefore(r, q, a, b)
  BY <1>1, <1>4, <1>7, <1>8, AfterIsBefore
<1>10. Represents(SpliceBefore(r, NodeAt(L[h], h, k), t[1], t[Len(t)]), [L EXCEPT ![h] = Put(L[h], k, t)], <<>>)
  BY JoinKeeps
<1> QED BY <1>2, <1>3, <1>7, <1>8, <1>9, <1>10

\* An element that is in no list.
Outside(L, e) == e \in Elems /\ \A h \in Lists : \A i \in 1 .. Len(L[h]) : L[h][i] # e

\* Linking one loose element before or after a node.
LEMMA InsertKeeps ==
  ASSUME NEW r, NEW L, Represents(r, L, <<>>), NEW e, Outside(L, e), NEW h \in Lists, NEW k \in 1 .. Len(L[h]) + 1
  PROVE  /\ Represents(SpliceBefore(r, NodeAt(L[h], h, k), e, e), [L EXCEPT ![h] = Put(L[h], k, <<e>>)], <<>>)
         /\ Represents(SpliceAfter(r, NodeAt(L[h], h, k - 1), e, e), [L EXCEPT ![h] = Put(L[h], k, <<e>>)], <<>>)
<1>1. PICK t : t = <<e>>
  OBVIOUS
<1>2. t \in Seq(Elems) /\ t # <<>> /\ Len(t) = 1 /\ t[1] = e /\ t[Len(t)] = e
  BY <1>1 DEF Outside
<1>3. Loose(L, t) /\ Injective(t) /\ Chained(r, t)
  BY <1>1, <1>2 DEF Outside, Loose, Injective, Chained
<1>4. Represents(r, L, t)
  BY <1>2, <1>3 DEF Represents
<1>5. /\ Represents(SpliceBefore(r, NodeAt(L[h], h, k), t[1], t[Len(t)]), [L EXCEPT ![h] = Put(L[h], k, t)], <<>>)
      /\ Represents(SpliceAfter(r, NodeAt(L[h], h, k - 1), t[1], t[Len(t)]), [L EXCEPT ![h] = Put(L[h], k, t)], <<>>)
  BY <1>2, <1>4, JoinKeeps, JoinAfterKeeps
<1> QED BY <1>1, <1>2, <1>5

\* Unlinking one element.
LEMMA RemoveKeeps ==
  ASSUME NEW r, NEW L, Represents(r, L, <<>>), NEW h \in Lists, NEW i \in 1 .. Len(L[h]), NEW e, e = L[h][i]
  PROVE  /\ Represents(Unsplice(r, e, e), [L EXCEPT ![h] = Cut(L[h], i, i)], <<>>)
         /\ Outside([L EXCEPT ![h] = Cut(L[h], i, i)], e)
         /\ Cut(L[h], i, i) \in Seq(Elems) /\ Len(Cut(L[h], i, i)) = Len(L[h]) - 1
<1>0. L \in Contenting /\ L[h] \in Seq(Elems)
  BY DEF Represents, Contenting
<1>1. i \in i .. Len(L[h])
  BY <1>0
<1>2. PICK u : u = Unsplice(r, e, e)
  OBVIOUS
<1>3. PICK M : M = [L EXCEPT ![h] = Cut(L[h], i, i)]
  OBVIOUS
<1>4. PICK t : t = SubSeq(L[h], i, i)
  OBVIOUS
<1>5. Represents(u, M, t)
  BY <1>1, <1>2, <1>3, <1>4, CutKeeps
<1>6. Represents(u, M, <<>>)
  BY <1>5, RepresentsLess
<1>7. Len(t) = 1 /\ t[1] = e
  <2>1. i \in 1 .. Len(L[h]) + 1 /\ i \in i - 1 .. Len(L[h])
    BY <1>0
  <2>2. Len(t) = i - i + 1 /\ \A k \in 1 .. i - i + 1 : t[k] = L[h][i - 1 + k]
    BY <1>0, <1>4, <2>1, PartIs
  <2>3. i - i + 1 = 1 /\ i - 1 + 1 = i /\ 1 \in 1 .. i - i + 1
    OBVIOUS
  <2> QED BY <2>2, <2>3
<1>8. Outside(M, e)
  <2>1. Loose(M, t) /\ 1 \in 1 .. Len(t)
    BY <1>5, <1>7 DEF Represents
  <2>2. e \in Elems
    BY <1>0
  <2> QED BY <1>7, <2>1, <2>2 DEF Loose, Outside
<1>9. Cut(L[h], i, i) \in Seq(Elems) /\ Len(Cut(L[h], i, i)) = Len(L[h]) - (i - i + 1)
  BY <1>0, <1>1, CutIs
<1>10. Len(L[h]) - (i - i + 1) = Len(L[h]) - 1
  BY <1>0
<1> QED BY <1>2, <1>3, <1>6, <1>8, <1>9, <1>10

LEMMA MaxIs ==
  ASSUME NEW S \in SUBSET Int, NEW m \in S, \A k \in S : k <= m
  PROVE  Max(S) = m
<1>1. \A x \in S : (\A y \in S : x >= y) <=> x = m
  OBVIOUS
<1> QED BY <1>1 DEF Max

\* The elements are taken out one by one, the first one first.
Popped(r, s, n) == CHOOSE iter : iter = [S \in SUBSET (1 .. n) |->
                     IF S = {} THEN r ELSE Unsplice(iter[S \ {Max(S)}], s[Max(S)], s[Max(S)])]

\* The fold of clear(), unfolded: the function it chooses exists.
LEMMA PoppedIs ==
  ASSUME NEW r, NEW s, NEW n \in Nat, NEW W, W = Popped(r, s, n), NEW S \in SUBSET (1 .. n), NEW m, m = Max(S)
  PROVE  W[S] = IF S = {} THEN r ELSE Unsplice(W[S \ {m}], s[m], s[m])
<1> DEFINE F(f, X) == IF X = {} THEN r ELSE Unsplice(f[X \ {Max(X)}], s[Max(X)], s[Max(X)])
           T == {i \in Nat : \E f : f = [X \in SUBSET (1 .. i) |-> F(f, X)]}
<1>1. 0 \in T
  <2>1. PICK f : f = [X \in SUBSET (1 .. 0) |-> r]
    OBVIOUS
  <2>2. \A X \in SUBSET (1 .. 0) : X = {}
    OBVIOUS
  <2>3. f = [X \in SUBSET (1 .. 0) |-> F(f, X)]
    BY <2>1, <2>2
  <2> QED BY <2>3
<1>2. ASSUME NEW i \in Nat, i \in T PROVE i + 1 \in T
  <2>1. PICK f : f = [X \in SUBSET (1 .. i) |-> F(f, X)]
    BY <1>2
  <2>2. PICK g : g = [X \in SUBSET (1 .. i + 1) |->
                       IF i + 1 \in X THEN Unsplice(f[X \ {i + 1}], s[i + 1], s[i + 1]) ELSE f[X]]
    OBVIOUS
  <2>3. \A X \in SUBSET (1 .. i) : g[X] = f[X] /\ f[X] = F(f, X)
    <3>1. \A X \in SUBSET (1 .. i) : X \in SUBSET (1 .. i + 1) /\ i + 1 \notin X
      OBVIOUS
    <3>2. \A X \in SUBSET (1 .. i) : g[X] = f[X]
      BY <2>2, <3>1
    <3> HIDE DEF F
    <3>3. \A X \in SUBSET (1 .. i) : f[X] = F(f, X)
      BY <2>1
    <3> QED BY <3>2, <3>3
  <2>4. ASSUME NEW X \in SUBSET (1 .. i + 1) PROVE g[X] = F(g, X)
    <3>1. CASE i + 1 \in X
      <4>1. Max(X) = i + 1
        BY <3>1, MaxIs
      <4>2. X \ {i + 1} \in SUBSET (1 .. i)
        OBVIOUS
      <4>3. g[X] = Unsplice(f[X \ {i + 1}], s[i + 1], s[i + 1])
        BY <2>2, <3>1
      <4>4. g[X \ {i + 1}] = f[X \ {i + 1}]
        BY <2>3, <4>2
      <4> QED BY <3>1, <4>1, <4>3, <4>4
    <3>2. CASE i + 1 \notin X
      <4>0. \A x \in X : x \in 1 .. i
        <5>1. \A x \in X : x \in 1 .. i + 1 /\ x # i + 1
          BY <3>2
        <5>2. \A x \in 1 .. i + 1 : x # i + 1 => x \in 1 .. i
          OBVIOUS
        <5> QED BY <5>1, <5>2
      <4>1. X \in SUBSET (1 .. i) /\ X \ {Max(X)} \in SUBSET (1 .. i)
        BY <4>0
      <4>2. g[X] = f[X] /\ f[X] = F(f, X) /\ g[X \ {Max(X)}] = f[X \ {Max(X)}]
        BY <2>3, <4>1
      <4> QED BY <4>2
    <3> QED BY <3>1, <3>2
  <2>5. g = [X \in SUBSET (1 .. i + 1) |-> F(g, X)]
    <3> HIDE DEF F
    <3> QED BY <2>2, <2>4
  <2> HIDE DEF F
  <2> QED BY <2>5
<1>3. n \in T
  <2> HIDE DEF F
  <2> QED BY <1>1, <1>2, NatSetInduction
<1>4. W = [x \in SUBSET (1 .. n) |-> F(W, x)]
  BY <1>3 DEF Popped
<1> HIDE DEF F
<1>5. W[S] = F(W, S)
  BY <1>4
<1> QED BY <1>5 DEF F

\* clear() pops the elements of a list one by one.
LEMMA ClearKeeps ==
  ASSUME NEW r, NEW L, Represents(r, L, <<>>), NEW h \in Lists
  PROVE  Represents(FoldLeft(LAMBDA x, e : Unsplice(x, e, e), r, L[h]), [L EXCEPT ![h] = <<>>], <<>>)
<1>1. PICK s \in Seq(Elems) : s = L[h]
  BY DEF Represents, Contenting
<1>2. PICK n \in Nat : n = Len(s) /\ DOMAIN s = 1 .. n
  OBVIOUS
<1>3. PICK W : W = Popped(r, s, n)
  OBVIOUS
<1>4. FoldLeft(LAMBDA x, e : Unsplice(x, e, e), r, L[h]) = W[1 .. n]
  BY <1>1, <1>2, <1>3, Zenon DEF FoldLeft, MapThenFoldSet, Popped
<1>5. ASSUME NEW S \in SUBSET (1 .. n), NEW m, m = Max(S)
      PROVE  W[S] = IF S = {} THEN r ELSE Unsplice(W[S \ {m}], s[m], s[m])
  <2>1. S \in SUBSET (1 .. n) /\ W = Popped(r, s, n)
    BY <1>3, <1>5
  <2> QED BY <1>5, <2>1, PoppedIs, SMTT(40)
<1>6. W[{}] = r
  <2>1. {} \in SUBSET (1 .. n)
    OBVIOUS
  <2> QED BY <1>5, <2>1
<1>7. ASSUME NEW k \in Nat, k + 1 <= n PROVE W[1 .. k + 1] = Unsplice(W[1 .. k], s[k + 1], s[k + 1])
  <2>1. 1 .. k + 1 \in SUBSET (1 .. n) /\ 1 .. k + 1 # {}
    <3>1. k + 1 \in 1 .. k + 1 /\ \A x \in 1 .. k + 1 : x \in 1 .. n
      BY <1>7
    <3> QED BY <3>1
  <2>2. Max(1 .. k + 1) = k + 1
    <3>1. PICK S : S = 1 .. k + 1
      OBVIOUS
    <3>2. S \in SUBSET Int /\ k + 1 \in S /\ \A x \in S : x <= k + 1
      BY <3>1
    <3>3. Max(S) = k + 1
      BY <3>2, MaxIs
    <3> QED BY <3>1, <3>3
  <2>3. (1 .. k + 1) \ {k + 1} = 1 .. k
    OBVIOUS
  <2>4. W[1 .. k + 1] = Unsplice(W[(1 .. k + 1) \ {k + 1}], s[k + 1], s[k + 1])
    BY <1>5, <2>1, <2>2
  <2> QED BY <2>3, <2>4
<1> DEFINE T == {k \in Nat : k <= n => Represents(W[1 .. k], [L EXCEPT ![h] = SubSeq(s, k + 1, n)], <<>>)}
<1>8. 0 \in T
  <2>1. SubSeq(s, 1, n) = s /\ 0 + 1 = 1 /\ 1 .. 0 = {}
    BY <1>2
  <2>2. [L EXCEPT ![h] = s] = L
    BY <1>1 DEF Represents, Contenting
  <2> QED BY <1>6, <2>1, <2>2
<1>9. ASSUME NEW k \in Nat, k \in T PROVE k + 1 \in T
  <2> SUFFICES ASSUME k + 1 <= n PROVE Represents(W[1 .. k + 1], [L EXCEPT ![h] = SubSeq(s, (k + 1) + 1, n)], <<>>)
    OBVIOUS
  <2>1. PICK M : M = [L EXCEPT ![h] = SubSeq(s, k + 1, n)]
    OBVIOUS
  <2>2. Represents(W[1 .. k], M, <<>>)
    <3>1. k <= n
      BY <1>2
    <3> QED BY <1>9, <2>1, <3>1
  <2>3. M[h] = SubSeq(s, k + 1, n)
    BY <2>1 DEF Represents, Contenting
  <2>4. Len(M[h]) = n - k /\ M[h][1] = s[k + 1] /\ 1 \in 1 .. Len(M[h])
    BY <1>2, <2>3
  <2>5. Represents(Unsplice(W[1 .. k], s[k + 1], s[k + 1]), [M EXCEPT ![h] = Cut(M[h], 1, 1)], <<>>)
    BY <2>2, <2>4, RemoveKeeps
  <2>6. Cut(M[h], 1, 1) = SubSeq(s, (k + 1) + 1, n)
    <3>0. M[h] \in Seq(Elems) /\ 1 \in 1 .. Len(M[h])
      BY <1>2, <2>3, <2>4
    <3>1. /\ Cut(M[h], 1, 1) \in Seq(Elems) /\ Len(Cut(M[h], 1, 1)) = Len(M[h]) - (1 - 1 + 1)
          /\ \A i \in 1 .. Len(M[h]) - (1 - 1 + 1) : Cut(M[h], 1, 1)[i] = M[h][i + (1 - 1 + 1)]
      BY <3>0, CutIs
    <3>2. PICK a : a = Cut(M[h], 1, 1)
      OBVIOUS
    <3>3. PICK b : b = SubSeq(s, (k + 1) + 1, n)
      OBVIOUS
    <3>4. a \in Seq(Elems) /\ Len(a) = n - k - 1 /\ \A i \in 1 .. n - k - 1 : a[i] = M[h][i + 1]
      BY <2>4, <3>1, <3>2
    <3>5. \A i \in 1 .. n - k - 1 : M[h][i + 1] = s[k + 1 + i]
      BY <1>2, <2>3
    <3>6. b \in Seq(Elems) /\ Len(b) = n - k - 1 /\ \A i \in 1 .. n - k - 1 : b[i] = s[k + 1 + i]
      BY <1>2, <3>3
    <3>7. a = b
      BY <3>4, <3>5, <3>6, SameSeq
    <3> QED BY <3>2, <3>3, <3>7
  <2>7. [M EXCEPT ![h] = Cut(M[h], 1, 1)] = [L EXCEPT ![h] = SubSeq(s, (k + 1) + 1, n)]
    BY <2>1, <2>6
  <2> QED BY <1>7, <2>5, <2>7
<1>10. n \in T
  <2> HIDE DEF T
  <2> QED BY <1>8, <1>9, NatSetInduction
<1>11. SubSeq(s, n + 1, n) = <<>>
  BY <1>2
<1>12. Represents(W[1 .. n], [L EXCEPT ![h] = <<>>], <<>>)
  <2>1. n <= n
    OBVIOUS
  <2>2. Represents(W[1 .. n], [L EXCEPT ![h] = SubSeq(s, n + 1, n)], <<>>)
    BY <1>10, <2>1, Zenon
  <2> QED BY <1>11, <2>2
<1> QED BY <1>4, <1>12, Zenon
-----------------------------------------------------------------------------
(* The invariant of the lists, and what a step does to it. *)
\* A list that was changed only with its count has the right one.
Counted == /\ num \in [Lists -> 0 .. SizeModulus - 1]
           /\ \A h \in Lists : h \notin bypassed => num[h] = Len(Contents[h]) % SizeModulus

\* The operation has done to the sequences what SequenceLists says, or nothing.
Stepped == /\ Represents(ring', Contents', <<>>)
           /\ Sequence!Next \/ UNCHANGED Contents

\* The sequences of the lists before and after a step.
LEMMA ContentsAre == ASSUME NEW L, Represents(ring, L, <<>>) PROVE Contents = L
BY RepresentsContents DEF Contents

LEMMA ContentsBecome == ASSUME NEW L, Represents(ring', L, <<>>) PROVE Contents' = L
BY RepresentsContents DEF Contents

\* An element that is in no list may be inserted.
LEMMA OutsideIs ==
  ASSUME Represents(ring, Contents, <<>>), NEW e \in Unlinked
  PROVE  Outside(Contents, e) /\ e \in Sequence!Free(Contents)
<1>1. \A h \in Lists : DOMAIN Contents[h] = 1 .. Len(Contents[h])
  BY DEF Represents, Contenting
<1>2. e \in Elems /\ \A h \in Lists : e \notin ToSet(Contents[h])
  BY DEF Unlinked, Members
<1>3. Outside(Contents, e)
  BY <1>1, <1>2 DEF Outside, ToSet
<1>4. e \in Sequence!Free(Contents)
  BY <1>2 DEF Sequence!Free, Sequence!ToSet, ToSet
<1> QED BY <1>3, <1>4

LEMMA MemberIs ==
  ASSUME Represents(ring, Contents, <<>>), NEW h \in Lists, NEW e \in Members(h)
  PROVE  \E i \in 1 .. Len(Contents[h]) : e = Contents[h][i]
<1>1. Contents[h] \in Seq(Elems)
  BY DEF Represents, Contenting
<1> QED BY <1>1 DEF Members, ToSet

\* A node of a list has a place in its sequence, and one node comes before it.
LEMMA NodeOf ==
  ASSUME NEW s \in Seq(Elems), NEW h \in Lists, NEW p, p = h \/ \E i \in 1 .. Len(s) : p = s[i]
  PROVE  \E k \in 1 .. Len(s) + 1 : p = NodeAt(s, h, k)
<1>1. CASE p = h
  <2>1. NodeAt(s, h, Len(s) + 1) = h /\ Len(s) + 1 \in 1 .. Len(s) + 1
    BY DEF NodeAt
  <2> QED BY <1>1, <2>1
<1>2. ASSUME NEW i \in 1 .. Len(s), p = s[i] PROVE p = NodeAt(s, h, i) /\ i \in 1 .. Len(s) + 1
  BY <1>2 DEF NodeAt
<1> QED BY <1>1, <1>2

LEMMA NodeBefore ==
  ASSUME NEW s \in Seq(Elems), NEW h \in Lists, NEW p, p = h \/ \E i \in 1 .. Len(s) : p = s[i]
  PROVE  \E k \in 1 .. Len(s) + 1 : p = NodeAt(s, h, k - 1)
<1>1. CASE p = h
  <2>1. NodeAt(s, h, 1 - 1) = h /\ 1 \in 1 .. Len(s) + 1
    BY DEF NodeAt
  <2> QED BY <1>1, <2>1
<1>2. ASSUME NEW i \in 1 .. Len(s), p = s[i] PROVE p = NodeAt(s, h, (i + 1) - 1) /\ i + 1 \in 1 .. Len(s) + 1
  <2>1. (i + 1) - 1 = i
    OBVIOUS
  <2> QED BY <1>2, <2>1 DEF NodeAt
<1> QED BY <1>1, <1>2

\* Steps of SequenceLists, for the sequences Put and Cut.
LEMMA StepIsNext ==
  ASSUME Sequence!Step(Contents, Contents')
  PROVE  Sequence!Next
BY Zenon DEF Sequence!Next

LEMMA IsInsert ==
  ASSUME NEW h \in Lists, NEW k \in 1 .. Len(Contents[h]) + 1, NEW e \in Sequence!Free(Contents),
         Contents' = [Contents EXCEPT ![h] = Put(Contents[h], k, <<e>>)]
  PROVE  Sequence!Next
<1>1. Contents' = [Contents EXCEPT ![h] = InsertAt(Contents[h], k, e)]
  BY DEF Put, InsertAt
<1>2. Contents' = Sequence!Insert(Contents, h, k, e)
  BY <1>1 DEF Sequence!Insert, Sequence!InsertAt, InsertAt
<1>3. Sequence!Step(Contents, Contents')
  BY <1>2 DEF Sequence!Step
<1> QED BY <1>3, StepIsNext

LEMMA IsDelete ==
  ASSUME NEW h \in Lists, NEW k \in DOMAIN Contents[h],
         Contents' = [Contents EXCEPT ![h] = Cut(Contents[h], k, k)]
  PROVE  Sequence!Next
<1>1. Contents' = [Contents EXCEPT ![h] = RemoveAt(Contents[h], k)]
  BY DEF Cut, RemoveAt
<1>2. Contents' = Sequence!Delete(Contents, h, k)
  BY <1>1 DEF Sequence!Delete, Sequence!RemoveAt, RemoveAt
<1>3. Sequence!Step(Contents, Contents')
  BY <1>2 DEF Sequence!Step
<1> QED BY <1>3, StepIsNext

LEMMA IsMove ==
  ASSUME NEW g \in Lists, NEW h \in Lists, NEW k \in DOMAIN Contents[g], NEW M,
         M = [Contents EXCEPT ![g] = Cut(Contents[g], k, k)],
         NEW j \in 1 .. Len(Contents[h]) + 1, j <= Len(Contents[h]) + (IF g = h THEN 0 ELSE 1),
         Contents' = [M EXCEPT ![h] = Put(M[h], j, <<Contents[g][k]>>)]
  PROVE  Sequence!Next
<1>1. M = [Contents EXCEPT ![g] = RemoveAt(Contents[g], k)]
  BY DEF Cut, RemoveAt
<1>2. Contents' = [M EXCEPT ![h] = InsertAt(M[h], j, Contents[g][k])]
  BY DEF Put, InsertAt
<1>3. Contents' = Sequence!Move(Contents, g, k, h, j)
  BY <1>1, <1>2 DEF Sequence!Move, Sequence!InsertAt, Sequence!RemoveAt, InsertAt, RemoveAt
<1>4. Sequence!Step(Contents, Contents')
  <2>1. \E x \in DOMAIN Contents[g], y \in 1 .. Len(Contents[h]) + 1 :
          y <= Len(Contents[h]) + (IF g = h THEN 0 ELSE 1) /\ Contents' = Sequence!Move(Contents, g, x, h, y)
    BY <1>3
  <2> QED BY <2>1, Zenon DEF Sequence!Step
<1> QED BY <1>4, StepIsNext

\* What each operation does to the sequences, and that it is a step of SequenceLists.
LEMMA InsertAtNode ==
  ASSUME NEW r, NEW L, Represents(r, L, <<>>), NEW e, Outside(L, e), NEW h \in Lists,
         NEW p, p = h \/ \E i \in 1 .. Len(L[h]) : p = L[h][i]
  PROVE  /\ \E k \in 1 .. Len(L[h]) + 1 : Represents(SpliceBefore(r, p, e, e), [L EXCEPT ![h] = Put(L[h], k, <<e>>)], <<>>)
         /\ \E k \in 1 .. Len(L[h]) + 1 : Represents(SpliceAfter(r, p, e, e), [L EXCEPT ![h] = Put(L[h], k, <<e>>)], <<>>)
<1>1. PICK s \in Seq(Elems) : s = L[h]
  BY DEF Represents, Contenting
<1>2. p = h \/ \E i \in 1 .. Len(s) : p = s[i]
  BY <1>1
<1>3. PICK k \in 1 .. Len(s) + 1 : p = NodeAt(s, h, k)
  BY <1>2, NodeOf
<1>4. PICK j \in 1 .. Len(s) + 1 : p = NodeAt(s, h, j - 1)
  BY <1>2, NodeBefore
<1>5. Represents(SpliceBefore(r, NodeAt(L[h], h, k), e, e), [L EXCEPT ![h] = Put(L[h], k, <<e>>)], <<>>)
  BY <1>1, InsertKeeps
<1>6. Represents(SpliceAfter(r, NodeAt(L[h], h, j - 1), e, e), [L EXCEPT ![h] = Put(L[h], j, <<e>>)], <<>>)
  BY <1>1, InsertKeeps
<1>7. Represents(SpliceBefore(r, p, e, e), [L EXCEPT ![h] = Put(L[h], k, <<e>>)], <<>>)
  BY <1>1, <1>3, <1>5
<1>8. Represents(SpliceAfter(r, p, e, e), [L EXCEPT ![h] = Put(L[h], j, <<e>>)], <<>>)
  BY <1>1, <1>4, <1>6
<1> QED BY <1>1, <1>7, <1>8

LEMMA InsertSteps ==
  ASSUME Represents(ring, Contents, <<>>), NEW h \in Lists, NEW e \in Unlinked, NEW p \in Members(h) \union {h},
         ring' = SpliceBefore(ring, p, e, e) \/ ring' = SpliceAfter(ring, p, e, e)
  PROVE  Stepped /\ Contents' \in Contenting /\ (\A g \in Lists \ {h} : Contents'[g] = Contents[g])
         /\ Len(Contents'[h]) = Len(Contents[h]) + 1
<1>1. PICK L : L = Contents
  OBVIOUS
<1>2. PICK s \in Seq(Elems) : s = L[h]
  BY <1>1 DEF Represents, Contenting
<1>3. Outside(L, e) /\ e \in Sequence!Free(Contents) /\ e \in Elems
  BY <1>1, OutsideIs DEF Outside
<1>4. p = h \/ \E i \in 1 .. Len(s) : p = s[i]
  BY <1>1, <1>2, MemberIs
<1>5. PICK k \in 1 .. Len(s) + 1 : Represents(ring', [L EXCEPT ![h] = Put(L[h], k, <<e>>)], <<>>)
  BY <1>1, <1>2, <1>3, <1>4, InsertAtNode, SMTT(30)
<1>6. Contents' = [L EXCEPT ![h] = Put(L[h], k, <<e>>)]
  BY <1>5, ContentsBecome
<1>7. Represents(ring', Contents', <<>>)
  BY <1>5, <1>6
<1>8. Sequence!Next
  BY <1>1, <1>2, <1>3, <1>6, IsInsert
<1>9. Len(Put(s, k, <<e>>)) = Len(s) + 1
  <2>1. PICK t : t = <<e>>
    OBVIOUS
  <2>2. t \in Seq(Elems) /\ Len(t) = 1 /\ s \in Seq(Elems)
    BY <1>3, <2>1
  <2>3. Len(Put(s, k, t)) = Len(s) + Len(t)
    BY <2>2, PutIs
  <2> QED BY <2>1, <2>2, <2>3
<1>10. L \in Contenting /\ Contents' \in Contenting
  BY <1>1, <1>7 DEF Represents
<1> QED BY <1>1, <1>2, <1>6, <1>7, <1>8, <1>9, <1>10 DEF Stepped, Contenting

LEMMA RemoveSteps ==
  ASSUME Represents(ring, Contents, <<>>), NEW h \in Lists, NEW e \in Members(h), ring' = Unsplice(ring, e, e)
  PROVE  /\ Stepped /\ Contents' \in Contenting /\ \A g \in Lists \ {h} : Contents'[g] = Contents[g]
         /\ Len(Contents'[h]) = Len(Contents[h]) - 1
         /\ \E i \in 1 .. Len(Contents[h]) : e = Contents[h][i] /\ Contents'[h] = Cut(Contents[h], i, i)
<1>1. PICK L : L = Contents
  OBVIOUS
<1>2. L \in Contenting /\ L[h] \in Seq(Elems) /\ Represents(ring, L, <<>>)
  BY <1>1 DEF Represents, Contenting
<1>3. PICK i \in 1 .. Len(L[h]) : e = L[h][i]
  BY <1>1, MemberIs
<1>4. Represents(ring', [L EXCEPT ![h] = Cut(L[h], i, i)], <<>>) /\ Len(Cut(L[h], i, i)) = Len(L[h]) - 1
  BY <1>2, <1>3, RemoveKeeps
<1>5. Contents' = [L EXCEPT ![h] = Cut(L[h], i, i)]
  BY <1>4, ContentsBecome
<1>6. Represents(ring', Contents', <<>>)
  BY <1>4, <1>5
<1>7. i \in DOMAIN L[h]
  BY <1>2
<1>8. Sequence!Next
  BY <1>1, <1>5, <1>7, IsDelete
<1>9. Contents' \in Contenting
  BY <1>6 DEF Represents
<1>10. Contents'[h] = Cut(L[h], i, i) /\ \A g \in Lists \ {h} : Contents'[g] = L[g]
  BY <1>2, <1>5 DEF Contenting
<1> QED BY <1>1, <1>3, <1>4, <1>6, <1>8, <1>9, <1>10 DEF Stepped

\* An element that goes to another place, of the same list or of another one.
LEMMA MoveSteps ==
  ASSUME Represents(ring, Contents, <<>>), NEW g \in Lists, NEW h \in Lists, NEW e \in Members(g),
         NEW p, p = h \/ p \in Members(h), p # e,
         \/ ring' = SpliceBefore(Unsplice(ring, e, e), p, e, e)
         \/ ring' = SpliceAfter(Unsplice(ring, e, e), p, e, e)
  PROVE  /\ Stepped /\ Contents' \in Contenting /\ \A f \in Lists \ {g, h} : Contents'[f] = Contents[f]
         /\ g = h => Len(Contents'[h]) = Len(Contents[h])
         /\ g # h => /\ Len(Contents'[g]) = Len(Contents[g]) - 1 /\ Len(Contents'[h]) = Len(Contents[h]) + 1
                     /\ \E i \in 1 .. Len(Contents[g]) : e = Contents[g][i] /\ Contents'[g] = Cut(Contents[g], i, i)
<1>1. PICK L : L = Contents
  OBVIOUS
<1>2. L \in Contenting /\ (\A f \in Lists : L[f] \in Seq(Elems)) /\ Represents(ring, L, <<>>) /\ Apart(L)
  BY <1>1 DEF Represents, Contenting
<1>3. PICK i \in 1 .. Len(L[g]) : e = L[g][i]
  BY <1>1, MemberIs
<1>4. PICK M : M = [L EXCEPT ![g] = Cut(L[g], i, i)]
  OBVIOUS
<1>5. PICK r : r = Unsplice(ring, e, e)
  OBVIOUS
<1>6. Represents(r, M, <<>>) /\ Outside(M, e) /\ Cut(L[g], i, i) \in Seq(Elems) /\ Len(Cut(L[g], i, i)) = Len(L[g]) - 1
  BY <1>2, <1>3, <1>4, <1>5, RemoveKeeps
<1>7. M \in Contenting /\ M[g] = Cut(L[g], i, i) /\ \A f \in Lists \ {g} : M[f] = L[f]
  BY <1>2, <1>4, <1>6 DEF Contenting
<1>8. PICK s \in Seq(Elems) : s = M[h]
  BY <1>7 DEF Contenting
<1>9. p = h \/ \E x \in 1 .. Len(s) : p = s[x]
  <2> SUFFICES ASSUME p \in Members(h) PROVE \E x \in 1 .. Len(s) : p = s[x]
    OBVIOUS
  <2>1. PICK j \in 1 .. Len(L[h]) : p = L[h][j]
    BY <1>1, MemberIs
  <2>2. CASE g # h
    BY <1>7, <1>8, <2>1, <2>2
  <2>3. CASE g = h
    <3>0. i \in i .. Len(L[g]) /\ i - i + 1 = 1 /\ j # i
      BY <1>3, <2>1, <2>3
    <3>1. /\ \A k \in 1 .. i - 1 : Cut(L[g], i, i)[k] = L[g][k]
          /\ \A k \in i .. Len(L[g]) - (i - i + 1) : Cut(L[g], i, i)[k] = L[g][k + (i - i + 1)]
      BY <1>2, <3>0, CutIs
    <3>2. CASE j < i
      <4>1. j \in 1 .. i - 1 /\ j \in 1 .. Len(s) /\ Cut(L[g], i, i) = s
        BY <1>2, <1>6, <1>7, <1>8, <2>3, <3>2
      <4> QED BY <2>1, <2>3, <3>1, <4>1
    <3>3. CASE j > i
      <4>1. j - 1 \in i .. Len(L[g]) - (i - i + 1) /\ j - 1 \in 1 .. Len(s) /\ Cut(L[g], i, i) = s /\ (j - 1) + (i - i + 1) = j
        BY <1>2, <1>6, <1>7, <1>8, <2>3, <3>3
      <4> QED BY <2>1, <2>3, <3>1, <4>1
    <3> QED BY <3>0, <3>2, <3>3
  <2> QED BY <2>2, <2>3
<1>10. PICK k \in 1 .. Len(s) + 1 : Represents(ring', [M EXCEPT ![h] = Put(M[h], k, <<e>>)], <<>>)
  <2>1. p = h \/ \E x \in 1 .. Len(M[h]) : p = M[h][x]
    BY <1>8, <1>9
  <2>2. /\ \E k \in 1 .. Len(M[h]) + 1 : Represents(SpliceBefore(r, p, e, e), [M EXCEPT ![h] = Put(M[h], k, <<e>>)], <<>>)
        /\ \E k \in 1 .. Len(M[h]) + 1 : Represents(SpliceAfter(r, p, e, e), [M EXCEPT ![h] = Put(M[h], k, <<e>>)], <<>>)
    BY <1>6, <2>1, InsertAtNode
  <2> QED BY <1>5, <1>8, <2>2
<1>11. Contents' = [M EXCEPT ![h] = Put(M[h], k, <<e>>)]
  BY <1>10, ContentsBecome
<1>12. Represents(ring', Contents', <<>>)
  BY <1>10, <1>11
<1>13. Len(s) = Len(L[h]) - (IF g = h THEN 1 ELSE 0)
  <2>1. CASE g = h
    BY <1>6, <1>7, <1>8, <2>1
  <2>2. CASE g # h
    BY <1>2, <1>7, <1>8, <2>2
  <2> QED BY <2>1, <2>2
<1>14. Sequence!Next
  <2>1. k \in 1 .. Len(L[h]) + 1 /\ k <= Len(L[h]) + (IF g = h THEN 0 ELSE 1) /\ i \in DOMAIN L[g]
    <3>1. DOMAIN L[g] = 1 .. Len(L[g]) /\ Len(L[h]) \in Nat
      BY <1>2
    <3>2. k \in 1 .. Len(s) + 1
      OBVIOUS
    <3>3. CASE g = h
      BY <1>13, <3>1, <3>2, <3>3
    <3>4. CASE g # h
      BY <1>13, <3>1, <3>2, <3>4
    <3> QED BY <3>3, <3>4
  <2>2. Contents' = [M EXCEPT ![h] = Put(M[h], k, <<L[g][i]>>)]
    BY <1>3, <1>11
  <2> QED BY <1>1, <1>4, <2>1, <2>2, IsMove
<1>15. Len(Put(s, k, <<e>>)) = Len(s) + 1
  <2>1. PICK t : t = <<e>>
    OBVIOUS
  <2>2. t \in Seq(Elems) /\ Len(t) = 1 /\ s \in Seq(Elems)
    BY <1>6, <2>1 DEF Outside
  <2>3. Len(Put(s, k, t)) = Len(s) + Len(t)
    BY <2>2, PutIs
  <2> QED BY <2>1, <2>2, <2>3
<1>16. Contents' \in Contenting
  BY <1>12 DEF Represents
<1>17. Len(Contents'[h]) = Len(s) + 1 /\ \A f \in Lists \ {h} : Contents'[f] = M[f]
  BY <1>7, <1>8, <1>11, <1>15 DEF Contenting
<1>18. Len(L[h]) \in Nat
  BY <1>2
<1>19. g = h => Len(Contents'[h]) = Len(Contents[h])
  BY <1>1, <1>13, <1>17, <1>18
<1>20. g # h => Len(Contents'[g]) = Len(Contents[g]) - 1 /\ Len(Contents'[h]) = Len(Contents[h]) + 1
  BY <1>1, <1>6, <1>7, <1>13, <1>17, <1>18
<1>21. \A f \in Lists \ {g, h} : Contents'[f] = Contents[f]
  BY <1>1, <1>7, <1>17
<1>22. g # h => \E x \in 1 .. Len(Contents[g]) : e = Contents[g][x] /\ Contents'[g] = Cut(Contents[g], x, x)
  BY <1>1, <1>3, <1>7, <1>17
<1> QED BY <1>12, <1>14, <1>16, <1>19, <1>20, <1>21, <1>22 DEF Stepped

\* All of g behind the end of h, in the order the code writes the pointers.
LEMMA SameRing ==
  ASSUME NEW x \in Rings, NEW y \in Rings, \A n \in Nodes : x.next[n] = y.next[n] /\ x.prev[n] = y.prev[n]
  PROVE  x = y
<1>1. x.next = y.next /\ x.prev = y.prev
  BY DEF Rings
<1> QED BY <1>1, RingIs

\* The head of a list points to itself.
Emptied(r, g) == [r EXCEPT !.next[g] = g, !.prev[g] = g]

LEMMA ConcatIs ==
  ASSUME NEW r \in Rings, NEW a \in Nodes, NEW b \in Nodes, NEW g \in Nodes, NEW h \in Nodes, NEW p \in Nodes,
         r.prev[a] = g, r.next[b] = g, r.prev[h] = p, g # h, h # a, g # a, g # b, h # b, p # g, p # b
  PROVE  SpliceBefore(Unsplice(r, a, b), h, a, b) = Emptied(SpliceBefore(r, h, a, b), g)
<1>1. PICK v \in Rings : v = Unsplice(r, a, b) /\ \A x \in Nodes : /\ v.next[x] = IF x = g THEN g ELSE r.next[x]
                                                                   /\ v.prev[x] = IF x = g THEN g ELSE r.prev[x]
  <2>1. PICK y : y = Unsplice(r, a, b)
    OBVIOUS
  <2>2. y \in Rings /\ \A x \in Nodes : /\ y.next[x] = IF x = g THEN g ELSE r.next[x]
                                        /\ y.prev[x] = IF x = g THEN g ELSE r.prev[x]
    BY <2>1, UnspliceIs
  <2> QED BY <2>1, <2>2
<1>2. v.prev[h] = p
  BY <1>1
<1>3. PICK w : w = SpliceBefore(v, h, a, b)
  OBVIOUS
<1>4. w \in Rings /\ \A x \in Nodes : /\ w.next[x] = IF x = p THEN a ELSE IF x = b THEN h ELSE v.next[x]
                                      /\ w.prev[x] = IF x = h THEN b ELSE IF x = a THEN p ELSE v.prev[x]
  BY <1>2, <1>3, SpliceBeforeIs, SMTT(40)
<1>5. PICK q \in Rings : /\ q = SpliceBefore(r, h, a, b)
                         /\ \A x \in Nodes : /\ q.next[x] = IF x = p THEN a ELSE IF x = b THEN h ELSE r.next[x]
                                             /\ q.prev[x] = IF x = h THEN b ELSE IF x = a THEN p ELSE r.prev[x]
  <2>1. PICK y : y = SpliceBefore(r, h, a, b)
    OBVIOUS
  <2>2. y \in Rings /\ \A x \in Nodes : /\ y.next[x] = IF x = p THEN a ELSE IF x = b THEN h ELSE r.next[x]
                                        /\ y.prev[x] = IF x = h THEN b ELSE IF x = a THEN p ELSE r.prev[x]
    BY <2>1, SpliceBeforeIs, SMTT(40)
  <2> QED BY <2>1, <2>2
<1>6. PICK u : u = Emptied(q, g)
  OBVIOUS
<1>7. u \in Rings /\ \A x \in Nodes : /\ u.next[x] = IF x = g THEN g ELSE q.next[x]
                                      /\ u.prev[x] = IF x = g THEN g ELSE q.prev[x]
  <2>1. u = [next |-> [q.next EXCEPT ![g] = g], prev |-> [q.prev EXCEPT ![g] = g]]
    BY <1>6 DEF Rings, Emptied
  <2> QED BY <2>1 DEF Rings
<1>8. \A x \in Nodes : w.next[x] = u.next[x] /\ w.prev[x] = u.prev[x]
  BY <1>1, <1>4, <1>5, <1>7
<1>9. w = u
  BY <1>4, <1>7, <1>8, SameRing
<1> QED BY <1>1, <1>3, <1>5, <1>6, <1>9

LEMMA ConcatSteps ==
  ASSUME Represents(ring, Contents, <<>>), NEW g \in Lists, NEW h \in Lists, g # h,
         ring' = IF IsEmpty(ring, g) THEN ring
                 ELSE Emptied(SpliceBefore(ring, h, FirstOf(ring, g), LastLink(ring, g)), g)
  PROVE  Stepped /\ Contents' \in Contenting /\ (\A f \in Lists \ {g, h} : Contents'[f] = Contents[f])
         /\ Len(Contents'[g]) = 0 /\ Len(Contents'[h]) = Len(Contents[h]) + Len(Contents[g])
<1>1. PICK L : L = Contents
  OBVIOUS
<1>2. /\ L \in Contenting /\ Represents(ring, L, <<>>) /\ ring \in Rings /\ Apart(L)
      /\ \A f \in Lists : L[f] \in Seq(Elems) /\ Linked(ring, f, L[f])
  BY <1>1 DEF Represents, Contenting
<1>3. PICK s \in Seq(Elems) : s = L[g]
  BY <1>2
<1>4. PICK z \in Seq(Elems) : z = L[h]
  BY <1>2
<1>5. PICK n \in Nat : n = Len(s)
  OBVIOUS
<1>6. FirstOf(ring, g) = NodeAt(s, g, 1) /\ LastLink(ring, g) = NodeAt(s, g, n)
  <2>1. NodeAt(s, g, 0) = g /\ NodeAt(s, g, n + 1) = g
    BY <1>5 DEF NodeAt
  <2>2. ring.next[NodeAt(s, g, 0)] = NodeAt(s, g, 0 + 1) /\ ring.prev[NodeAt(s, g, n + 1)] = NodeAt(s, g, n)
    BY <1>2, <1>3, <1>5 DEF Linked
  <2> QED BY <2>1, <2>2 DEF FirstOf, LastLink
<1>7. IsEmpty(ring, g) <=> n = 0
  BY <1>3, <1>5, <1>6, HeadsAreNoElems DEF IsEmpty, NodeAt
<1>8. CASE n = 0
  <2>1. ring' = ring /\ Contents' = L
    BY <1>1, <1>2, <1>7, <1>8, ContentsBecome
  <2>2. Stepped /\ Contents' \in Contenting
    BY <1>1, <1>2, <2>1 DEF Stepped
  <2>3. Len(L[g]) = 0 /\ Len(L[h]) = Len(L[h]) + Len(L[g])
    BY <1>3, <1>4, <1>5, <1>8
  <2> QED BY <1>1, <2>1, <2>2, <2>3
<1>9. CASE n # 0
  <2>1. PICK a \in Nodes : a = s[1] /\ a = FirstOf(ring, g) /\ a \in Elems
    BY <1>3, <1>5, <1>6, <1>9 DEF NodeAt, Nodes
  <2>2. PICK b \in Nodes : b = s[n] /\ b = LastLink(ring, g) /\ b \in Elems
    BY <1>3, <1>5, <1>6, <1>9 DEF NodeAt, Nodes
  <2>3. PICK M : M = [L EXCEPT ![g] = Cut(s, 1, n)]
    OBVIOUS
  <2>4. PICK t : t = SubSeq(s, 1, n)
    OBVIOUS
  <2>5. t = s /\ t \in Seq(Elems) /\ Len(t) = n /\ t # <<>>
    BY <1>5, <1>9, <2>4
  <2>6. Represents(Unsplice(ring, a, b), M, t)
    <3>1. 1 \in 1 .. Len(L[g]) /\ n \in 1 .. Len(L[g])
      BY <1>3, <1>5, <1>9
    <3>2. Represents(Unsplice(ring, L[g][1], L[g][n]), [L EXCEPT ![g] = Cut(L[g], 1, n)], SubSeq(L[g], 1, n))
      BY <1>2, <3>1, CutKeeps
    <3> QED BY <1>3, <2>1, <2>2, <2>3, <2>4, <3>2
  <2>7. M[h] = z /\ M \in Contenting
    BY <1>2, <1>4, <2>3, <2>6 DEF Contenting, Represents
  <2>8. NodeAt(z, h, Len(z) + 1) = h /\ Len(z) + 1 \in 1 .. Len(z) + 1
    BY DEF NodeAt
  <2>9. Represents(SpliceBefore(Unsplice(ring, a, b), h, a, b), [M EXCEPT ![h] = Put(z, Len(z) + 1, t)], <<>>)
    <3>1. Represents(SpliceBefore(Unsplice(ring, a, b), NodeAt(M[h], h, Len(z) + 1), t[1], t[Len(t)]),
                     [M EXCEPT ![h] = Put(M[h], Len(z) + 1, t)], <<>>)
      BY <2>5, <2>6, <2>7, <2>8, JoinKeeps
    <3> QED BY <2>1, <2>2, <2>5, <2>7, <2>8, <3>1
  <2>10. PICK p \in Nodes : p = ring.prev[h] /\ p = NodeAt(z, h, Len(z))
    <3>1. ring.prev[NodeAt(z, h, Len(z) + 1)] = NodeAt(z, h, Len(z))
      <4>1. Linked(ring, h, z) /\ Len(z) \in 0 .. Len(z)
        BY <1>2, <1>4
      <4> QED BY <4>1 DEF Linked
    <3> QED BY <2>8, <3>1, NodeIsNode
  <2>11. p # g /\ p # b
    <3>1. p = h \/ (Len(z) \in 1 .. Len(z) /\ p = z[Len(z)])
      BY <2>10 DEF NodeAt
    <3>2. ASSUME Len(z) \in 1 .. Len(z), p = z[Len(z)] PROVE p # g /\ p # b
      <4>1. n \in 1 .. Len(s) /\ L[h][Len(z)] = p /\ L[g][n] = b /\ Len(z) \in 1 .. Len(L[h])
        BY <1>3, <1>4, <1>5, <1>9, <2>2, <3>2
      <4> QED BY <1>2, <1>3, <3>2, <4>1, HeadsAreNoElems DEF Apart
    <3> QED BY <2>2, <3>1, <3>2, HeadsAreNoElems
  <2>12. ring.prev[a] = g /\ ring.next[b] = g
    <3>1. NodeAt(s, g, 1) = a /\ NodeAt(s, g, 0) = g /\ NodeAt(s, g, n) = b /\ NodeAt(s, g, n + 1) = g /\ 0 + 1 = 1
      BY <1>5, <1>6, <2>1, <2>2 DEF NodeAt
    <3>2. ring.prev[NodeAt(s, g, 0 + 1)] = NodeAt(s, g, 0) /\ ring.next[NodeAt(s, g, n)] = NodeAt(s, g, n + 1)
      BY <1>2, <1>3, <1>5 DEF Linked
    <3> QED BY <3>1, <3>2
  <2>13. g \in Nodes /\ h \in Nodes /\ a # g /\ a # h /\ b # g /\ b # h
    BY <2>1, <2>2, HeadsAreNoElems DEF Nodes
  <2>14. PICK u : u = Emptied(SpliceBefore(ring, h, a, b), g)
    OBVIOUS
  <2>15. ring' = u
    BY <1>7, <1>9, <2>1, <2>2, <2>14
  <2>16. PICK r \in Rings : r = ring
    BY <1>2
  <2>17. SpliceBefore(Unsplice(r, a, b), h, a, b) = u
    <3>1. r.prev[a] = g /\ r.next[b] = g /\ r.prev[h] = p
      BY <2>10, <2>12, <2>16
    <3>2. SpliceBefore(Unsplice(r, a, b), h, a, b) = Emptied(SpliceBefore(r, h, a, b), g)
      BY <2>11, <2>13, <3>1, ConcatIs
    <3> QED BY <2>14, <2>16, <3>2
  <2>18. Represents(ring', [M EXCEPT ![h] = Put(z, Len(z) + 1, t)], <<>>)
    BY <2>9, <2>15, <2>16, <2>17
  <2>19. Contents' = [M EXCEPT ![h] = Put(z, Len(z) + 1, t)]
    BY <2>18, ContentsBecome
  <2>20. Cut(s, 1, n) = <<>>
    BY <1>5 DEF Cut
  <2>21. Put(z, Len(z) + 1, t) = z \o s
    <3>1. SubSeq(z, 1, (Len(z) + 1) - 1) = z /\ SubSeq(z, Len(z) + 1, Len(z)) = <<>>
      OBVIOUS
    <3>2. (z \o s) \o <<>> = z \o s
      OBVIOUS
    <3> QED BY <2>5, <3>1, <3>2 DEF Put
  <2>22. Contents' = [L EXCEPT ![h] = z \o s, ![g] = <<>>]
    BY <1>2, <2>3, <2>19, <2>20, <2>21 DEF Contenting
  <2>23. Contents' = Sequence!Concat(Contents, h, g)
    BY <1>1, <1>3, <1>4, <2>22 DEF Sequence!Concat
  <2>24. Sequence!Next
    <3>1. Sequence!Step(Contents, Contents')
      BY <2>23 DEF Sequence!Step
    <3> QED BY <3>1, StepIsNext
  <2>25. Represents(ring', Contents', <<>>) /\ Contents' \in Contenting
    BY <2>18, <2>19 DEF Represents
  <2>26. Contents'[g] = <<>> /\ Contents'[h] = z \o s /\ Len(z \o s) = Len(z) + n /\ \A f \in Lists \ {g, h} : Contents'[f] = L[f]
    BY <1>2, <1>5, <2>22 DEF Contenting
  <2> QED BY <1>1, <1>3, <1>4, <1>5, <2>24, <2>25, <2>26 DEF Stepped
<1> QED BY <1>8, <1>9

LEMMA SplitSteps ==
  ASSUME Represents(ring, Contents, <<>>), NEW g \in Lists, NEW h \in Lists, g # h, NEW e \in Members(h),
         NEW last, last = LastLink(ring, h), NEW cut, cut = Unsplice(ring, e, last),
         ring' = SpliceAfter(cut, FirstOf(cut, g), e, last)
  PROVE  Stepped /\ \A f \in Lists \ {g, h} : Contents'[f] = Contents[f]
<1>1. PICK L : L = Contents
  OBVIOUS
<1>2. /\ L \in Contenting /\ Represents(ring, L, <<>>)
      /\ \A f \in Lists : L[f] \in Seq(Elems) /\ Linked(ring, f, L[f])
  BY <1>1 DEF Represents, Contenting
<1>3. PICK i \in 1 .. Len(L[h]) : e = L[h][i]
  BY <1>1, MemberIs
<1>4. PICK z \in Seq(Elems) : z = L[h]
  BY <1>2
<1>5. PICK s \in Seq(Elems) : s = L[g]
  BY <1>2
<1>6. PICK n \in Nat \ {0} : n = Len(z) /\ i \in 1 .. n /\ n \in i .. n
  BY <1>4
<1>7. last = z[n]
  <2>1. NodeAt(z, h, n + 1) = h /\ NodeAt(z, h, n) = z[n] /\ n \in 0 .. n
    BY <1>6 DEF NodeAt
  <2>2. ring.prev[NodeAt(z, h, n + 1)] = NodeAt(z, h, n)
    BY <1>2, <1>4, <1>6, <2>1 DEF Linked
  <2> QED BY <2>1, <2>2 DEF LastLink
<1>8. PICK M : M = [L EXCEPT ![h] = Cut(z, i, n)]
  OBVIOUS
<1>9. PICK t : t = SubSeq(z, i, n)
  OBVIOUS
<1>10. Represents(cut, M, t)
  <2>1. i \in 1 .. Len(L[h]) /\ n \in i .. Len(L[h])
    BY <1>4, <1>6
  <2>2. Represents(Unsplice(ring, L[h][i], L[h][n]), [L EXCEPT ![h] = Cut(L[h], i, n)], SubSeq(L[h], i, n))
    BY <1>2, <2>1, CutKeeps
  <2> QED BY <1>3, <1>4, <1>7, <1>8, <1>9, <2>2
<1>11. t \in Seq(Elems) /\ Len(t) = n - i + 1 /\ t[1] = e /\ t[Len(t)] = last /\ t # <<>>
  <2>1. i \in 1 .. Len(z) + 1 /\ n \in i - 1 .. Len(z)
    BY <1>6
  <2>2. t \in Seq(Elems) /\ Len(t) = n - i + 1 /\ \A x \in 1 .. n - i + 1 : t[x] = z[i - 1 + x]
    BY <1>9, <2>1, PartIs
  <2>3. 1 \in 1 .. n - i + 1 /\ n - i + 1 \in 1 .. n - i + 1 /\ i - 1 + 1 = i /\ i - 1 + (n - i + 1) = n
    BY <1>6
  <2>4. t[1] = z[i]
    BY <2>2, <2>3
  <2>5. t[n - i + 1] = z[n]
    BY <2>2, <2>3
  <2>6. t # <<>>
    <3>1. Len(t) >= 1
      BY <2>2, <2>3
    <3> QED BY <3>1
  <2> QED BY <1>3, <1>4, <1>7, <2>2, <2>4, <2>5, <2>6
<1>12. M \in Contenting /\ M[g] = s /\ M[h] = Cut(z, i, n)
  BY <1>2, <1>5, <1>8, <1>10 DEF Contenting, Represents
<1>13. PICK k \in 1 .. Len(s) + 1 : k = (IF s = <<>> THEN 1 ELSE 2) /\ FirstOf(cut, g) = NodeAt(s, g, k - 1)
  <2>1. Linked(cut, g, s) /\ 0 \in 0 .. Len(s) /\ 0 + 1 = 1 /\ 2 - 1 = 1 /\ 1 - 1 = 0
    BY <1>10, <1>12 DEF Represents
  <2>2. cut.next[NodeAt(s, g, 0)] = NodeAt(s, g, 0 + 1)
    BY <2>1 DEF Linked
  <2>3. NodeAt(s, g, 0) = g
    BY DEF NodeAt
  <2>4. FirstOf(cut, g) = NodeAt(s, g, 1)
    BY <2>1, <2>2, <2>3 DEF FirstOf
  <2>5. CASE s = <<>>
    <3>1. NodeAt(s, g, 1) = g /\ 1 \in 1 .. Len(s) + 1
      BY <2>5 DEF NodeAt
    <3> QED BY <2>1, <2>3, <2>4, <2>5, <3>1
  <2>6. CASE s # <<>>
    <3>1. 2 \in 1 .. Len(s) + 1
      BY <2>6
    <3> QED BY <2>1, <2>4, <2>6, <3>1
  <2> QED BY <2>5, <2>6
<1>14. Represents(ring', [M EXCEPT ![g] = Put(s, k, t)], <<>>)
  <2>1. k \in 1 .. Len(M[g]) + 1
    BY <1>12
  <2>2. Represents(SpliceAfter(cut, NodeAt(M[g], g, k - 1), t[1], t[Len(t)]), [M EXCEPT ![g] = Put(M[g], k, t)], <<>>)
    BY <1>10, <1>11, <2>1, JoinAfterKeeps
  <2> QED BY <1>11, <1>12, <1>13, <2>2
<1>15. Contents' = [M EXCEPT ![g] = Put(s, k, t)]
  BY <1>14, ContentsBecome
<1>16. Cut(z, i, n) = SubSeq(z, 1, i - 1)
  <2>1. SubSeq(z, n + 1, n) = <<>>
    BY <1>6
  <2>2. SubSeq(z, 1, i - 1) \in Seq(Elems)
    BY <1>6
  <2>3. SubSeq(z, 1, i - 1) \o <<>> = SubSeq(z, 1, i - 1)
    BY <2>2
  <2> QED BY <1>6, <2>1, <2>3 DEF Cut
<1>17. Contents' = Sequence!Split(Contents, h, i, g)
  <2>1. PICK m : m = IF s = <<>> THEN 0 ELSE 1
    OBVIOUS
  <2>2. k - 1 = m /\ k = m + 1
    BY <1>13, <2>1
  <2>3. Put(s, k, t) = SubSeq(s, 1, m) \o t \o SubSeq(s, m + 1, Len(s))
    BY <2>2 DEF Put
  <2>4. Contents' = [L EXCEPT ![h] = SubSeq(z, 1, i - 1), ![g] = SubSeq(s, 1, m) \o t \o SubSeq(s, m + 1, Len(s))]
    BY <1>2, <1>8, <1>15, <1>16, <2>3 DEF Contenting
  <2>5. t = SubSeq(L[h], i, Len(L[h]))
    BY <1>4, <1>6, <1>9
  <2> QED BY <1>1, <1>4, <1>5, <2>1, <2>4, <2>5 DEF Sequence!Split
<1>18. Sequence!Next
  <2>1. i \in DOMAIN Contents[h]
    BY <1>1, <1>4
  <2>2. Sequence!Step(Contents, Contents')
    BY <1>17, <2>1 DEF Sequence!Step
  <2> QED BY <2>2, StepIsNext
<1>19. Represents(ring', Contents', <<>>)
  BY <1>14, <1>15
<1>20. \A f \in Lists \ {g, h} : Contents'[f] = L[f]
  BY <1>2, <1>8, <1>12, <1>15 DEF Contenting
<1> QED BY <1>1, <1>18, <1>19, <1>20 DEF Stepped

LEMMA ClearSteps ==
  ASSUME Represents(ring, Contents, <<>>), NEW h \in Lists,
         ring' = FoldLeft(LAMBDA r, e : Unsplice(r, e, e), ring, Contents[h])
  PROVE  Stepped /\ Contents' \in Contenting /\ Contents'[h] = <<>> /\ \A f \in Lists \ {h} : Contents'[f] = Contents[f]
<1>1. Represents(FoldLeft(LAMBDA r, e : Unsplice(r, e, e), ring, Contents[h]), [Contents EXCEPT ![h] = <<>>], <<>>)
  BY ClearKeeps
<1>2. Represents(ring', [Contents EXCEPT ![h] = <<>>], <<>>)
  BY <1>1, Zenon
<1>3. PICK L : L = Contents
  OBVIOUS
<1>4. Represents(ring', [L EXCEPT ![h] = <<>>], <<>>)
  BY <1>2, <1>3
<1>5. Contents' = [L EXCEPT ![h] = <<>>]
  BY <1>4, ContentsBecome
<1>6. Contents' = Sequence!Clear(Contents, h)
  BY <1>3, <1>5 DEF Sequence!Clear
<1>7. Sequence!Next
  <2>1. Sequence!Step(Contents, Contents')
    BY <1>6 DEF Sequence!Step
  <2> QED BY <2>1, StepIsNext
<1>8. Represents(ring', Contents', <<>>)
  BY <1>4, <1>5
<1>9. L \in Contenting /\ Contents' \in Contenting
  BY <1>3, <1>8 DEF Represents
<1>10. Contents'[h] = <<>> /\ \A f \in Lists \ {h} : Contents'[f] = L[f]
  BY <1>5, <1>9 DEF Contenting
<1> QED BY <1>3, <1>7, <1>8, <1>9, <1>10 DEF Stepped
-----------------------------------------------------------------------------
(* The loop. *)
\* What a loop that is at the element m + 1 of start has before it is the end of D.
Ahead(D, start, m) ==
  /\ Len(start) - m - 1 <= Len(D)
  /\ \A k \in 1 .. Len(start) - m - 1 : D[Len(D) - (Len(start) - m - 1) + k] = start[m + 1 + k]

\* The sequence of a list in the direction of the iterator.
Along(s, rev) == IF rev THEN Reverse(s) ELSE s

\* The loop has visited m elements, and has fetched the one after the next.
LoopAt(m) ==
  /\ it.active
  /\ it = [list |-> it.list, active |-> it.active, elem |-> it.elem, next |-> it.next, start |-> it.start, seen |-> it.seen]
  /\ it.list \in Lists
  /\ it.start \in Seq(Elems)
  /\ Injective(it.start)
  /\ it.seen = SubSeq(it.start, 1, m)
  /\ it.elem = NodeAt(it.start, it.list, m + 1)
  /\ m < Len(it.start) => /\ it.next = NodeAt(it.start, it.list, m + 2)
                          /\ Ahead(Along(Contents[it.list], reverse), it.start, m)

LoopPlaced == it = NoIterator \/ \E m \in 0 .. Len(it.start) : LoopAt(m)

\* The inductive invariant of the lists.
ListInv == /\ Represents(ring, Contents, <<>>)
           /\ Counted
           /\ reverse \in BOOLEAN
           /\ LoopPlaced

\* The invariant implies the properties of the lists.
LEMMA ListInvHolds == ListInv => ListConsistent /\ LoopVisitsAll
<1> SUFFICES ASSUME ListInv PROVE ListConsistent /\ LoopVisitsAll
  OBVIOUS
<1>1. ListConsistent
  <2>1. \A h \in Lists : Walk(ring.prev, h) = Reverse(Contents[h])
    BY RepresentsContents DEF ListInv
  <2> QED BY <2>1 DEF ListConsistent, ListInv, Counted
<1>2. ASSUME it.active PROVE IsPrefix(it.seen, it.start) /\ (it.elem = it.list => it.seen = it.start)
  <2>1. it # NoIterator
    BY <1>2 DEF NoIterator
  <2>2. PICK m \in 0 .. Len(it.start) : LoopAt(m)
    BY <2>1 DEF ListInv, LoopPlaced
  <2>3. PICK s \in Seq(Elems) : s = it.start
    BY <2>2 DEF LoopAt
  <2>4. m \in 0 .. Len(s) /\ it.seen = SubSeq(s, 1, m) /\ it.elem = NodeAt(s, it.list, m + 1) /\ it.list \in Lists
    BY <2>2, <2>3 DEF LoopAt
  <2>5. IsPrefix(SubSeq(s, 1, m), s)
    <3>1. PICK a : a = SubSeq(s, 1, m)
      OBVIOUS
    <3>0. m \in 0 .. Len(s)
      BY <2>4
    <3>2. a \in Seq(Elems) /\ Len(a) = m /\ m <= Len(s)
      BY <3>0, <3>1
    <3>3. SubSeq(a, 1, m) = a
      BY <3>2
    <3> QED BY <3>1, <3>2, <3>3 DEF IsPrefix
  <2>6. it.elem = it.list => m = Len(s)
    BY <2>4, HeadsAreNoElems DEF NodeAt
  <2>7. m = Len(s) => SubSeq(s, 1, m) = s
    OBVIOUS
  <2> QED BY <2>3, <2>4, <2>5, <2>6, <2>7
<1> QED BY <1>1, <1>2 DEF LoopVisitsAll

LEMMA ListInvInit == LInit => ListInv /\ Contents = [h \in Lists |-> <<>>]
<1> SUFFICES ASSUME LInit PROVE ListInv /\ Contents = [h \in Lists |-> <<>>]
  OBVIOUS
<1>1. PICK L : L = [h \in Lists |-> <<>>]
  OBVIOUS
<1>2. PICK r : r = ring
  OBVIOUS
<1>3. r \in Rings /\ \A x \in Nodes : r.next[x] = x /\ r.prev[x] = x
  BY <1>2 DEF LInit, Rings
<1>4. L \in Contenting /\ \A h \in Lists : L[h] = <<>>
  BY <1>1 DEF Contenting
<1>5. ASSUME NEW h \in Lists PROVE Linked(r, h, L[h])
  <2>1. h \in Nodes
    BY DEF Nodes
  <2> QED BY <1>3, <1>4, <2>1 DEF Linked, NodeAt
<1>6. Represents(r, L, <<>>)
  BY <1>3, <1>4, <1>5 DEF Represents, Apart, Loose, Injective, Chained
<1>7. Contents = L
  BY <1>2, <1>6, ContentsAre
<1>8. Counted
  <2>1. 0 \in 0 .. SizeModulus - 1 /\ 0 % SizeModulus = 0
    BY SizeIsPositive
  <2> QED BY <1>4, <1>7, <2>1 DEF Counted, LInit
<1> QED BY <1>1, <1>2, <1>6, <1>7, <1>8 DEF ListInv, LoopPlaced, LInit
-----------------------------------------------------------------------------
(* The counts. *)
LEMMA ModIs == ASSUME NEW m \in Nat \ {0}, NEW a \in Int PROVE a % m \in 0 .. m - 1 /\ a = m * (a \div m) + (a % m)
OBVIOUS

LEMMA ModOf == ASSUME NEW m \in Nat \ {0}, NEW q \in Int, NEW c \in 0 .. m - 1 PROVE (m * q + c) % m = c
OBVIOUS

\* The remainder may be taken before or after an addition.
LEMMA ModAdd ==
  ASSUME NEW m \in Nat \ {0}, NEW a \in Int, NEW d \in Int
  PROVE  ((a % m) + d) % m = (a + d) % m
<1>1. PICK q \in Int : a = m * q + (a % m)
  <2>1. a \div m \in Int /\ a = m * (a \div m) + (a % m)
    BY ModIs
  <2> QED BY <2>1
<1>2. PICK c \in 0 .. m - 1 : c = a % m
  BY ModIs
<1>3. PICK p \in Int : c + d = m * p + ((c + d) % m)
  <2>1. c + d \in Int
    OBVIOUS
  <2>2. (c + d) \div m \in Int /\ c + d = m * ((c + d) \div m) + ((c + d) % m)
    BY <2>1, ModIs
  <2> QED BY <2>2
<1>4. PICK e \in 0 .. m - 1 : e = (c + d) % m
  BY ModIs
<1>5. a + d = m * (q + p) + e
  <2>1. a + d = m * q + c + d /\ c + d = m * p + e
    BY <1>1, <1>2, <1>3, <1>4
  <2>2. m * (q + p) = m * q + m * p
    OBVIOUS
  <2>3. m * q \in Int /\ m * p \in Int /\ m * (q + p) \in Int
    OBVIOUS
  <2> QED BY <2>1, <2>2, <2>3
<1>6. (m * (q + p) + e) % m = e
  BY ModOf
<1> QED BY <1>2, <1>4, <1>5, <1>6

\* An operation that links or unlinks d elements and counts them.
LEMMA CountIsKept ==
  ASSUME Counted, NEW h \in Lists, NEW d \in Int, LinkCount(h, d), UNCHANGED bypassed,
         Len(Contents'[h]) = Len(Contents[h]) + d, Len(Contents[h]) \in Nat, Len(Contents'[h]) \in Nat,
         \A g \in Lists \ {h} : Contents'[g] = Contents[g]
  PROVE  Counted'
<1>1. num' \in [Lists -> 0 .. SizeModulus - 1] /\ num'[h] = (num[h] + d) % SizeModulus /\ \A g \in Lists \ {h} : num'[g] = num[g]
  <2>1. num[h] + d \in Int
    BY SizeIsPositive DEF Counted
  <2>2. (num[h] + d) % SizeModulus \in 0 .. SizeModulus - 1
    BY <2>1, SizeIsPositive, ModIs
  <2> QED BY <2>2 DEF Counted, LinkCount
<1>2. ASSUME h \notin bypassed PROVE num'[h] = Len(Contents'[h]) % SizeModulus
  <2>1. num[h] = Len(Contents[h]) % SizeModulus
    BY <1>2 DEF Counted
  <2>2. PICK a \in Nat : a = Len(Contents[h])
    OBVIOUS
  <2>3. ((a % SizeModulus) + d) % SizeModulus = (a + d) % SizeModulus
    <3>1. SizeModulus \in Nat \ {0} /\ a \in Int /\ d \in Int
      BY SizeIsPositive
    <3> QED BY <3>1, ModAdd
  <2> QED BY <1>1, <2>1, <2>2, <2>3
<1> QED BY <1>1, <1>2 DEF Counted

\* An operation that leaves the number of one list as it was.
LEMMA CountStays ==
  ASSUME Counted, UNCHANGED num, bypassed \subseteq bypassed',
         \A h \in Lists : h \notin bypassed' => Len(Contents'[h]) = Len(Contents[h])
  PROVE  Counted'
<1>1. \A h \in Lists : h \notin bypassed' => h \notin bypassed
  OBVIOUS
<1> QED BY <1>1 DEF Counted

\* What each operation keeps of the invariant.
LEMMA InsertKeepsInv ==
  ASSUME ListInv, NEW h \in Lists, NEW p, NEW e, InsertBefore(h, p, e) \/ InsertAfter(h, p, e)
  PROVE  Stepped /\ Counted'
<1>1. /\ Represents(ring, Contents, <<>>) /\ Counted
      /\ e \in Unlinked /\ p \in Members(h) \union {h} /\ LinkCount(h, 1) /\ UNCHANGED bypassed
      /\ ring' = SpliceBefore(ring, p, e, e) \/ ring' = SpliceAfter(ring, p, e, e)
  BY DEF ListInv, InsertBefore, InsertAfter, Unlooped
<1>2. Stepped /\ Contents' \in Contenting /\ (\A g \in Lists \ {h} : Contents'[g] = Contents[g])
      /\ Len(Contents'[h]) = Len(Contents[h]) + 1
  BY <1>1, InsertSteps
<1>3. Len(Contents[h]) \in Nat /\ Len(Contents'[h]) \in Nat
  BY <1>1, <1>2 DEF Represents, Contenting
<1>4. Counted'
  BY <1>1, <1>2, <1>3, CountIsKept
<1> QED BY <1>2, <1>4

LEMMA RemoveKeepsInv ==
  ASSUME ListInv, NEW h \in Lists, NEW e, RemoveElem(h, e) \/ RemoveSelf(h, e)
  PROVE  Stepped /\ Counted'
<1>1. /\ Represents(ring, Contents, <<>>) /\ Counted
      /\ e \in Members(h) /\ ring' = Unsplice(ring, e, e)
  BY DEF ListInv, RemoveElem, RemoveSelf
<1>2. Stepped /\ Contents' \in Contenting /\ (\A g \in Lists \ {h} : Contents'[g] = Contents[g])
      /\ Len(Contents'[h]) = Len(Contents[h]) - 1
  BY <1>1, RemoveSteps
<1>3. Len(Contents[h]) \in Nat /\ Len(Contents'[h]) \in Nat /\ Len(Contents'[h]) = Len(Contents[h]) + (-1)
  BY <1>1, <1>2 DEF Represents, Contenting
<1>4. CASE RemoveElem(h, e)
  <2>1. LinkCount(h, -1) /\ UNCHANGED bypassed
    BY <1>4 DEF RemoveElem, Unlooped
  <2>2. Counted'
    BY <1>1, <1>2, <1>3, <2>1, CountIsKept
  <2> QED BY <1>2, <2>2
<1>5. CASE RemoveSelf(h, e)
  <2>1. UNCHANGED num /\ bypassed' = bypassed \union {h}
    BY <1>5 DEF RemoveSelf
  <2>2. \A g \in Lists : g \notin bypassed' => Len(Contents'[g]) = Len(Contents[g])
    BY <1>2, <2>1
  <2>3. bypassed \subseteq bypassed'
    BY <2>1
  <2>4. Counted'
    BY <1>1, <2>1, <2>2, <2>3, CountStays
  <2> QED BY <1>2, <2>4
<1> QED BY <1>4, <1>5

LEMMA MoveKeepsInv ==
  ASSUME ListInv, NEW h \in Lists, NEW p, NEW e, MoveAfter(h, p, e) \/ MoveBefore(h, p, e)
  PROVE  Stepped /\ Counted'
<1>1. /\ Represents(ring, Contents, <<>>) /\ Counted /\ UNCHANGED <<num, bypassed>>
      /\ e \in Members(h) /\ (p = h \/ p \in Members(h)) /\ p # e
      /\ \/ ring' = SpliceBefore(Unsplice(ring, e, e), p, e, e)
         \/ ring' = SpliceAfter(Unsplice(ring, e, e), p, e, e)
  BY DEF ListInv, MoveAfter, MoveBefore, Unlooped
<1>2. /\ Stepped /\ \A f \in Lists \ {h, h} : Contents'[f] = Contents[f]
      /\ Len(Contents'[h]) = Len(Contents[h])
  BY <1>1, MoveSteps
<1>3. \A g \in Lists : g \notin bypassed' => Len(Contents'[g]) = Len(Contents[g])
  BY <1>2
<1>4. Counted'
  BY <1>1, <1>3, CountStays
<1> QED BY <1>2, <1>4

LEMMA ConcatKeepsInv ==
  ASSUME ListInv, NEW h \in Lists, NEW g \in Lists, ConcatList(h, g)
  PROVE  Stepped /\ Counted'
<1>1. /\ Represents(ring, Contents, <<>>) /\ Counted /\ g # h
      /\ ring' = IF IsEmpty(ring, g) THEN ring ELSE Emptied(SpliceBefore(ring, h, FirstOf(ring, g), LastLink(ring, g)), g)
      /\ num' = [num EXCEPT ![h] = (num[h] + num[g]) % SizeModulus, ![g] = 0]
      /\ bypassed' = (IF g \in bypassed THEN bypassed \union {h} ELSE bypassed) \ {g}
  BY Zenon DEF ListInv, ConcatList, Emptied
<1>2. /\ Stepped /\ Contents' \in Contenting /\ \A f \in Lists \ {g, h} : Contents'[f] = Contents[f]
      /\ Len(Contents'[g]) = 0 /\ Len(Contents'[h]) = Len(Contents[h]) + Len(Contents[g])
  BY <1>1, ConcatSteps
<1>3. PICK a \in Nat : a = Len(Contents[h])
  BY <1>1 DEF Represents, Contenting
<1>4. PICK b \in Nat : b = Len(Contents[g])
  BY <1>1 DEF Represents, Contenting
<1>5. PICK m \in Nat \ {0} : m = SizeModulus
  BY SizeIsPositive
<1>6. PICK x \in 0 .. m - 1 : x = num[h]
  BY <1>1, <1>5 DEF Counted
<1>7. PICK y \in 0 .. m - 1 : y = num[g]
  BY <1>1, <1>5 DEF Counted
<1>8. (x + y) % m \in 0 .. m - 1 /\ 0 \in 0 .. m - 1 /\ 0 % m = 0
  <2>1. x + y \in Int
    OBVIOUS
  <2> QED BY <2>1, ModIs
<1>9. /\ num' \in [Lists -> 0 .. SizeModulus - 1] /\ num'[h] = (x + y) % m /\ num'[g] = 0
      /\ \A f \in Lists \ {g, h} : num'[f] = num[f]
  BY <1>1, <1>5, <1>6, <1>7, <1>8 DEF Counted
<1>10. ASSUME h \notin bypassed' PROVE num'[h] = Len(Contents'[h]) % SizeModulus
  <2>1. h \notin bypassed /\ g \notin bypassed
    BY <1>1, <1>10
  <2>2. x = a % m /\ y = b % m
    BY <1>1, <1>3, <1>4, <1>5, <1>6, <1>7, <2>1 DEF Counted
  <2>a. a \in Int /\ b \in Int /\ y \in Int /\ m \in Nat \ {0}
    OBVIOUS
  <2>3. ((a % m) + y) % m = (a + y) % m
    BY <2>a, ModAdd
  <2>4. ((b % m) + a) % m = (b + a) % m
    BY <2>a, ModAdd
  <2>5. a + y = y + a /\ a + b = b + a
    OBVIOUS
  <2>6. (x + y) % m = (a + b) % m
    BY <2>2, <2>3, <2>4, <2>5
  <2> QED BY <1>2, <1>3, <1>4, <1>5, <1>9, <2>6
<1>11. num'[g] = Len(Contents'[g]) % SizeModulus
  BY <1>2, <1>5, <1>8, <1>9
<1>12. ASSUME NEW f \in Lists \ {g, h}, f \notin bypassed' PROVE num'[f] = Len(Contents'[f]) % SizeModulus
  <2>1. f \notin bypassed
    BY <1>1, <1>12
  <2> QED BY <1>1, <1>2, <1>9, <2>1 DEF Counted
<1>13. Counted'
  BY <1>9, <1>10, <1>11, <1>12 DEF Counted
<1> QED BY <1>2, <1>13

LEMMA SplitKeepsInv ==
  ASSUME ListInv, NEW h \in Lists, NEW g \in Lists, NEW e, UnspliceTo(h, e, g)
  PROVE  Stepped /\ Counted'
<1>1. /\ Represents(ring, Contents, <<>>) /\ Counted /\ g # h /\ e \in Members(h)
      /\ UNCHANGED num /\ bypassed' = bypassed \union {h, g}
  BY DEF ListInv, UnspliceTo
<1>2. PICK last : last = LastLink(ring, h)
  OBVIOUS
<1>3. PICK cut : cut = Unsplice(ring, e, last)
  OBVIOUS
<1>4. ring' = SpliceAfter(cut, FirstOf(cut, g), e, last)
  BY <1>2, <1>3 DEF UnspliceTo
<1>5. Stepped /\ \A f \in Lists \ {g, h} : Contents'[f] = Contents[f]
  BY <1>1, <1>2, <1>3, <1>4, SplitSteps
<1>6. \A f \in Lists : f \notin bypassed' => Len(Contents'[f]) = Len(Contents[f])
  BY <1>1, <1>5
<1>7. bypassed \subseteq bypassed'
  BY <1>1
<1>8. Counted'
  BY <1>1, <1>6, <1>7, CountStays
<1> QED BY <1>5, <1>8

LEMMA ClearKeepsInv ==
  ASSUME ListInv, NEW h \in Lists, ClearList(h)
  PROVE  Stepped /\ Counted'
<1>1. /\ Represents(ring, Contents, <<>>) /\ Counted
      /\ LinkCount(h, -Len(Contents[h])) /\ UNCHANGED bypassed
  BY Zenon DEF ListInv, ClearList, Unlooped
<1>r. ring' = FoldLeft(LAMBDA r, e : Unsplice(r, e, e), ring, Contents[h])
  BY Zenon DEF ClearList
<1>2. Stepped /\ Contents' \in Contenting /\ Contents'[h] = <<>> /\ \A f \in Lists \ {h} : Contents'[f] = Contents[f]
  BY <1>1, <1>r, ClearSteps, Zenon
<1>3. Len(Contents[h]) \in Nat
  BY <1>1 DEF Represents, Contenting
<1>4. PICK d \in Int : d = -Len(Contents[h])
  BY <1>3
<1>5. Len(Contents'[h]) = Len(Contents[h]) + d /\ Len(Contents'[h]) \in Nat /\ LinkCount(h, d) /\ UNCHANGED bypassed /\ Counted
  BY <1>1, <1>2, <1>3, <1>4
<1>6. Counted'
  BY <1>2, <1>3, <1>5, CountIsKept
<1> QED BY <1>2, <1>6
-----------------------------------------------------------------------------
(* A loop that erases, and the loop itself. *)
LEMMA ReverseIs ==
  ASSUME NEW s \in Seq(Elems)
  PROVE  /\ Reverse(s) \in Seq(Elems) /\ Len(Reverse(s)) = Len(s)
         /\ \A k \in 1 .. Len(s) : Reverse(s)[k] = s[Len(s) - k + 1]
BY DEF Reverse

\* What is ahead of a loop stays there when the element it is at is unlinked.
LEMMA AheadStays ==
  ASSUME NEW s \in Seq(Elems), NEW i \in 1 .. Len(s), NEW rev \in BOOLEAN,
         NEW start \in Seq(Elems), Injective(start), NEW m \in 0 .. Len(start) - 1, s[i] = start[m + 1],
         Ahead(Along(s, rev), start, m)
  PROVE  Ahead(Along(Cut(s, i, i), rev), start, m)
<1>1. PICK n \in Nat : n = Len(s)
  OBVIOUS
<1>2. PICK c : c = Cut(s, i, i)
  OBVIOUS
<1>3. /\ c \in Seq(Elems) /\ Len(c) = n - 1
      /\ (\A k \in 1 .. i - 1 : c[k] = s[k]) /\ \A k \in i .. n - 1 : c[k] = s[k + 1]
  <2>1. i \in i .. Len(s)
    OBVIOUS
  <2>2. /\ Cut(s, i, i) \in Seq(Elems) /\ Len(Cut(s, i, i)) = Len(s) - (i - i + 1)
        /\ \A k \in 1 .. i - 1 : Cut(s, i, i)[k] = s[k]
        /\ \A k \in i .. Len(s) - (i - i + 1) : Cut(s, i, i)[k] = s[k + (i - i + 1)]
    BY <2>1, CutIs
  <2>3. i - i + 1 = 1
    OBVIOUS
  <2> QED BY <1>1, <1>2, <2>2, <2>3
<1>4. PICK D : D = Along(s, rev)
  OBVIOUS
<1>5. PICK E : E = Along(c, rev)
  OBVIOUS
<1>6. PICK j \in 1 .. n : (rev => j = n - i + 1) /\ (~rev => j = i)
  <2>1. i \in 1 .. n /\ n - i + 1 \in 1 .. n
    BY <1>1
  <2>2. CASE rev
    BY <2>1, <2>2
  <2>3. CASE ~rev
    BY <2>1, <2>3
  <2> QED BY <2>2, <2>3
<1>7. /\ D \in Seq(Elems) /\ Len(D) = n /\ D[j] = s[i]
      /\ E \in Seq(Elems) /\ Len(E) = n - 1 /\ \A k \in j .. n - 1 : E[k] = D[k + 1]
  <2>1. CASE rev
    <3>1. D = Reverse(s) /\ E = Reverse(c)
      BY <1>4, <1>5, <2>1 DEF Along
    <3>2. D \in Seq(Elems) /\ Len(D) = n /\ \A k \in 1 .. n : D[k] = s[n - k + 1]
      BY <1>1, <3>1, ReverseIs
    <3>3. E \in Seq(Elems) /\ Len(E) = n - 1 /\ \A k \in 1 .. n - 1 : E[k] = c[(n - 1) - k + 1]
      <4>1. PICK w \in Seq(Elems) : w = c
        BY <1>3
      <4>2. /\ Reverse(w) \in Seq(Elems) /\ Len(Reverse(w)) = Len(w)
            /\ \A k \in 1 .. Len(w) : Reverse(w)[k] = w[Len(w) - k + 1]
        BY ReverseIs
      <4>3. Len(w) = n - 1 /\ E = Reverse(w)
        BY <1>3, <3>1, <4>1
      <4> QED BY <4>1, <4>2, <4>3
    <3>4. j = n - i + 1 /\ n - j + 1 = i
      BY <1>1, <1>6, <2>1
    <3>5. ASSUME NEW k \in j .. n - 1 PROVE E[k] = D[k + 1]
      <4>1. k \in 1 .. n - 1 /\ (n - 1) - k + 1 = n - k /\ n - k \in 1 .. i - 1 /\ k + 1 \in 1 .. n /\ n - (k + 1) + 1 = n - k
        BY <1>1, <3>4
      <4>2. E[k] = c[n - k]
        BY <3>3, <4>1
      <4>3. D[k + 1] = s[n - k]
        BY <3>2, <4>1
      <4>4. c[n - k] = s[n - k]
        BY <1>3, <4>1
      <4> QED BY <4>2, <4>3, <4>4
    <3> QED BY <3>2, <3>3, <3>4, <3>5
  <2>2. CASE ~rev
    <3>1. D = s /\ E = c /\ j = i
      BY <1>4, <1>5, <1>6, <2>2 DEF Along
    <3> QED BY <1>1, <1>3, <3>1
  <2> QED BY <2>1, <2>2
<1>8. PICK d \in Nat : d = Len(start) - m - 1
  <2>1. PICK l \in Nat : l = Len(start)
    OBVIOUS
  <2>2. m \in 0 .. l - 1
    BY <2>1
  <2>3. l - m - 1 \in Nat
    BY <2>2
  <2> QED BY <2>1, <2>3
<1>9. d <= n /\ \A k \in 1 .. d : D[n - d + k] = start[m + 1 + k]
  BY <1>4, <1>7, <1>8 DEF Ahead
<1>10. j <= n - d
  <2> SUFFICES ASSUME j > n - d PROVE FALSE
    BY <1>9
  <2>1. PICK k \in 1 .. d : j = n - d + k
    <3>1. j - (n - d) \in 1 .. d /\ j = n - d + (j - (n - d))
      OBVIOUS
    <3> QED BY <3>1
  <2>2. start[m + 1 + k] = start[m + 1]
    BY <1>7, <1>9, <2>1
  <2>3. m + 1 + k \in 1 .. Len(start) /\ m + 1 \in 1 .. Len(start) /\ m + 1 + k # m + 1
    BY <1>8
  <2> QED BY <2>2, <2>3 DEF Injective
<1>11. ASSUME NEW k \in 1 .. d PROVE E[(n - 1) - d + k] = start[m + 1 + k]
  <2>1. (n - 1) - d + k \in j .. n - 1 /\ ((n - 1) - d + k) + 1 = n - d + k
    BY <1>10
  <2> QED BY <1>7, <1>9, <2>1
<1>12. d <= n - 1
  BY <1>10
<1> QED BY <1>2, <1>5, <1>7, <1>8, <1>11, <1>12 DEF Ahead

\* The pointers of an iterator lead along the sequence in its direction.
LEMMA LinksFollow ==
  ASSUME NEW r, NEW L, Represents(r, L, <<>>), NEW h \in Lists, NEW rev \in BOOLEAN,
         NEW by, by = IF rev THEN r.prev ELSE r.next, NEW D, D = Along(L[h], rev)
  PROVE  D \in Seq(Elems) /\ Injective(D) /\ Follows(by, h, D)
<1>1. /\ L[h] \in Seq(Elems) /\ Injective(L[h]) /\ Follows(r.next, h, L[h])
      /\ Reverse(L[h]) \in Seq(Elems) /\ Injective(Reverse(L[h])) /\ Follows(r.prev, h, Reverse(L[h]))
  BY FollowsIs
<1>2. CASE rev
  BY <1>1, <1>2 DEF Along
<1>3. CASE ~rev
  BY <1>1, <1>3 DEF Along
<1> QED BY <1>2, <1>3

\* The element a loop is at is unlinked, or put into another list at once.
LEMMA EraseKeepsInv ==
  ASSUME ListInv, NEW g \in Lists, EraseCurrent(g)
  PROVE  Stepped /\ ListInv'
<1>1. /\ Represents(ring, Contents, <<>>) /\ Counted /\ reverse \in BOOLEAN
      /\ it.active /\ it.elem \in Members(it.list) /\ UNCHANGED <<bypassed, it, reverse>>
  BY DEF ListInv, EraseCurrent
<1>2. PICK m \in 0 .. Len(it.start) : LoopAt(m)
  BY <1>1 DEF ListInv, LoopPlaced, NoIterator
<1>3. PICK h \in Lists : h = it.list
  BY <1>2 DEF LoopAt
<1>4. PICK e : e = it.elem
  OBVIOUS
<1>5. e \in Members(h)
  BY <1>1, <1>3, <1>4
<1>6. \A f \in Lists : Len(Contents[f]) \in Nat /\ Contents[f] \in Seq(Elems)
  BY <1>1 DEF Represents, Contenting
<1>7. /\ Stepped /\ Counted'
      /\ \E i \in 1 .. Len(Contents[h]) : e = Contents[h][i] /\ Contents'[h] = Cut(Contents[h], i, i)
  <2>1. CASE ring' = Unsplice(ring, e, e) /\ LinkCount(h, -1)
    <3>1. /\ Stepped /\ Contents' \in Contenting /\ \A f \in Lists \ {h} : Contents'[f] = Contents[f]
          /\ Len(Contents'[h]) = Len(Contents[h]) - 1
          /\ \E i \in 1 .. Len(Contents[h]) : e = Contents[h][i] /\ Contents'[h] = Cut(Contents[h], i, i)
      BY <1>1, <1>5, <2>1, RemoveSteps
    <3>2. Len(Contents'[h]) \in Nat /\ Len(Contents'[h]) = Len(Contents[h]) + (-1) /\ UNCHANGED bypassed
      BY <1>1, <1>6, <3>1 DEF Contenting
    <3>3. Counted'
      <4>1. /\ Counted /\ h \in Lists /\ -1 \in Int /\ LinkCount(h, -1) /\ UNCHANGED bypassed
            /\ Len(Contents'[h]) = Len(Contents[h]) + (-1) /\ Len(Contents[h]) \in Nat /\ Len(Contents'[h]) \in Nat
            /\ \A f \in Lists \ {h} : Contents'[f] = Contents[f]
        BY <1>1, <1>6, <2>1, <3>1, <3>2
      <4> QED BY <4>1, CountIsKept
    <3> QED BY <3>1, <3>3
  <2>2. CASE /\ g # h
             /\ ring' = SpliceBefore(Unsplice(ring, e, e), g, e, e)
             /\ num' = [num EXCEPT ![h] = (num[h] - 1) % SizeModulus, ![g] = (num[g] + 1) % SizeModulus]
    <3>0. g # e /\ h # g
      BY <1>5, <1>6, <2>2, HeadsAreNoElems DEF Members, ToSet
    <3>1. /\ Stepped /\ Contents' \in Contenting /\ \A f \in Lists \ {h, g} : Contents'[f] = Contents[f]
          /\ Len(Contents'[h]) = Len(Contents[h]) - 1 /\ Len(Contents'[g]) = Len(Contents[g]) + 1
          /\ \E i \in 1 .. Len(Contents[h]) : e = Contents[h][i] /\ Contents'[h] = Cut(Contents[h], i, i)
      BY <1>1, <1>5, <2>2, <3>0, MoveSteps
    <3>2. PICK z \in Nat \ {0} : z = SizeModulus
      BY SizeIsPositive
    <3>3. PICK x \in 0 .. z - 1 : x = num[h]
      BY <1>1, <3>2 DEF Counted
    <3>4. PICK y \in 0 .. z - 1 : y = num[g]
      BY <1>1, <3>2 DEF Counted
    <3>5. (x - 1) % z \in 0 .. z - 1 /\ (y + 1) % z \in 0 .. z - 1 /\ x + (-1) = x - 1
      <4>1. x - 1 \in Int /\ y + 1 \in Int
        OBVIOUS
      <4> QED BY <4>1, ModIs
    <3>6. /\ num' \in [Lists -> 0 .. SizeModulus - 1] /\ num'[h] = (x - 1) % z /\ num'[g] = (y + 1) % z
          /\ \A f \in Lists \ {g, h} : num'[f] = num[f]
      BY <1>1, <2>2, <3>0, <3>2, <3>3, <3>4, <3>5 DEF Counted
    <3>7. ASSUME h \notin bypassed PROVE num'[h] = Len(Contents'[h]) % SizeModulus
      <4>1. PICK a \in Nat : a = Len(Contents[h])
        BY <1>6
      <4>2. x = a % z
        BY <1>1, <3>2, <3>3, <3>7, <4>1 DEF Counted
      <4>3. ((a % z) + (-1)) % z = (a + (-1)) % z /\ a + (-1) = a - 1
        <5>1. a \in Int /\ -1 \in Int /\ z \in Nat \ {0}
          OBVIOUS
        <5> QED BY <5>1, ModAdd
      <4> QED BY <3>1, <3>2, <3>5, <3>6, <4>1, <4>2, <4>3
    <3>8. ASSUME g \notin bypassed PROVE num'[g] = Len(Contents'[g]) % SizeModulus
      <4>1. PICK a \in Nat : a = Len(Contents[g])
        BY <1>6
      <4>2. y = a % z
        BY <1>1, <3>2, <3>4, <3>8, <4>1 DEF Counted
      <4>3. ((a % z) + 1) % z = (a + 1) % z
        <5>1. a \in Int /\ 1 \in Int /\ z \in Nat \ {0}
          OBVIOUS
        <5> QED BY <5>1, ModAdd
      <4> QED BY <3>1, <3>2, <3>6, <4>1, <4>2, <4>3
    <3>9. Counted'
      BY <1>1, <3>1, <3>6, <3>7, <3>8 DEF Counted
    <3> QED BY <3>1, <3>9
  <2> QED BY <1>3, <1>4, <2>1, <2>2 DEF EraseCurrent
<1>8. PICK i \in 1 .. Len(Contents[h]) : e = Contents[h][i] /\ Contents'[h] = Cut(Contents[h], i, i)
  BY <1>7
<1>9. PICK s \in Seq(Elems) : s = Contents[h]
  BY <1>6
<1>10. PICK start \in Seq(Elems) : start = it.start
  BY <1>2 DEF LoopAt
<1>11. LoopAt(m)'
  <2>1. m \in 0 .. Len(start)
    BY <1>2, <1>10
  <2>2. ASSUME m < Len(start) PROVE Ahead(Along(Contents'[h], reverse), start, m)
    <3>1. m \in 0 .. Len(start) - 1 /\ e = start[m + 1] /\ Injective(start) /\ Ahead(Along(s, reverse), start, m)
      BY <1>2, <1>3, <1>4, <1>9, <1>10, <2>1, <2>2 DEF LoopAt, NodeAt
    <3>2. Ahead(Along(Cut(s, i, i), reverse), start, m)
      BY <1>1, <1>8, <1>9, <3>1, AheadStays
    <3> QED BY <1>8, <1>9, <3>2
  <2> QED BY <1>1, <1>2, <1>3, <1>10, <2>2 DEF LoopAt
<1>12. LoopPlaced'
  BY <1>1, <1>2, <1>11 DEF LoopPlaced
<1> QED BY <1>1, <1>7, <1>12 DEF ListInv, Stepped

\* A loop begins, goes on and ends; the rings stay as they are.
LEMMA BeginKeepsInv ==
  ASSUME ListInv, NEW h \in Lists, NEW r \in BOOLEAN, BeginAt(h, r)
  PROVE  UNCHANGED Contents /\ ListInv'
<1>1. /\ Represents(ring, Contents, <<>>) /\ Counted /\ UNCHANGED <<ring, num, bypassed>> /\ reverse' = r
  BY DEF ListInv, BeginAt
<1>2. UNCHANGED Contents
  BY <1>1 DEF Contents
<1>3. PICK R : R = ring
  OBVIOUS
<1>4. PICK by : by = IF r THEN R.prev ELSE R.next
  OBVIOUS
<1>5. PICK D : D = Along(Contents[h], r)
  OBVIOUS
<1>6. Represents(R, Contents, <<>>)
  BY <1>1, <1>3
<1>7. D \in Seq(Elems) /\ Injective(D) /\ Follows(by, h, D)
  BY <1>4, <1>5, <1>6, LinksFollow
<1>8. it' = [list |-> h, active |-> TRUE, elem |-> by[h], next |-> by[by[h]], start |-> D, seen |-> <<>>]
  BY <1>3, <1>4, <1>5 DEF BeginAt, Along
<1>9. PICK n \in Nat : n = Len(D)
  BY <1>7
<1>10. by[h] = NodeAt(D, h, 1) /\ (n > 0 => by[by[h]] = NodeAt(D, h, 2))
  BY <1>7, <1>9 DEF Follows, NodeAt
<1>11. SubSeq(D, 1, 0) = <<>>
  BY <1>7
<1>12. ASSUME n > 0 PROVE Ahead(D, D, 0)
  <2>1. n - 0 - 1 = n - 1 /\ n - 1 <= n
    OBVIOUS
  <2>2. ASSUME NEW k \in 1 .. n - 1 PROVE n - (n - 1) + k = 0 + 1 + k
    BY <1>9
  <2> QED BY <1>9, <2>1, <2>2 DEF Ahead
<1>13. LoopAt(0)'
  <2>1. /\ it'.active /\ it'.list = h /\ it'.elem = by[h] /\ it'.next = by[by[h]] /\ it'.start = D /\ it'.seen = <<>>
        /\ it' = [list |-> it'.list, active |-> it'.active, elem |-> it'.elem, next |-> it'.next, start |-> it'.start, seen |-> it'.seen]
    BY <1>8
  <2>2. Along(Contents'[h], reverse') = D
    BY <1>1, <1>2, <1>5
  <2> QED BY <1>7, <1>9, <1>10, <1>11, <1>12, <2>1, <2>2 DEF LoopAt
<1>14. 0 \in 0 .. Len(it'.start)
  BY <1>8, <1>9
<1>15. LoopPlaced'
  BY <1>13, <1>14 DEF LoopPlaced
<1>16. Counted'
  BY <1>1, <1>2 DEF Counted
<1> QED BY <1>1, <1>2, <1>15, <1>16 DEF ListInv

LEMMA AdvanceKeepsInv ==
  ASSUME ListInv, Advance
  PROVE  UNCHANGED Contents /\ ListInv'
<1>1. /\ Represents(ring, Contents, <<>>) /\ Counted /\ reverse \in BOOLEAN
      /\ it.active /\ it.elem # it.list /\ UNCHANGED <<ring, num, bypassed, reverse>>
  BY DEF ListInv, Advance
<1>2. UNCHANGED Contents
  BY <1>1 DEF Contents
<1>3. PICK m \in 0 .. Len(it.start) : LoopAt(m)
  BY <1>1 DEF ListInv, LoopPlaced, NoIterator
<1>4. PICK h \in Lists : h = it.list
  BY <1>3 DEF LoopAt
<1>5. PICK S \in Seq(Elems) : S = it.start
  BY <1>3 DEF LoopAt
<1>6. PICK n \in Nat : n = Len(S)
  OBVIOUS
<1>7. PICK R : R = ring
  OBVIOUS
<1>8. PICK by : by = IF reverse THEN R.prev ELSE R.next
  OBVIOUS
<1>9. PICK D : D = Along(Contents[h], reverse)
  OBVIOUS
<1>10. Represents(R, Contents, <<>>)
  BY <1>1, <1>7
<1>11. D \in Seq(Elems) /\ Injective(D) /\ Follows(by, h, D)
  BY <1>1, <1>8, <1>9, <1>10, LinksFollow
<1>12. m \in 0 .. n - 1
  <2>1. m \in 0 .. n /\ it.elem = NodeAt(S, h, m + 1)
    BY <1>3, <1>4, <1>5, <1>6 DEF LoopAt
  <2>2. m # n
    BY <1>1, <1>4, <1>6, <2>1 DEF NodeAt
  <2> QED BY <2>1, <2>2
<1>13. /\ it.seen = SubSeq(S, 1, m) /\ it.elem = S[m + 1] /\ it.next = NodeAt(S, h, m + 2)
       /\ Injective(S) /\ Ahead(D, S, m)
  BY <1>3, <1>4, <1>5, <1>6, <1>9, <1>12 DEF LoopAt, NodeAt
<1>14. /\ it'.active = it.active /\ it'.list = it.list /\ it'.start = it.start
       /\ it'.seen = Append(it.seen, it.elem) /\ it'.elem = it.next /\ it'.next = by[it.next]
       /\ it' = [list |-> it'.list, active |-> it'.active, elem |-> it'.elem, next |-> it'.next, start |-> it'.start, seen |-> it'.seen]
  <2>1. it.active /\ it = [list |-> it.list, active |-> it.active, elem |-> it.elem, next |-> it.next, start |-> it.start, seen |-> it.seen]
    BY <1>3 DEF LoopAt
  <2> QED BY <2>1, <1>7, <1>8 DEF Advance, Links
<1>15. Append(SubSeq(S, 1, m), S[m + 1]) = SubSeq(S, 1, m + 1)
  BY <1>6, <1>12
<1>16. ASSUME m + 1 < n
       PROVE  by[NodeAt(S, h, m + 2)] = NodeAt(S, h, m + 3) /\ Ahead(D, S, m + 1)
  <2>1. PICK d \in Nat \ {0} : d = n - m - 1
    BY <1>12, <1>16
  <2>2. PICK l \in Nat : l = Len(D)
    BY <1>11
  <2>3. d <= l /\ \A k \in 1 .. d : D[l - d + k] = S[m + 1 + k]
    BY <1>6, <1>13, <2>1, <2>2 DEF Ahead
  <2>4. Ahead(D, S, m + 1)
    <3>1. n - (m + 1) - 1 = d - 1 /\ d - 1 <= l
      BY <2>1, <2>3
    <3>2. ASSUME NEW k \in 1 .. d - 1 PROVE D[l - (d - 1) + k] = S[(m + 1) + 1 + k]
      <4>1. k + 1 \in 1 .. d /\ l - d + (k + 1) = l - (d - 1) + k /\ m + 1 + (k + 1) = (m + 1) + 1 + k
        BY <2>1, <2>2
      <4> QED BY <2>3, <4>1
    <3> QED BY <1>6, <2>2, <3>1, <3>2 DEF Ahead
  <2>5. NodeAt(S, h, m + 2) = D[l - d + 1]
    <3>1. 1 \in 1 .. d /\ m + 1 + 1 = m + 2 /\ m + 2 <= n
      BY <1>16, <2>1
    <3> QED BY <1>6, <1>12, <2>3, <3>1 DEF NodeAt
  <2>6. PICK i \in 1 .. l : i = l - d + 1
    BY <2>2, <2>3
  <2>7. by[D[i]] = NodeAt(D, h, i + 1)
    <3>1. i \in 0 .. Len(D) /\ NodeAt(D, h, i) = D[i]
      BY <2>2, <2>6 DEF NodeAt
    <3> QED BY <1>11, <3>1 DEF Follows
  <2>8. NodeAt(D, h, i + 1) = NodeAt(S, h, m + 3)
    <3>1. CASE d = 1
      <4>1. i + 1 = l + 1 /\ m + 3 = n + 1
        BY <2>1, <2>6, <3>1
      <4> QED BY <1>6, <2>2, <4>1 DEF NodeAt
    <3>2. CASE d > 1
      <4>1. 2 \in 1 .. d /\ i + 1 = l - d + 2 /\ m + 1 + 2 = m + 3 /\ m + 3 <= n /\ i + 1 <= l
        BY <2>1, <2>6, <3>2
      <4>2. D[i + 1] = S[m + 3]
        BY <2>3, <4>1
      <4> QED BY <1>6, <2>2, <4>1, <4>2 DEF NodeAt
    <3> QED BY <3>1, <3>2
  <2> QED BY <2>4, <2>5, <2>6, <2>7, <2>8
<1>17. LoopAt(m + 1)'
  <2>1. Along(Contents'[h], reverse') = D
    BY <1>1, <1>2, <1>9
  <2>2. m + 1 + 1 = m + 2 /\ m + 1 + 2 = m + 3
    OBVIOUS
  <2>3. /\ it'.active /\ it'.list = h /\ it'.start = S /\ it'.seen = SubSeq(S, 1, m + 1)
        /\ it'.elem = NodeAt(S, h, m + 2) /\ it'.next = by[NodeAt(S, h, m + 2)]
        /\ it' = [list |-> it'.list, active |-> it'.active, elem |-> it'.elem, next |-> it'.next, start |-> it'.start, seen |-> it'.seen]
    BY <1>1, <1>4, <1>5, <1>13, <1>14, <1>15
  <2> QED BY <1>6, <1>13, <1>16, <2>1, <2>2, <2>3 DEF LoopAt
<1>18. m + 1 \in 0 .. Len(it'.start)
  BY <1>5, <1>6, <1>12, <1>14
<1>19. LoopPlaced'
  BY <1>17, <1>18 DEF LoopPlaced
<1>20. Counted'
  BY <1>1, <1>2 DEF Counted
<1> QED BY <1>1, <1>2, <1>19, <1>20 DEF ListInv

LEMMA EndKeepsInv ==
  ASSUME ListInv, EndLoop
  PROVE  UNCHANGED Contents /\ ListInv'
<1>1. Represents(ring, Contents, <<>>) /\ Counted /\ UNCHANGED <<ring, num, bypassed>> /\ it' = NoIterator /\ reverse' = FALSE
  BY DEF ListInv, EndLoop
<1>2. UNCHANGED Contents
  BY <1>1 DEF Contents
<1>3. Counted'
  BY <1>1, <1>2 DEF Counted
<1> QED BY <1>1, <1>2, <1>3 DEF ListInv, LoopPlaced

\* While no loop runs.
LEMMA MutateKeepsInv ==
  ASSUME ListInv, ~it.active, Mutate
  PROVE  Stepped /\ ListInv'
<1>1. PICK h \in Lists :
        \/ \E e \in Elems : MutateElem(h, e)
        \/ \E g \in Lists : ConcatList(h, g)
        \/ ClearList(h)
  BY DEF Mutate
<1>2. it = NoIterator
  BY DEF ListInv, LoopPlaced, LoopAt
<1>3. Stepped /\ Counted'
  <2>1. ASSUME NEW e \in Elems, MutateElem(h, e) PROVE Stepped /\ Counted'
    BY <2>1, InsertKeepsInv, RemoveKeepsInv, MoveKeepsInv, SplitKeepsInv DEF MutateElem
  <2> QED BY <1>1, <2>1, ConcatKeepsInv, ClearKeepsInv
<1>4. UNCHANGED <<it, reverse>>
  <2>1. ASSUME NEW e \in Elems, MutateElem(h, e) PROVE UNCHANGED <<it, reverse>>
    BY <2>1, Zenon DEF MutateElem, InsertBefore, InsertAfter, MoveAfter, MoveBefore, RemoveElem, RemoveSelf,
                       UnspliceTo, Unlooped
  <2> QED BY <1>1, <2>1, Zenon DEF ConcatList, ClearList, Unlooped
<1>5. LoopPlaced'
  BY <1>2, <1>4 DEF LoopPlaced
<1> QED BY <1>3, <1>4, <1>5 DEF ListInv, Stepped

\* Every step keeps the invariant, and is one of SequenceLists or leaves the sequences.
LEMMA ListStepKeeps ==
  ASSUME ListInv, [LNext]_lvars
  PROVE  ListInv' /\ (Sequence!Next \/ UNCHANGED Contents)
<1>1. CASE ~it.active /\ Mutate
  BY <1>1, MutateKeepsInv DEF Stepped
<1>2. ASSUME NEW h \in Lists, NEW r \in BOOLEAN, BeginAt(h, r)
      PROVE  ListInv' /\ UNCHANGED Contents
  BY <1>2, BeginKeepsInv
<1>3. CASE Advance
  BY <1>3, AdvanceKeepsInv
<1>4. CASE EndLoop
  BY <1>4, EndKeepsInv
<1>5. ASSUME NEW g \in Lists, EraseCurrent(g)
      PROVE  ListInv' /\ (Sequence!Next \/ UNCHANGED Contents)
  BY <1>5, EraseKeepsInv DEF Stepped
<1>6. CASE UNCHANGED lvars
  BY <1>6 DEF lvars, ListInv, Counted, LoopPlaced, LoopAt, Contents
<1> QED BY <1>1, <1>2, <1>3, <1>4, <1>5, <1>6 DEF LNext
-----------------------------------------------------------------------------
(* The optional values of the library. *)

\* The backends take the flags for terms when they are named.
Yes == TRUE
No == FALSE

Box(exists, present, storage) == [exists |-> exists, present |-> present, storage |-> storage]
WithFlag(b, present) == [b EXCEPT !.present = present]
WithStorage(b, storage) == [b EXCEPT !.storage = storage]
WithExists(b, exists) == [b EXCEPT !.exists = exists]

LEMMA FlagOfBox == ASSUME NEW e, NEW p, NEW s, NEW q PROVE WithFlag(Box(e, p, s), q) = Box(e, q, s)
  BY DEF Box, WithFlag
LEMMA StorageOfBox == ASSUME NEW e, NEW p, NEW s, NEW t PROVE WithStorage(Box(e, p, s), t) = Box(e, p, t)
  BY DEF Box, WithStorage
LEMMA ExistsOfBox == ASSUME NEW e, NEW p, NEW s, NEW d PROVE WithExists(Box(e, p, s), d) = Box(d, p, s)
  BY DEF Box, WithExists
LEMMA FieldsOfBox ==
  ASSUME NEW e, NEW p, NEW s
  PROVE  Box(e, p, s).exists = e /\ Box(e, p, s).present = p /\ Box(e, p, s).storage = s
  BY DEF Box

\* An Optional without a T, one with a T, and one in which a constructor has thrown.
Nil(exists) == Box(exists, No, {})
Full(v) == Box(Yes, Yes, {v})
Void == Box(Yes, Yes, {})

\* The operators of OptionalValue in these terms.
LEMMA MembersAre ==
  \A b, v : /\ Construct(b, v) = WithStorage(WithFlag(b, Yes), {v})
            /\ Destruct(b) = WithStorage(WithFlag(b, No), {})
            /\ ConstructThrows(b) = WithFlag(b, Yes)
            /\ Clear(b) = IF b.present THEN Destruct(b) ELSE b
            /\ AssignTo(b, v) = IF b.present THEN WithStorage(b, {v}) ELSE Construct(b, v)
            /\ Left(b, v) = IF b.present THEN WithStorage(b, {v}) ELSE b
            /\ [b EXCEPT !.exists = FALSE] = WithExists(b, No)
BY Zenon DEF Construct, Destruct, ConstructThrows, Clear, AssignTo, Left, WithFlag, WithStorage, WithExists, Yes, No

LEMMA NilIs == NilOptional = Nil(Yes) /\ NoOptional = Nil(No)
<1>1. NoOptional = Box(No, No, {}) /\ NilOptional = WithExists(NoOptional, Yes)
  BY Zenon DEF NilOptional, NoOptional, WithExists, Box, Yes, No
<1>2. WithExists(Box(No, No, {}), Yes) = Box(Yes, No, {})
  BY ExistsOfBox
<1> QED BY <1>1, <1>2, Zenon DEF Nil

LEMMA BoxesShow ==
  /\ \A e : Nil(e).exists = e /\ ~Nil(e).present /\ Nil(e).storage = {} /\ ~Broken(Nil(e))
  /\ \A v : Full(v).exists /\ Full(v).present /\ Full(v).storage = {v} /\ Value(Full(v)) = v /\ ~Broken(Full(v))
  /\ Void.exists /\ Void.present /\ Void.storage = {} /\ Broken(Void)
<1>1. ASSUME NEW e PROVE Nil(e).exists = e /\ Nil(e).present = No /\ Nil(e).storage = {}
  BY FieldsOfBox DEF Nil
<1>2. ASSUME NEW v PROVE Full(v).exists = Yes /\ Full(v).present = Yes /\ Full(v).storage = {v}
  BY FieldsOfBox DEF Full
<1>3. Void.exists = Yes /\ Void.present = Yes /\ Void.storage = {}
  BY FieldsOfBox DEF Void
<1>4. ASSUME NEW v PROVE Value(Full(v)) = v /\ Full(v).storage # {}
  <2>1. \A s : s = {v} => (CHOOSE w \in s : TRUE) = v /\ s # {}
    OBVIOUS
  <2> QED BY <1>2, <2>1, Zenon DEF Value
<1>5. \A e : ~Nil(e).present /\ ~Broken(Nil(e))
  BY <1>1, Zenon DEF Broken, No
<1>6. \A v : Full(v).exists /\ Full(v).present /\ ~Broken(Full(v))
  BY <1>2, <1>4, Zenon DEF Broken, Yes
<1>7. Void.exists /\ Void.present /\ Broken(Void)
  BY <1>3, Zenon DEF Broken, Yes
<1> QED BY <1>1, <1>2, <1>3, <1>4, <1>5, <1>6, <1>7, Zenon

\* An Optional that exists and may be used: it holds h.
Usable(b, h) == \/ b = Nil(Yes) /\ h = {}
                \/ \E v \in Values : b = Full(v) /\ h = {v}

\* Any other one is not there, or a constructor has thrown in it.
IsBox(b, h) == Usable(b, h) \/ (b = Nil(No) /\ h = {}) \/ (b = Void /\ h = {})

OptInv == /\ box = [o \in Optionals |-> box[o]] /\ held = [o \in Optionals |-> held[o]]
          /\ \A o \in Optionals : IsBox(box[o], held[o])
          /\ \A o \in Optionals : Broken(box[o]) => o \in thrown
          /\ misused => thrown # {}

\* What a usable Optional shows of itself.
LEMMA UsableShows ==
  ASSUME NEW b, NEW h, Usable(b, h)
  PROVE  /\ b.exists /\ ~Broken(b) /\ b.storage = h
         /\ b.present => h # {} /\ h = {Value(b)} /\ Value(b) \in Values
         /\ ~b.present => h = {} /\ b = Nil(Yes)
<1>1. CASE b = Nil(Yes) /\ h = {}
  BY <1>1, BoxesShow, Zenon DEF Yes
<1>2. ASSUME NEW v \in Values, b = Full(v), h = {v} PROVE
         b.exists /\ ~Broken(b) /\ b.storage = h /\ b.present /\ h # {} /\ h = {Value(b)} /\ Value(b) \in Values
  <2>1. b.exists /\ b.present /\ b.storage = {v} /\ Value(b) = v /\ ~Broken(b)
    BY <1>2, BoxesShow, Zenon
  <2>2. h # {}
    BY <1>2
  <2> QED BY <1>2, <2>1, <2>2, Zenon
<1> QED BY <1>1, <1>2, Zenon DEF Usable

\* A box that exists and is not broken is usable.
LEMMA ExistingIsUsable ==
  ASSUME NEW b, NEW h, IsBox(b, h), b.exists, ~Broken(b)
  PROVE  Usable(b, h)
BY BoxesShow, Zenon DEF IsBox, No

\* What the member functions make of a usable Optional.
LEMMA MembersKeep ==
  ASSUME NEW b, NEW h, Usable(b, h), NEW v
  PROVE  /\ Clear(b) = Nil(Yes) /\ Destruct(b) = Nil(Yes)
         /\ Construct(b, v) = Full(v) /\ AssignTo(b, v) = Full(v) /\ Construct(Clear(b), v) = Full(v)
         /\ Left(b, v) = IF h = {} THEN Nil(Yes) ELSE Full(v)
         /\ [Clear(b) EXCEPT !.exists = FALSE] = Nil(No)
         /\ ConstructThrows(Clear(b)) = Void
<1>1. PICK p, s : b = Box(Yes, p, s)
  BY Zenon DEF Usable, Nil, Full
<1>2. WithFlag(b, No) = Box(Yes, No, s) /\ WithFlag(b, Yes) = Box(Yes, Yes, s)
  BY <1>1, FlagOfBox, Zenon
<1>3. /\ WithStorage(Box(Yes, No, s), {}) = Box(Yes, No, {})
      /\ WithStorage(Box(Yes, Yes, s), {v}) = Box(Yes, Yes, {v})
      /\ WithStorage(Box(Yes, p, s), {v}) = Box(Yes, p, {v})
  BY StorageOfBox, Zenon
<1>4. Destruct(b) = Nil(Yes) /\ Construct(b, v) = Full(v)
  BY <1>2, <1>3, MembersAre, Zenon DEF Nil, Full
<1>5. ~b.present => b = Nil(Yes) /\ h = {}
  BY UsableShows
<1>6. b.present => p = Yes /\ h # {}
  <2> SUFFICES ASSUME b.present PROVE p = Yes /\ h # {}
    OBVIOUS
  <2>1. h # {} /\ ~Nil(Yes).present
    BY UsableShows, BoxesShow
  <2>2. PICK w : b = Full(w)
    BY <2>1 DEF Usable
  <2>3. Full(w).present = Yes
    BY FieldsOfBox DEF Full
  <2>4. Box(Yes, p, s).present = p
    BY FieldsOfBox
  <2> QED BY <1>1, <2>1, <2>2, <2>3, <2>4, Zenon
<1>7. Clear(b) = Nil(Yes)
  BY <1>4, <1>5, MembersAre, Zenon
<1>8. Usable(Nil(Yes), {})
  BY DEF Usable
<1>9. /\ WithStorage(WithFlag(Nil(Yes), Yes), {v}) = Full(v) /\ WithExists(Nil(Yes), No) = Nil(No)
      /\ WithFlag(Nil(Yes), Yes) = Void
  <2>1. WithFlag(Nil(Yes), Yes) = Void
    BY FlagOfBox, Zenon DEF Nil, Void
  <2>2. WithStorage(Void, {v}) = Full(v)
    BY StorageOfBox, Zenon DEF Void, Full
  <2>3. WithExists(Nil(Yes), No) = Nil(No)
    BY ExistsOfBox DEF Nil
  <2> QED BY <2>1, <2>2, <2>3, Zenon
<1>10. b.present => WithStorage(b, {v}) = Full(v)
  BY <1>1, <1>3, <1>6, Zenon DEF Full
<1>11. AssignTo(b, v) = Full(v) /\ Left(b, v) = IF h = {} THEN Nil(Yes) ELSE Full(v)
  <2>1. CASE b.present
    BY <1>6, <1>10, <2>1, MembersAre, Zenon
  <2>2. CASE ~b.present
    BY <1>4, <1>5, <2>2, MembersAre, Zenon
  <2> QED BY <2>1, <2>2, Zenon
<1>12. Construct(Clear(b), v) = Full(v) /\ [Clear(b) EXCEPT !.exists = FALSE] = Nil(No)
       /\ ConstructThrows(Clear(b)) = Void
  BY <1>7, <1>9, MembersAre, Zenon
<1> QED BY <1>4, <1>7, <1>11, <1>12, Zenon

LEMMA MembersAreUsable ==
  /\ Usable(Nil(Yes), {})
  /\ \A v \in Values : Usable(Full(v), {v})
BY Zenon DEF Usable

\* Copying or moving a usable Optional into another one.
LEMMA CopiesKeep ==
  ASSUME NEW b, NEW h, Usable(b, h), NEW c, NEW g, Usable(c, g)
  PROVE  /\ Usable(IF c.present THEN Construct(NilOptional, Value(c)) ELSE NilOptional, g)
         /\ Usable(IF c.present THEN AssignTo(b, Value(c)) ELSE Clear(b), g)
         /\ c.present => Usable(Construct(b, Value(c)), g) /\ Usable(AssignTo(b, Value(c)), g)
<1>1. NilOptional = Nil(Yes) /\ Usable(NilOptional, {}) /\ Usable(b, h)
  BY NilIs, MembersAreUsable, Zenon
<1>2. CASE c.present
  <2>1. g = {Value(c)} /\ Value(c) \in Values
    BY <1>2, UsableShows
  <2>2. Usable(Full(Value(c)), g)
    BY <2>1, MembersAreUsable, Zenon
  <2>3. AssignTo(b, Value(c)) = Full(Value(c)) /\ Construct(b, Value(c)) = Full(Value(c))
        /\ Construct(NilOptional, Value(c)) = Full(Value(c))
    BY <1>1, <2>1, MembersKeep, Zenon
  <2> QED BY <1>2, <2>2, <2>3, Zenon
<1>3. CASE ~c.present
  <2>1. g = {}
    BY <1>3, UsableShows
  <2>2. Clear(b) = Nil(Yes)
    <3>1. CASE ~b.present
      BY <3>1, UsableShows, MembersAre, Zenon
    <3>2. CASE b.present
      <4>1. Value(b) \in Values
        BY <3>2, UsableShows
      <4> QED BY <4>1, MembersKeep, Zenon
    <3> QED BY <3>1, <3>2
  <2> QED BY <1>1, <1>3, <2>1, <2>2, MembersAreUsable, Zenon
<1> QED BY <1>2, <1>3, Zenon

\* The boxes an operation does not change stay, and those it does are no worse.
LEMMA UsesKeeps ==
  ASSUME OptInv, NEW used \in SUBSET Optionals, NEW becomes, NEW holds, UsesBoxes(used, becomes, holds),
         becomes = [o \in Optionals |-> becomes[o]], holds = [o \in Optionals |-> holds[o]],
         \A u \in used : ~Broken(box[u]),
         \A o \in Optionals : \/ becomes[o] = box[o] /\ holds[o] = held[o]
                              \/ Usable(becomes[o], holds[o])
                              \/ becomes[o] = Nil(No) /\ holds[o] = {}
  PROVE  OptInv'
<1>1. box' = becomes /\ held' = holds /\ UNCHANGED <<thrown, misused>>
  BY DEF UsesBoxes
<1>2. \A o \in Optionals : IsBox(becomes[o], holds[o])
  BY DEF OptInv, IsBox
<1>3. \A o \in Optionals : Broken(becomes[o]) => o \in thrown
  <2> SUFFICES ASSUME NEW o \in Optionals, Broken(becomes[o]) PROVE o \in thrown
    OBVIOUS
  <2>1. ~Usable(becomes[o], holds[o])
    BY UsableShows, Zenon
  <2>2. becomes[o] # Nil(No)
    BY BoxesShow, Zenon
  <2> QED BY <2>1, <2>2, Zenon DEF OptInv
<1> QED BY <1>1, <1>2, <1>3 DEF OptInv

\* What uses a T that does not live is undefined, and changes nothing else.
LEMMA MisuseKeeps ==
  ASSUME OptInv, NEW used \in SUBSET Optionals, NEW becomes, NEW holds, UsesBoxes(used, becomes, holds),
         NEW u \in used, Broken(box[u])
  PROVE  OptInv'
BY DEF UsesBoxes, OptInv

\* One Optional is made, assigned to or destroyed.
LEMMA OneKeeps ==
  ASSUME OptInv, NEW o \in Optionals,
         \/ MakeNil(o) \/ DestroyBox(o) \/ AssignNil(o)
         \/ \E v \in Values : MakeFrom(o, v) \/ AssignValue(o, v) \/ Emplace(o, v)
  PROVE  OptInv'
<1> USE DEF OptInv
<1>1. /\ NilOptional = Nil(Yes) /\ Usable(NilOptional, {})
      /\ ~box[o].exists => held[o] = {}
  <2>1. IsBox(box[o], held[o])
    OBVIOUS
  <2> QED BY <2>1, NilIs, MembersAreUsable, UsableShows, Zenon DEF IsBox
<1>2. ASSUME NEW b, NEW h, NEW used \in SUBSET {o}, UsesBoxes(used, [box EXCEPT ![o] = b], [held EXCEPT ![o] = h]),
             (\A u \in used : ~Broken(box[u])) => Usable(b, h) \/ (b = Nil(No) /\ h = {})
      PROVE  OptInv'
  <2> DEFINE becomes == [box EXCEPT ![o] = b]
             holds == [held EXCEPT ![o] = h]
  <2>1. /\ becomes = [q \in Optionals |-> becomes[q]] /\ holds = [q \in Optionals |-> holds[q]]
        /\ becomes[o] = b /\ holds[o] = h
        /\ \A q \in Optionals \ {o} : becomes[q] = box[q] /\ holds[q] = held[q]
    OBVIOUS
  <2>2. UsesBoxes(used, becomes, holds) /\ used \in SUBSET Optionals
    BY <1>2
  <2> HIDE DEF becomes, holds
  <2>3. CASE \E u \in used : Broken(box[u])
    BY <2>2, <2>3, MisuseKeeps
  <2>4. CASE \A u \in used : ~Broken(box[u])
    <3>1. \A q \in Optionals : \/ becomes[q] = box[q] /\ holds[q] = held[q]
                               \/ Usable(becomes[q], holds[q])
                               \/ becomes[q] = Nil(No) /\ holds[q] = {}
      BY <1>2, <2>1, <2>4
    <3> HIDE DEF OptInv
    <3> QED BY <2>1, <2>2, <2>4, <3>1, UsesKeeps
  <2> QED BY <2>3, <2>4
<1>3. ASSUME box[o].exists, ~Broken(box[o]), NEW v \in Values
      PROVE  Usable(AssignTo(box[o], v), {v}) /\ Usable(Construct(Clear(box[o]), v), {v})
  BY <1>3, ExistingIsUsable, MembersKeep, MembersAreUsable
<1>4. ASSUME box[o].exists, ~Broken(box[o])
      PROVE  Usable(Clear(box[o]), {}) /\ [Clear(box[o]) EXCEPT !.exists = FALSE] = Nil(No)
  BY <1>4, ExistingIsUsable, MembersKeep, MembersAreUsable
<1>5. CASE MakeNil(o)
  <2>1. held = [held EXCEPT ![o] = {}] /\ UsesBoxes({}, [box EXCEPT ![o] = NilOptional], held)
    BY <1>1, <1>5 DEF MakeNil
  <2>2. UsesBoxes({}, [box EXCEPT ![o] = NilOptional], [held EXCEPT ![o] = {}])
    BY <2>1
  <2> QED BY <1>1, <1>2, <2>2
<1>6. CASE DestroyBox(o)
  <2>1. ~Broken(box[o]) => [Clear(box[o]) EXCEPT !.exists = FALSE] = Nil(No)
    BY <1>4, <1>6 DEF DestroyBox
  <2>2. UsesBoxes({o}, [box EXCEPT ![o] = [Clear(box[o]) EXCEPT !.exists = FALSE]], [held EXCEPT ![o] = {}])
    BY <1>6 DEF DestroyBox
  <2> QED BY <1>2, <2>1, <2>2
<1>7. CASE AssignNil(o)
  <2>1. ~Broken(box[o]) => Usable(Clear(box[o]), {})
    BY <1>4, <1>7 DEF AssignNil
  <2>2. UsesBoxes({o}, [box EXCEPT ![o] = Clear(box[o])], [held EXCEPT ![o] = {}])
    BY <1>7 DEF AssignNil
  <2> QED BY <1>2, <2>1, <2>2
<1>8. ASSUME NEW v \in Values, MakeFrom(o, v) PROVE OptInv'
  <2>1. Usable(Construct(NilOptional, v), {v})
    BY <1>1, MembersAreUsable, MembersKeep
  <2>2. UsesBoxes({}, [box EXCEPT ![o] = Construct(NilOptional, v)], [held EXCEPT ![o] = {v}])
    BY <1>8 DEF MakeFrom
  <2> QED BY <1>2, <2>1, <2>2
<1>9. ASSUME NEW v \in Values, AssignValue(o, v) PROVE OptInv'
  <2>1. ~Broken(box[o]) => Usable(AssignTo(box[o], v), {v})
    BY <1>3, <1>9 DEF AssignValue
  <2>2. UsesBoxes({o}, [box EXCEPT ![o] = AssignTo(box[o], v)], [held EXCEPT ![o] = {v}])
    BY <1>9 DEF AssignValue
  <2> QED BY <1>2, <2>1, <2>2
<1>10. ASSUME NEW v \in Values, Emplace(o, v) PROVE OptInv'
  <2>1. ~Broken(box[o]) => Usable(Construct(Clear(box[o]), v), {v})
    BY <1>3, <1>10 DEF Emplace
  <2>2. UsesBoxes({o}, [box EXCEPT ![o] = Construct(Clear(box[o]), v)], [held EXCEPT ![o] = {v}])
    BY <1>10 DEF Emplace
  <2> QED BY <1>2, <2>1, <2>2
<1> QED BY <1>5, <1>6, <1>7, <1>8, <1>9, <1>10

\* One Optional is made from another one, assigned from it or swapped with it.
LEMMA PairKeeps ==
  ASSUME OptInv, NEW o \in Optionals, NEW p \in Optionals,
         \/ MakeCopy(o, p) \/ AssignCopy(o, p) \/ Swap(o, p)
         \/ \E v \in Values : MakeMove(o, p, v) \/ AssignMove(o, p, v)
  PROVE  OptInv'
<1> USE DEF OptInv
<1>1. ASSUME NEW used \in SUBSET {o, p}, NEW becomes, NEW holds, UsesBoxes(used, becomes, holds),
             becomes = [q \in Optionals |-> becomes[q]], holds = [q \in Optionals |-> holds[q]],
             \A q \in Optionals \ {o, p} : becomes[q] = box[q] /\ holds[q] = held[q],
             (\A u \in used : ~Broken(box[u])) =>
               \A q \in {o, p} : \/ becomes[q] = box[q] /\ holds[q] = held[q]
                                 \/ Usable(becomes[q], holds[q])
      PROVE  OptInv'
  <2>1. CASE \A u \in used : ~Broken(box[u])
    <3>1. used \in SUBSET Optionals
      BY <1>1
    <3>2. \A q \in Optionals : \/ becomes[q] = box[q] /\ holds[q] = held[q]
                               \/ Usable(becomes[q], holds[q])
                               \/ becomes[q] = Nil(No) /\ holds[q] = {}
      BY <1>1, <2>1
    <3> HIDE DEF OptInv
    <3> QED BY <1>1, <2>1, <3>1, <3>2, UsesKeeps
  <2>2. CASE \E u \in used : Broken(box[u])
    BY <1>1, <2>2, MisuseKeeps
  <2> QED BY <2>1, <2>2
<1>2. \A q \in {o, p} : box[q].exists /\ ~Broken(box[q]) => Usable(box[q], held[q])
  BY ExistingIsUsable
<1>3. ASSUME NEW v \in Values, NEW b, NEW h, NEW g, Usable(b, h), g = IF h = {} THEN {} ELSE {v} PROVE Usable(Left(b, v), g)
  BY <1>3, MembersKeep, MembersAreUsable, Zenon
<1>4. CASE MakeCopy(o, p)
  <2> DEFINE c == IF box[p].present THEN Construct(NilOptional, Value(box[p])) ELSE NilOptional
             becomes == [box EXCEPT ![o] = c]
             holds == [held EXCEPT ![o] = held[p]]
  <2>1. UsesBoxes({p}, becomes, holds) /\ o # p /\ box[p].exists
    BY <1>4 DEF MakeCopy
  <2>2. /\ becomes = [q \in Optionals |-> becomes[q]] /\ holds = [q \in Optionals |-> holds[q]]
        /\ becomes[o] = c /\ holds[o] = held[p]
        /\ \A q \in Optionals \ {o} : becomes[q] = box[q] /\ holds[q] = held[q]
    OBVIOUS
  <2>3. ~Broken(box[p]) => Usable(c, held[p])
    BY <1>2, <2>1, CopiesKeep
  <2> HIDE DEF c, becomes, holds
  <2>4. ~Broken(box[p]) => \A q \in {o, p} : \/ becomes[q] = box[q] /\ holds[q] = held[q]
                                             \/ Usable(becomes[q], holds[q])
    BY <2>1, <2>2, <2>3
  <2> QED BY <1>1, <2>1, <2>2, <2>4
<1>5. ASSUME NEW v \in Values, MakeMove(o, p, v) PROVE OptInv'
  <2> DEFINE c == IF box[p].present THEN Construct(NilOptional, Value(box[p])) ELSE NilOptional
             g == IF held[p] = {} THEN {} ELSE {v}
             becomes == [box EXCEPT ![o] = c, ![p] = Left(@, v)]
             holds == [held EXCEPT ![o] = held[p], ![p] = IF @ = {} THEN {} ELSE {v}]
  <2>1. UsesBoxes({p}, becomes, holds) /\ o # p /\ box[p].exists
    BY <1>5 DEF MakeMove
  <2>2. /\ becomes = [q \in Optionals |-> becomes[q]] /\ holds = [q \in Optionals |-> holds[q]]
        /\ becomes[o] = c /\ holds[o] = held[p] /\ becomes[p] = Left(box[p], v) /\ holds[p] = g
        /\ \A q \in Optionals \ {o, p} : becomes[q] = box[q] /\ holds[q] = held[q]
    BY <2>1
  <2>3. ~Broken(box[p]) => Usable(c, held[p]) /\ Usable(Left(box[p], v), g)
    BY <1>2, <1>3, <2>1, CopiesKeep
  <2> HIDE DEF c, g, becomes, holds
  <2>4. ~Broken(box[p]) => \A q \in {o, p} : Usable(becomes[q], holds[q])
    BY <2>1, <2>2, <2>3
  <2> QED BY <1>1, <2>1, <2>2, <2>4
<1>6. CASE AssignCopy(o, p)
  <2> DEFINE c == IF box[p].present THEN AssignTo(box[o], Value(box[p])) ELSE Clear(box[o])
             becomes == [box EXCEPT ![o] = c]
             holds == [held EXCEPT ![o] = held[p]]
  <2>1. UsesBoxes({o, p}, becomes, holds) /\ box[o].exists /\ box[p].exists
    BY <1>6 DEF AssignCopy
  <2>2. /\ becomes = [q \in Optionals |-> becomes[q]] /\ holds = [q \in Optionals |-> holds[q]]
        /\ becomes[o] = c /\ holds[o] = held[p]
        /\ \A q \in Optionals \ {o} : becomes[q] = box[q] /\ holds[q] = held[q]
    OBVIOUS
  <2>3. ~Broken(box[o]) /\ ~Broken(box[p]) => Usable(c, held[p])
    BY <1>2, <2>1, CopiesKeep
  <2> HIDE DEF c, becomes, holds
  <2>4. ~Broken(box[o]) /\ ~Broken(box[p]) =>
          \A q \in {o, p} : \/ becomes[q] = box[q] /\ holds[q] = held[q]
                            \/ Usable(becomes[q], holds[q])
    BY <2>2, <2>3
  <2> QED BY <1>1, <2>1, <2>2, <2>4
<1>7. ASSUME NEW v \in Values, AssignMove(o, p, v) PROVE OptInv'
  <2> DEFINE c == IF box[p].present THEN AssignTo(box[o], Value(box[p])) ELSE Clear(box[o])
             g == IF held[p] = {} THEN {} ELSE {v}
             becomes == [box EXCEPT ![o] = c, ![p] = Left(@, v)]
             holds == [held EXCEPT ![o] = held[p], ![p] = IF @ = {} THEN {} ELSE {v}]
  <2>1. UsesBoxes({o, p}, becomes, holds) /\ o # p /\ box[o].exists /\ box[p].exists
    BY <1>7 DEF AssignMove
  <2>2. /\ becomes = [q \in Optionals |-> becomes[q]] /\ holds = [q \in Optionals |-> holds[q]]
        /\ becomes[o] = c /\ holds[o] = held[p] /\ becomes[p] = Left(box[p], v) /\ holds[p] = g
        /\ \A q \in Optionals \ {o, p} : becomes[q] = box[q] /\ holds[q] = held[q]
    BY <2>1
  <2>3. ~Broken(box[o]) /\ ~Broken(box[p]) => Usable(c, held[p]) /\ Usable(Left(box[p], v), g)
    BY <1>2, <1>3, <2>1, CopiesKeep
  <2> HIDE DEF c, g, becomes, holds
  <2>4. ~Broken(box[o]) /\ ~Broken(box[p]) => \A q \in {o, p} : Usable(becomes[q], holds[q])
    BY <2>1, <2>2, <2>3
  <2> QED BY <1>1, <2>1, <2>2, <2>4
<1>8. CASE Swap(o, p)
  <2> DEFINE ours == box[o]
             yours == box[p]
             holds == [held EXCEPT ![o] = held[p], ![p] = held[o]]
  <2>1. o # p /\ ours.exists /\ yours.exists
    BY <1>8 DEF Swap
  <2>2. /\ holds = [q \in Optionals |-> holds[q]] /\ holds[o] = held[p] /\ holds[p] = held[o]
        /\ \A q \in Optionals \ {o, p} : holds[q] = held[q]
    BY <2>1
  <2>3. ASSUME NEW c, NEW d, UsesBoxes({o, p}, [box EXCEPT ![o] = c, ![p] = d], holds),
               ~Broken(ours) /\ ~Broken(yours) => Usable(c, held[p]) /\ Usable(d, held[o])
        PROVE  OptInv'
    <3> DEFINE becomes == [box EXCEPT ![o] = c, ![p] = d]
    <3>1. /\ becomes = [q \in Optionals |-> becomes[q]]
          /\ becomes[o] = c /\ becomes[p] = d
          /\ \A q \in Optionals \ {o, p} : becomes[q] = box[q]
      BY <2>1
    <3>2. UsesBoxes({o, p}, becomes, holds)
      BY <2>3
    <3> HIDE DEF becomes, holds
    <3>3. ~Broken(box[o]) /\ ~Broken(box[p]) => \A q \in {o, p} : Usable(becomes[q], holds[q])
      BY <2>2, <2>3, <3>1
    <3> QED BY <1>1, <2>2, <3>1, <3>2, <3>3
  <2>4. [box EXCEPT ![p] = Construct(yours, Value(ours)), ![o] = Destruct(ours)]
          = [box EXCEPT ![o] = Destruct(ours), ![p] = Construct(yours, Value(ours))]
    BY <2>1
  <2>5. box = [box EXCEPT ![o] = ours, ![p] = yours]
    OBVIOUS
  <2>6. ~Broken(ours) /\ ~Broken(yours) => Usable(ours, held[o]) /\ Usable(yours, held[p])
    BY <1>2, <2>1
  <2>7. CASE ours.present /\ yours.present
    <3>1. UsesBoxes({o, p}, [box EXCEPT ![o] = AssignTo(ours, Value(yours)), ![p] = AssignTo(yours, Value(ours))], holds)
      BY <1>8, <2>7 DEF Swap
    <3>2. ~Broken(ours) /\ ~Broken(yours) =>
            Usable(AssignTo(ours, Value(yours)), held[p]) /\ Usable(AssignTo(yours, Value(ours)), held[o])
      BY <2>6, <2>7, CopiesKeep
    <3> QED BY <2>3, <3>1, <3>2
  <2>8. CASE ours.present /\ ~yours.present
    <3>1. UsesBoxes({o, p}, [box EXCEPT ![o] = Destruct(ours), ![p] = Construct(yours, Value(ours))], holds)
      BY <1>8, <2>4, <2>8 DEF Swap
    <3>2. ~Broken(ours) /\ ~Broken(yours) =>
            Usable(Destruct(ours), held[p]) /\ Usable(Construct(yours, Value(ours)), held[o])
      BY <2>6, <2>8, CopiesKeep, UsableShows, MembersKeep, MembersAreUsable
    <3> QED BY <2>3, <3>1, <3>2
  <2>9. CASE ~ours.present /\ yours.present
    <3>1. UsesBoxes({o, p}, [box EXCEPT ![o] = Construct(ours, Value(yours)), ![p] = Destruct(yours)], holds)
      BY <1>8, <2>9 DEF Swap
    <3>2. ~Broken(ours) /\ ~Broken(yours) =>
            Usable(Construct(ours, Value(yours)), held[p]) /\ Usable(Destruct(yours), held[o])
      BY <2>6, <2>9, CopiesKeep, UsableShows, MembersKeep, MembersAreUsable
    <3> QED BY <2>3, <3>1, <3>2
  <2>10. CASE ~ours.present /\ ~yours.present
    <3>1. UsesBoxes({o, p}, [box EXCEPT ![o] = ours, ![p] = yours], holds)
      BY <1>8, <2>5, <2>10 DEF Swap
    <3>2. ~Broken(ours) /\ ~Broken(yours) => Usable(ours, held[p]) /\ Usable(yours, held[o])
      BY <2>6, <2>10, UsableShows
    <3> QED BY <2>3, <3>1, <3>2
  <2> QED BY <2>7, <2>8, <2>9, <2>10
<1> QED BY <1>4, <1>5, <1>6, <1>7, <1>8

\* A constructor that throws leaves an Optional whose flag lies, and it is known.
LEMMA ThrowsKeeps == ASSUME OptInv, NEW o \in Optionals, Throws(o) PROVE OptInv'
<1>1. Usable(box[o], held[o])
  BY ExistingIsUsable DEF OptInv, Throws
<1>2. ConstructThrows(Clear(box[o])) = Void
  BY <1>1, MembersKeep
<1>3. box' = [box EXCEPT ![o] = Void] /\ held' = [held EXCEPT ![o] = {}]
      /\ thrown' = thrown \union {o} /\ misused' = misused
  BY <1>2 DEF Throws
<1>4. box'[o] = Void /\ held'[o] = {} /\ \A q \in Optionals \ {o} : box'[q] = box[q] /\ held'[q] = held[q]
  BY <1>3 DEF OptInv
<1>5. \A q \in Optionals : IsBox(box'[q], held'[q])
  BY <1>4 DEF OptInv, IsBox
<1>6. \A q \in Optionals : Broken(box'[q]) => q \in thrown'
  BY <1>3, <1>4 DEF OptInv
<1> QED BY <1>3, <1>5, <1>6 DEF OptInv

LEMMA OptInitKeeps == OptInit => OptInv
<1> SUFFICES ASSUME OptInit PROVE OptInv
  OBVIOUS
<1>1. \A o \in Optionals : box[o] = Nil(No) /\ held[o] = {}
  BY NilIs DEF OptInit
<1>2. \A o \in Optionals : IsBox(box[o], held[o]) /\ ~Broken(box[o])
  BY <1>1, BoxesShow DEF IsBox
<1> QED BY <1>2 DEF OptInit, OptInv

LEMMA OptStepKeeps == OptInv /\ [OptNext]_ovars => OptInv'
<1> SUFFICES ASSUME OptInv, [OptNext]_ovars PROVE OptInv'
  OBVIOUS
<1>1. CASE OptNext
  <2>1. PICK o \in Optionals :
          \/ Throws(o)
          \/ MakeNil(o) \/ DestroyBox(o) \/ AssignNil(o)
          \/ \E v \in Values : MakeFrom(o, v) \/ AssignValue(o, v) \/ Emplace(o, v)
          \/ \E p \in Optionals : MakeCopy(o, p) \/ AssignCopy(o, p) \/ Swap(o, p)
          \/ \E p \in Optionals, v \in Values : MakeMove(o, p, v) \/ AssignMove(o, p, v)
    BY <1>1, Zenon DEF OptNext
  <2>2. CASE Throws(o)
    BY <2>2, ThrowsKeeps
  <2>3. CASE \/ MakeNil(o) \/ DestroyBox(o) \/ AssignNil(o)
             \/ \E v \in Values : MakeFrom(o, v) \/ AssignValue(o, v) \/ Emplace(o, v)
    BY <2>3, OneKeeps
  <2>4. ASSUME NEW p \in Optionals,
               \/ MakeCopy(o, p) \/ AssignCopy(o, p) \/ Swap(o, p)
               \/ \E v \in Values : MakeMove(o, p, v) \/ AssignMove(o, p, v)
        PROVE  OptInv'
    BY <2>4, PairKeeps
  <2> QED BY <2>1, <2>2, <2>3, <2>4
<1>2. CASE UNCHANGED ovars
  BY <1>2 DEF OptInv, ovars
<1> QED BY <1>1, <1>2

\* The comparisons of two usable Optionals are those of what they hold.
LEMMA ComparisonsAgree ==
  ASSUME NEW x, NEW s, Usable(x, s), NEW y, NEW t, Usable(y, t)
  PROVE  /\ Equal(x, y) <=> s = t
         /\ LessThan(x, y) <=> Below(s, t)
         /\ AtMost(x, y) <=> LessThan(x, y) \/ Equal(x, y)
<1>1. /\ x.present => s = {Value(x)} /\ Value(x) \in Int
      /\ ~x.present => s = {}
  BY UsableShows, ValuesAreInt
<1>2. /\ y.present => t = {Value(y)} /\ Value(y) \in Int
      /\ ~y.present => t = {}
  BY UsableShows, ValuesAreInt
<1>3. CASE x.present /\ y.present
  <2>1. Equal(x, y) <=> Value(x) = Value(y)
    BY <1>3, Zenon DEF Equal
  <2>2. (LessThan(x, y) <=> Value(x) < Value(y)) /\ (LessThan(y, x) <=> Value(y) < Value(x))
    BY <1>3, Zenon DEF LessThan
  <2> QED BY <1>1, <1>2, <1>3, <2>1, <2>2 DEF AtMost, Below
<1>4. CASE ~x.present \/ ~y.present
  <2>1. /\ Equal(x, y) <=> ~x.present /\ ~y.present
        /\ LessThan(x, y) <=> ~x.present /\ y.present
        /\ LessThan(y, x) <=> ~y.present /\ x.present
    BY <1>4, Zenon DEF Equal, LessThan
  <2>2. (x.present => s # {}) /\ (y.present => t # {})
    BY <1>1, <1>2
  <2>3. Below(s, t) <=> ~x.present /\ y.present
    BY <1>1, <1>2, <1>4, <2>2, Zenon DEF Below
  <2>4. s = t <=> ~x.present /\ ~y.present
    BY <1>1, <1>2, <1>4, <2>2, Zenon
  <2> QED BY <1>4, <2>1, <2>3, <2>4, Zenon DEF AtMost
<1> QED BY <1>3, <1>4

\* The comparisons with nothing and with a value are those with an Optional of it.
LEMMA MixedAgree ==
  ASSUME NEW x
  PROVE  /\ EqualNil(x) <=> Equal(x, NilOptional)
         /\ NilLess(x) <=> LessThan(NilOptional, x)
         /\ AtMostNil(x) <=> AtMost(x, NilOptional)
         /\ \A v \in Values :
              LET b == Construct(NilOptional, v)
              IN /\ EqualValue(x, v) <=> Equal(x, b)
                 /\ LessValue(x, v) <=> LessThan(x, b)
                 /\ ValueLess(v, x) <=> LessThan(b, x)
                 /\ AtMostValue(x, v) <=> AtMost(x, b)
                 /\ ValueAtMost(v, x) <=> AtMost(b, x)
<1>1. ~NilOptional.present
  BY NilIs, BoxesShow, Zenon
<1>2. \A v \in Values : Construct(NilOptional, v).present /\ Value(Construct(NilOptional, v)) = v
  <2>1. \A v \in Values : Construct(NilOptional, v) = Full(v)
    BY NilIs, MembersKeep, MembersAreUsable
  <2> QED BY <2>1, BoxesShow, Zenon
<1>3. ASSUME NEW v \in Values, NEW b, b.present, Value(b) = v
      PROVE /\ EqualValue(x, v) <=> Equal(x, b)
            /\ LessValue(x, v) <=> LessThan(x, b)
            /\ ValueLess(v, x) <=> LessThan(b, x)
            /\ AtMostValue(x, v) <=> AtMost(x, b)
            /\ ValueAtMost(v, x) <=> AtMost(b, x)
  BY <1>3, Zenon DEF EqualValue, LessValue, ValueLess, AtMostValue, ValueAtMost, Equal, LessThan, AtMost
<1>4. /\ EqualNil(x) <=> Equal(x, NilOptional)
      /\ NilLess(x) <=> LessThan(NilOptional, x)
      /\ AtMostNil(x) <=> AtMost(x, NilOptional)
  BY <1>1, Zenon DEF EqualNil, NilLess, AtMostNil, Equal, LessThan, AtMost
<1> QED BY <1>2, <1>3, <1>4

LEMMA OptInvHolds == OptInv => OptionalsHold
<1> SUFFICES ASSUME OptInv PROVE OptionalsHold
  OBVIOUS
<1> DEFINE Sound == {o \in Optionals : box[o].exists /\ o \notin thrown}
<1>1. \A o \in Optionals \ thrown : Usable(box[o], held[o]) \/ (box[o] = Nil(No) /\ held[o] = {})
  BY BoxesShow DEF OptInv, IsBox
<1>2. \A o \in Optionals \ thrown : box[o].storage = held[o] /\ (box[o].present <=> held[o] # {})
  BY <1>1, UsableShows, BoxesShow, Zenon
<1>3. \A o \in Sound : Usable(box[o], held[o])
  BY ExistingIsUsable DEF OptInv
<1>4. \A o \in Sound : \A p \in Sound :
        /\ Equal(box[o], box[p]) <=> held[o] = held[p]
        /\ LessThan(box[o], box[p]) <=> Below(held[o], held[p])
        /\ AtMost(box[o], box[p]) <=> LessThan(box[o], box[p]) \/ Equal(box[o], box[p])
  BY <1>3, ComparisonsAgree
<1>5. misused => thrown # {}
  BY DEF OptInv
<1> QED BY <1>2, <1>4, <1>5, MixedAgree DEF OptionalsHold

\* cub::Optional keeps what it was given: for any number of Optionals and any order
\* of constructions, copies, moves, swaps and assignments, one in which no
\* constructor of T has thrown holds its value, its flag says so, it compares by
\* it, and none is used without a T before a constructor has thrown.
THEOREM OptionalsKeepValues == OptSpec => []OptionalsHold
<1>1. OptInit => OptInv
  BY OptInitKeeps
<1>2. OptInv /\ [OptNext]_ovars => OptInv'
  BY OptStepKeeps
<1>3. OptInv => OptionalsHold
  BY OptInvHolds
<1> QED BY <1>1, <1>2, <1>3, PTL DEF OptSpec

-----------------------------------------------------------------------------
(* The containers of the library beside each other. *)
LEMMA ContainersStep ==
  ASSUME ListInv, OptInv, [ContainersNext]_<<turn, lvars, ovars>>
  PROVE  ListInv' /\ OptInv' /\ [turn = "list" /\ [Sequence!Next]_Contents]_lvars
<1>1. CASE turn = "list" /\ LNext /\ UNCHANGED ovars
  BY <1>1, ListStepKeeps, OptStepKeeps
<1>2. CASE UNCHANGED lvars
  <2>1. ListInv'
    BY <1>2, ListStepKeeps
  <2>2. [OptNext]_ovars
    BY DEF ContainersNext
  <2>3. OptInv'
    BY <2>2, OptStepKeeps
  <2> QED BY <1>2, <2>1, <2>3
<1> QED BY <1>1, <1>2 DEF ContainersNext

\* For any number of lists, elements and Optionals, in whatever order the
\* operations and the steps of a loop come: back and forth lead through the same
\* elements of a list, size() is how many there are modulo what an unsigned short
\* counts, a loop that erases visits what it began with, and an Optional holds
\* the value that it was given.  That holds of all of them at all times,
\* ContainersHold looks where they change.
THEOREM ContainersAreRight ==
  ContainersSpec => [](ContainersHold /\ ListConsistent /\ LoopVisitsAll /\ OptionalsHold)
<1>1. ContainersInit => ListInv /\ OptInv
  BY ListInvInit, OptInitKeeps DEF ContainersInit
<1>2. ListInv /\ OptInv /\ [ContainersNext]_<<turn, lvars, ovars>> => (ListInv /\ OptInv)'
  BY ContainersStep
<1>3. ListInv /\ OptInv => ContainersHold /\ ListConsistent /\ LoopVisitsAll /\ OptionalsHold
  BY ListInvHolds, OptInvHolds DEF ContainersHold
<1> QED BY <1>1, <1>2, <1>3, PTL DEF ContainersSpec

\* The rings of pointers implement SequenceLists: at first the lists are empty, and
\* a step of a list inserts, deletes or moves one element, joins, splits or clears
\* lists as SequenceLists says, or leaves all sequences as they are.
THEOREM RingsAreSequences == ContainersSpec => ListsAreSequences
<1>1. ContainersInit => ListInv /\ OptInv /\ Sequence!Init
  BY ListInvInit, OptInitKeeps DEF ContainersInit, Sequence!Init
<1>2. ListInv /\ OptInv /\ [ContainersNext]_<<turn, lvars, ovars>>
        => (ListInv /\ OptInv)' /\ [turn = "list" /\ [Sequence!Next]_Contents]_lvars
  BY ContainersStep
<1> QED BY <1>1, <1>2, PTL DEF ContainersSpec, ListsAreSequences

\* The same of the lists by themselves.
THEOREM ListsImplementSequences == LSpec => ImplementsSequences
<1>1. LInit => ListInv /\ Sequence!Init
  BY ListInvInit DEF Sequence!Init
<1>2. ListInv /\ [LNext]_lvars => ListInv' /\ [Sequence!Next]_Contents
  BY ListStepKeeps
<1> QED BY <1>1, <1>2, PTL DEF LSpec, ImplementsSequences, Sequence!Spec
=============================================================================
