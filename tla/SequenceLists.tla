---------------------------- MODULE SequenceLists ----------------------------
(***************************************************************************)
(* What the lists of cub/list promise: each is a sequence of elements, and *)
(* no element is in two places.                                            *)
(***************************************************************************)
EXTENDS Sequences, SequencesExt

CONSTANTS Lists, Elems

VARIABLE lists   \* the sequence of elements of each list

\* What an operation makes of the sequences s.
Free(s) == Elems \ UNION {ToSet(s[h]) : h \in Lists}

Insert(s, h, k, e) == [s EXCEPT ![h] = InsertAt(@, k, e)]
Delete(s, h, k) == [s EXCEPT ![h] = RemoveAt(@, k)]

\* An element of any list is put at another place.
Move(s, g, k, h, j) == LET gone == [s EXCEPT ![g] = RemoveAt(@, k)]
                       IN [gone EXCEPT ![h] = InsertAt(@, j, s[g][k])]

Concat(s, h, g) == [s EXCEPT ![h] = @ \o s[g], ![g] = <<>>]

\* The end of h, from k on, goes behind the first element of g.
Split(s, h, k, g) ==
  LET n == IF s[g] = <<>> THEN 0 ELSE 1
      tail == SubSeq(s[h], k, Len(s[h]))
  IN [s EXCEPT ![h] = SubSeq(@, 1, k - 1),
               ![g] = SubSeq(@, 1, n) \o tail \o SubSeq(@, n + 1, Len(@))]

Clear(s, h) == [s EXCEPT ![h] = <<>>]

\* t is what one operation makes of s.
Step(s, t) ==
  \E h \in Lists :
    \/ \E k \in 1 .. Len(s[h]) + 1, e \in Free(s) : t = Insert(s, h, k, e)
    \/ \E k \in DOMAIN s[h] : t = Delete(s, h, k)
    \/ \E g \in Lists : \E k \in DOMAIN s[g], j \in 1 .. Len(s[h]) + 1 :
         j <= Len(s[h]) + (IF g = h THEN 0 ELSE 1) /\ t = Move(s, g, k, h, j)
    \/ \E g \in Lists \ {h} : t = Concat(s, h, g) \/ \E k \in DOMAIN s[h] : t = Split(s, h, k, g)
    \/ t = Clear(s, h)

Init == lists = [h \in Lists |-> <<>>]

\* One step; the sequences before and after it have names, so that each is
\* computed once.
Next == \E s \in {lists}, t \in {lists'} : Step(s, t)

Spec == Init /\ [][Next]_lists
=============================================================================
