---------------------------- MODULE IntrusiveList ----------------------------
(***************************************************************************)
(* cub::List: elements linked through pointers of their own into a ring    *)
(* with the head of the list, by the macros of apr_ring.h.                 *)
(*                                                                         *)
(* The head stands for the sentinel, the element the macros pretend it to  *)
(* be.  An element that was removed keeps its pointers.                    *)
(***************************************************************************)
EXTENDS Integers, Sequences, SequencesExt, FiniteSetsExt

CONSTANTS Lists, Elems,
          SizeModulus   \* an unsigned short counts the elements

ASSUME HeadsAreNoElems == Lists \cap Elems = {}
ASSUME ElemsAreFinite == IsFiniteSet(Lists \union Elems)
ASSUME SizeIsPositive == SizeModulus \in Nat \ {0}

VARIABLES
  ring,      \* next and prev of every node
  num,       \* List::num
  bypassed,  \* history: the lists changed by an operation that leaves num alone
  it,        \* an iterator: its list, elem, the next it fetched, and history: the
             \* elements it started with and those it has visited
  reverse    \* whether it is a ReverseIterator

lvars == <<ring, num, bypassed, it, reverse>>

Nodes == Lists \union Elems
NoIterator == [active |-> FALSE]

\* A sequence a .. b of nodes is spliced in before node p, pointer by pointer.
SpliceBefore(r, p, a, b) ==
  LET r1 == [r EXCEPT !.next[b] = p]
      r2 == [r1 EXCEPT !.prev[a] = r1.prev[p]]
      r3 == [r2 EXCEPT !.next[r2.prev[p]] = a]
  IN [r3 EXCEPT !.prev[p] = b]

SpliceAfter(r, p, a, b) ==
  LET r1 == [r EXCEPT !.prev[a] = p]
      r2 == [r1 EXCEPT !.next[b] = r1.next[p]]
      r3 == [r2 EXCEPT !.prev[r2.next[p]] = b]
  IN [r3 EXCEPT !.next[p] = a]

\* Mutant of Unsplice: only the way forward is closed.
UnspliceNext(r, a, b) == [r EXCEPT !.next[r.prev[a]] = r.next[b]]

Unsplice(r, a, b) == LET r1 == [r EXCEPT !.next[r.prev[a]] = r.next[b]]
                     IN [r1 EXCEPT !.prev[r1.next[b]] = r1.prev[a]]

FirstOf(r, h) == r.next[h]
LastLink(r, h) == r.prev[h]
IsEmpty(r, h) == FirstOf(r, h) = h

\* The elements of a list in order, by way of the pointers `by`; <<>> if they do
\* not lead back to the head.
Walk(by, h) ==
  LET at[k \in 0 .. Cardinality(Nodes)] == IF k = 0 THEN h ELSE by[at[k - 1]]
      back == {k \in DOMAIN at : k > 0 /\ at[k] = h}
  IN IF back = {} THEN <<>> ELSE [k \in 1 .. Min(back) - 1 |-> at[k]]

Contents == [h \in Lists |-> Walk(ring.next, h)]
Members(h) == ToSet(Contents[h])
Unlinked == Elems \ UNION {Members(h) : h \in Lists}

LinkCount(h, n) == num' = [num EXCEPT ![h] = (@ + n) % SizeModulus]
-----------------------------------------------------------------------------
LInit == /\ ring = [next |-> [x \in Nodes |-> x], prev |-> [x \in Nodes |-> x]]
         /\ num = [h \in Lists |-> 0]
         /\ bypassed = {}
         /\ it = NoIterator
         /\ reverse = FALSE

Unlooped == UNCHANGED <<bypassed, it, reverse>>

\* pushBack() and insertBefore(): the head is where pushBack() inserts.
InsertBefore(h, p, e) == /\ e \in Unlinked /\ p \in Members(h) \union {h}
                         /\ ring' = SpliceBefore(ring, p, e, e)
                         /\ LinkCount(h, 1)
                         /\ Unlooped

\* pushFront() and insertAfter()
InsertAfter(h, p, e) == /\ e \in Unlinked /\ p \in Members(h) \union {h}
                        /\ ring' = SpliceAfter(ring, p, e, e)
                        /\ LinkCount(h, 1)
                        /\ Unlooped

\* remove(), and popFront() for the first element
RemoveElem(h, e) == /\ e \in Members(h)
                    /\ ring' = Unsplice(ring, e, e)
                    /\ LinkCount(h, -1)
                    /\ Unlooped

\* ListElem::remove() does not know the list.
RemoveSelf(h, e) == /\ e \in Members(h)
                    /\ ring' = Unsplice(ring, e, e)
                    /\ bypassed' = bypassed \union {h}
                    /\ UNCHANGED <<num, it, reverse>>

\* moveTo(), moveToAfterSafe() and moveToBeforeSafe(), within a list
MoveAfter(h, p, e) == /\ e \in Members(h) /\ p \in (Members(h) \union {h}) \ {e}
                      /\ ring' = SpliceAfter(Unsplice(ring, e, e), p, e, e)
                      /\ UNCHANGED num /\ Unlooped

MoveBefore(h, p, e) == /\ e \in Members(h) /\ p \in (Members(h) \union {h}) \ {e}
                       /\ ring' = SpliceBefore(Unsplice(ring, e, e), p, e, e)
                       /\ UNCHANGED num /\ Unlooped

ConcatList(h, g) ==
  /\ g # h
  /\ ring' = IF IsEmpty(ring, g) THEN ring
             ELSE [SpliceBefore(ring, h, FirstOf(ring, g), LastLink(ring, g)) EXCEPT !.next[g] = g, !.prev[g] = g]
  /\ num' = [num EXCEPT ![h] = (@ + num[g]) % SizeModulus, ![g] = 0]
  /\ bypassed' = (IF g \in bypassed THEN bypassed \union {h} ELSE bypassed) \ {g}
  /\ UNCHANGED <<it, reverse>>

\* unsplice() moves the end of the list behind the first element of another one,
\* and leaves both counts as they were.
UnspliceTo(h, e, g) ==
  /\ g # h /\ e \in Members(h)
  /\ LET last == LastLink(ring, h)
         cut == Unsplice(ring, e, last)
     IN ring' = SpliceAfter(cut, FirstOf(cut, g), e, last)
  /\ bypassed' = bypassed \union {h, g}
  /\ UNCHANGED <<num, it, reverse>>

\* clear() pops the first element while there is one.
ClearList(h) ==
  /\ ring' = FoldLeft(LAMBDA r, e : Unsplice(r, e, e), ring, Contents[h])
  /\ LinkCount(h, -Len(Contents[h]))
  /\ Unlooped

\* An iterator fetches the next node when it reaches one.  It does not look at
\* the count, so that lists with a wrong one need no loops of their own.
Links == IF reverse THEN ring.prev ELSE ring.next

BeginAt(h, r) ==
  LET by == IF r THEN ring.prev ELSE ring.next
  IN /\ ~it.active /\ bypassed = {}
     /\ reverse' = r
     /\ it' = [list |-> h, active |-> TRUE, elem |-> by[h], next |-> by[by[h]],
               start |-> IF r THEN Reverse(Contents[h]) ELSE Contents[h], seen |-> <<>>]
     /\ UNCHANGED <<ring, num, bypassed>>

\* Mutant of Advance: the node after the current one is read too late.
AdvanceLate == /\ it.active /\ it.elem # it.list
               /\ it' = [it EXCEPT !.seen = Append(@, it.elem), !.elem = Links[it.elem], !.next = Links[Links[it.elem]]]
               /\ UNCHANGED <<ring, num, bypassed, reverse>>

Advance == /\ it.active /\ it.elem # it.list
           /\ it' = [it EXCEPT !.seen = Append(@, it.elem), !.elem = it.next, !.next = Links[it.next]]
           /\ UNCHANGED <<ring, num, bypassed, reverse>>

\* erase() of the element the loop is at, which may be linked elsewhere at once.
EraseCurrent(g) ==
  /\ it.active /\ it.elem \in Members(it.list)
  /\ LET cut == Unsplice(ring, it.elem, it.elem)
     IN \/ ring' = cut /\ LinkCount(it.list, -1)
        \/ /\ g # it.list
           /\ ring' = SpliceBefore(cut, g, it.elem, it.elem)
           /\ num' = [num EXCEPT ![it.list] = (@ - 1) % SizeModulus, ![g] = (@ + 1) % SizeModulus]
  /\ UNCHANGED <<bypassed, it, reverse>>

EndLoop == /\ it.active /\ it.elem = it.list
           /\ it' = NoIterator /\ reverse' = FALSE
           /\ UNCHANGED <<ring, num, bypassed>>

MutateElem(h, e) == \/ \E p \in Nodes : \/ InsertBefore(h, p, e) \/ InsertAfter(h, p, e)
                                        \/ MoveAfter(h, p, e) \/ MoveBefore(h, p, e)
                    \/ RemoveElem(h, e) \/ RemoveSelf(h, e)
                    \/ \E g \in Lists : UnspliceTo(h, e, g)

Mutate == \E h \in Lists :
            \/ \E e \in Elems : MutateElem(h, e)
            \/ \E g \in Lists : ConcatList(h, g)
            \/ ClearList(h)

LNext == \/ ~it.active /\ Mutate
         \/ \E h \in Lists, r \in BOOLEAN : BeginAt(h, r)
         \/ Advance \/ EndLoop
         \/ \E g \in Lists : EraseCurrent(g)

LSpec == LInit /\ [][LNext]_lvars
-----------------------------------------------------------------------------
Sequence == INSTANCE SequenceLists WITH lists <- Contents

\* The rings are lists, whatever order the pointers are written in: a step that
\* links or unlinks nodes does to the sequences what the operation says.
ImplementsSequences == Sequence!Spec

\* Back and forth lead through the same elements, and size() is how many there
\* are, unless the list was changed through one of its elements or by unsplice().
ListConsistent ==
  \A h \in Lists :
    /\ Walk(ring.prev, h) = Reverse(Contents[h])
    /\ h \notin bypassed => num[h] = Len(Contents[h]) % SizeModulus

\* A loop that erases the element it is at, or puts it into another list, still
\* visits the elements it began with, once, in order, and at its end all of them.
LoopVisitsAll == it.active => /\ IsPrefix(it.seen, it.start)
                              /\ it.elem = it.list => it.seen = it.start
=============================================================================
