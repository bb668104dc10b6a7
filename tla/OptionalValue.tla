---------------------------- MODULE OptionalValue ----------------------------
(***************************************************************************)
(* cub::Optional: storage for one T inside the object, and a flag that     *)
(* says whether a T lives there.                                           *)
(*                                                                         *)
(* The flag and the storage are kept apart: a T lives in the storage from  *)
(* the end of its constructor to its destructor, whatever the flag says.   *)
(* To read, assign or destroy a T where none lives is undefined, and a     *)
(* behaviour ends there.                                                   *)
(***************************************************************************)
EXTENDS Integers

CONSTANTS Optionals,
          Values      \* what a T can be: integers, for the comparisons

ASSUME ValuesAreInt == Values \subseteq Int

VARIABLES
  box,       \* an Optional: whether it exists, its flag, its storage: {} or {T}
  held,      \* history: the value it was given, as a set of at most one
  thrown,    \* history: the ones in which a constructor of T has thrown
  misused    \* storage without a T was used as one

ovars == <<box, held, thrown, misused>>

NoOptional == [exists |-> FALSE, present |-> FALSE, storage |-> {}]
NilOptional == [NoOptional EXCEPT !.exists = TRUE]

Value(b) == CHOOSE v \in b.storage : TRUE
Broken(b) == b.present /\ b.storage = {}
-----------------------------------------------------------------------------
Construct(b, v) == [b EXCEPT !.present = TRUE, !.storage = {v}]

\* The flag is set before T's constructor, which throws.
ConstructThrows(b) == [b EXCEPT !.present = TRUE]

Destruct(b) == [b EXCEPT !.present = FALSE, !.storage = {}]
Clear(b) == IF b.present THEN Destruct(b) ELSE b

AssignTo(b, v) == IF b.present THEN [b EXCEPT !.storage = {v}] ELSE Construct(b, v)

\* What a T that was moved from is then, is its own affair.
Left(b, v) == IF b.present THEN [b EXCEPT !.storage = {v}] ELSE b

\* An operation that uses the given Optionals.
UsesBoxes(used, becomes, holds) ==
  /\ ~misused
  /\ UNCHANGED thrown
  /\ IF \E o \in used : Broken(box[o]) THEN misused' = TRUE /\ UNCHANGED <<box, held>>
     ELSE box' = becomes /\ held' = holds /\ UNCHANGED misused
-----------------------------------------------------------------------------
OptInit == /\ box = [o \in Optionals |-> NoOptional]
           /\ held = [o \in Optionals |-> {}]
           /\ thrown = {}
           /\ misused = FALSE

MakeNil(o) == /\ ~box[o].exists
              /\ UsesBoxes({}, [box EXCEPT ![o] = NilOptional], held)

\* From a T, or from the arguments of T's constructor.
MakeFrom(o, v) == /\ ~box[o].exists
                  /\ UsesBoxes({}, [box EXCEPT ![o] = Construct(NilOptional, v)], [held EXCEPT ![o] = {v}])

MakeCopy(o, p) ==
  /\ ~box[o].exists /\ box[p].exists
  /\ UsesBoxes({p}, [box EXCEPT ![o] = IF box[p].present THEN Construct(NilOptional, Value(box[p])) ELSE NilOptional],
               [held EXCEPT ![o] = held[p]])

MakeMove(o, p, v) ==
  /\ ~box[o].exists /\ box[p].exists
  /\ UsesBoxes({p}, [box EXCEPT ![o] = IF box[p].present THEN Construct(NilOptional, Value(box[p])) ELSE NilOptional,
                                ![p] = Left(@, v)],
               [held EXCEPT ![o] = held[p], ![p] = IF @ = {} THEN {} ELSE {v}])

DestroyBox(o) == /\ box[o].exists
                 /\ UsesBoxes({o}, [box EXCEPT ![o] = [Clear(@) EXCEPT !.exists = FALSE]], [held EXCEPT ![o] = {}])

AssignNil(o) == /\ box[o].exists
                /\ UsesBoxes({o}, [box EXCEPT ![o] = Clear(@)], [held EXCEPT ![o] = {}])

AssignValue(o, v) == /\ box[o].exists
                     /\ UsesBoxes({o}, [box EXCEPT ![o] = AssignTo(@, v)], [held EXCEPT ![o] = {v}])

AssignCopy(o, p) ==
  /\ box[o].exists /\ box[p].exists
  /\ UsesBoxes({o, p}, [box EXCEPT ![o] = IF box[p].present THEN AssignTo(@, Value(box[p])) ELSE Clear(@)],
               [held EXCEPT ![o] = held[p]])

AssignMove(o, p, v) ==
  /\ o # p /\ box[o].exists /\ box[p].exists
  /\ UsesBoxes({o, p}, [box EXCEPT ![o] = IF box[p].present THEN AssignTo(@, Value(box[p])) ELSE Clear(@),
                                   ![p] = Left(@, v)],
               [held EXCEPT ![o] = held[p], ![p] = IF @ = {} THEN {} ELSE {v}])

Emplace(o, v) == /\ box[o].exists
                 /\ UsesBoxes({o}, [box EXCEPT ![o] = Construct(Clear(@), v)], [held EXCEPT ![o] = {v}])

\* Two Ts are swapped; one T is moved over, and what is left of it destroyed.
Swap(o, p) ==
  LET mine == box[o]
      other == box[p]
  IN /\ o # p /\ mine.exists /\ other.exists
     /\ UsesBoxes({o, p},
                  CASE mine.present /\ other.present -> [box EXCEPT ![o] = AssignTo(mine, Value(other)),
                                                                    ![p] = AssignTo(other, Value(mine))]
                    [] mine.present /\ ~other.present -> [box EXCEPT ![p] = Construct(other, Value(mine)),
                                                                     ![o] = Destruct(mine)]
                    [] ~mine.present /\ other.present -> [box EXCEPT ![o] = Construct(mine, Value(other)),
                                                                     ![p] = Destruct(other)]
                    [] OTHER -> box,
                  [held EXCEPT ![o] = held[p], ![p] = held[o]])

\* T's constructor throws in emplace(), in an assignment to an Optional without a
\* T, or in swap(): the Optional lives on.  One that throws in a constructor of
\* Optional leaves none, and one that throws in a move ends the program.
Throws(o) == /\ ~misused /\ box[o].exists /\ ~Broken(box[o])
             /\ box' = [box EXCEPT ![o] = ConstructThrows(Clear(@))]
             /\ held' = [held EXCEPT ![o] = {}]
             /\ thrown' = thrown \union {o}
             /\ UNCHANGED misused

OptNext == \E o \in Optionals :
             \/ MakeNil(o) \/ DestroyBox(o) \/ AssignNil(o) \/ Throws(o)
             \/ \E v \in Values : MakeFrom(o, v) \/ AssignValue(o, v) \/ Emplace(o, v)
             \/ \E p \in Optionals : MakeCopy(o, p) \/ AssignCopy(o, p) \/ Swap(o, p)
             \/ \E p \in Optionals, v \in Values : MakeMove(o, p, v) \/ AssignMove(o, p, v)

OptSpec == OptInit /\ [][OptNext]_ovars
-----------------------------------------------------------------------------
(* The comparisons. *)
Equal(x, y) == \/ ~x.present /\ ~y.present
               \/ x.present /\ y.present /\ Value(x) = Value(y)
LessThan(x, y) == y.present /\ (~x.present \/ Value(x) < Value(y))
AtMost(x, y) == ~LessThan(y, x)

EqualNil(x) == ~x.present
NilLess(y) == y.present
AtMostNil(x) == ~x.present

EqualValue(x, v) == x.present /\ Value(x) = v
LessValue(x, v) == x.present => Value(x) < v
ValueLess(v, y) == y.present /\ v < Value(y)
AtMostValue(x, v) == ~ValueLess(v, x)
ValueAtMost(v, y) == ~LessValue(y, v)

\* No value is below every value.
Below(s, t) == t # {} /\ \A v \in s, w \in t : v < w

\* An Optional that no constructor has thrown in holds what it was given, and its
\* flag says so; a T that does not live is never used; and the comparisons
\* of Optionals with each other, with nothing and with values are one order.
OptionalsHold ==
  LET Sound == {o \in Optionals : box[o].exists /\ o \notin thrown}
  IN /\ misused => thrown # {}
     /\ \A o \in Optionals \ thrown : box[o].storage = held[o] /\ (box[o].present <=> held[o] # {})
     /\ \A o \in Sound :
          /\ \A p \in Sound : /\ Equal(box[o], box[p]) <=> held[o] = held[p]
                              /\ LessThan(box[o], box[p]) <=> Below(held[o], held[p])
                              /\ AtMost(box[o], box[p]) <=> LessThan(box[o], box[p]) \/ Equal(box[o], box[p])
          /\ EqualNil(box[o]) <=> Equal(box[o], NilOptional)
          /\ NilLess(box[o]) <=> LessThan(NilOptional, box[o])
          /\ AtMostNil(box[o]) <=> AtMost(box[o], NilOptional)
          /\ \A v \in Values :
               LET b == Construct(NilOptional, v)
               IN /\ EqualValue(box[o], v) <=> Equal(box[o], b)
                  /\ LessValue(box[o], v) <=> LessThan(box[o], b)
                  /\ ValueLess(v, box[o]) <=> LessThan(b, box[o])
                  /\ AtMostValue(box[o], v) <=> AtMost(box[o], b)
                  /\ ValueAtMost(v, box[o]) <=> AtMost(b, box[o])
=============================================================================
