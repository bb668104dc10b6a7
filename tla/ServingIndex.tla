---------------------------- MODULE ServingIndex ----------------------------
(***************************************************************************)
(* The index ServingStore publishes: every ready model under its version,  *)
(* and one model of each name under "earliest" and one under "latest".     *)
(*                                                                         *)
(* The models are put in order of name and version, and the ends of each   *)
(* run of equal names are found by looking at the neighbours.  A name is   *)
(* its rank in the order of strings.                                       *)
(***************************************************************************)
EXTENDS IntWidth, FiniteSets

CONSTANTS Names,        \* ranks of the model names
          Versions,     \* version numbers
          SpecVersions, \* 64-bit version numbers a request may carry
          None          \* no model

ASSUME NamesAreRanks == Names \subseteq Nat
ASSUME VersionsAreInt == Versions \subseteq -(Modulus \div 2) .. (Modulus \div 2) - 1
ASSUME NoneIsNoModel == None \notin Names \X Versions

Ids == Names \X Versions

VARIABLES ready,   \* the models that are ready
          index    \* the published map from requests to models

vars == <<ready, index>>

Specific(id) == [name |-> id[1], policy |-> "specific", version |-> id[2]]
Earliest(n) == [name |-> n, policy |-> "earliest", version |-> 0]
Latest(n) == [name |-> n, policy |-> "latest", version |-> 0]

\* What a client may ask: a version, an Int64Value that is stored in an int, a
\* label or nothing.
ModelSpec == [name : Names, choice : {"version"}, value : SpecVersions]
             \union [name : Names, choice : {"stable", "other label", "not set"}, value : {0}]

From(spec) ==
  CASE spec.choice = "version" -> Specific(<<spec.name, ToInt(spec.value)>>)
    [] spec.choice = "stable" -> Earliest(spec.name)
    [] OTHER -> Latest(spec.name)

Before(a, b) == a[1] < b[1] \/ (a[1] = b[1] /\ a[2] < b[2])

Sorted(models) ==
  [i \in 1 .. Cardinality(models) |->
     CHOOSE m \in models : Cardinality({x \in models : Before(x, m)}) = i - 1]

\* Mutant of IsBoundary: the first and the last model of all have no neighbour.
IsBoundaryInside(s, p, i) == p \in DOMAIN s /\ s[p][1] # s[i][1]

\* Is the model at i the first (or last) of its name, seen from position p?
IsBoundary(s, p, i) == p \notin DOMAIN s \/ s[p][1] # s[i][1]

\* The entries emplace() adds for the model at position i.
Entries(s, i) ==
  {<<Specific(s[i]), s[i]>>}
  \union {<<Earliest(s[i][1]), s[i]>> : p \in {q \in {i - 1} : IsBoundary(s, q, i)}}
  \union {<<Latest(s[i][1]), s[i]>> : p \in {q \in {i + 1} : IsBoundary(s, q, i)}}

Index(models) == LET s == Sorted(models) IN UNION {Entries(s, i) : i \in DOMAIN s}

\* ServingStore::find()
Lookup(idx, spec) == LET found == {e \in idx : e[1] = From(spec)} IN
                     IF found = {} THEN None ELSE (CHOOSE e \in found : TRUE)[2]
-----------------------------------------------------------------------------
Init == /\ ready = {}
        /\ index = {}

\* A model is loaded, or was unloaded, and ServingStore::update() follows.
Load(id) == /\ id \notin ready
            /\ ready' = ready \union {id}
            /\ index' = Index(ready')

Unload(id) == /\ id \in ready
              /\ ready' = ready \ {id}
              /\ index' = Index(ready')

Next == \E id \in Ids : Load(id) \/ Unload(id)

Spec == Init /\ [][Next]_vars
-----------------------------------------------------------------------------
ReadyVersions(n) == {id[2] : id \in {r \in ready : r[1] = n}}

\* A request that names no version, or a label, gets the ready version with
\* the greatest (or for "stable" the least) number, of its own name.
EndsAreServed ==
  \A spec \in ModelSpec :
    spec.choice # "version" =>
      LET vs == ReadyVersions(spec.name)
          ans == Lookup(index, spec)
      IN IF vs = {} THEN ans = None
         ELSE /\ ans \in ready /\ ans[1] = spec.name
              /\ \A v \in vs : IF spec.choice = "stable" THEN ans[2] <= v ELSE v <= ans[2]

\* A version that an int can hold is answered by that version or not at all.
SpecificIsExact ==
  \A spec \in ModelSpec :
    spec.choice = "version" /\ ToInt(spec.value) = spec.value =>
      LET id == <<spec.name, spec.value>>
      IN Lookup(index, spec) = IF id \in ready THEN id ELSE None

\* Both: every request for the newest, the oldest or a named version is answered
\* by exactly that model, after any loads and unloads.
IndexIsExact == EndsAreServed /\ SpecificIsExact
=============================================================================
