---------------------------- MODULE VersionSelect ----------------------------
(***************************************************************************)
(* How the storage loop turns the directories of a model into the versions *)
(* of a stream: VersionSelector::visit() and VersionList::select().        *)
(*                                                                         *)
(* A directory is a value and a spelling ("1", "01"): to_uint32() reads    *)
(* both as the same number, and VersionList keeps it in an int.            *)
(***************************************************************************)
EXTENDS IntWidth, Sequences, SequencesExt, FiniteSets

CONSTANTS Directories,   \* pairs of a 32-bit number and a spelling
          NamedVersions, \* 64-bit versions a specific policy may name
          MaxNum         \* bound on Latest.num_versions

ASSUME DirectoriesAreUint32 == \A d \in Directories : d[1] \in 0 .. Modulus - 1
ASSUME MaxNumNat == MaxNum \in Nat

VARIABLES seen,      \* directories children() has visited
          versions,  \* VersionList::versions of the selector
          policy,    \* the version policy of the model, once it is applied
          selected   \* the version list of the stream

vvars == <<seen, versions, policy, selected>>

NoPolicy == [choice |-> "pending"]
Policy == [choice : {"not_set", "all", "none"}]
          \union [choice : {"latest"}, num : 0 .. MaxNum]
          \union [choice : {"specific"}, named : SUBSET NamedVersions]

Ordered(list) == \A i, j \in DOMAIN list : i < j => list[i] <= list[j]

\* std::sort(): the same list in another order.
Sort(list) ==
  LET order == CHOOSE p \in Bijection(DOMAIN list, DOMAIN list) : Ordered([i \in DOMAIN list |-> list[p[i]]])
  IN [i \in DOMAIN list |-> list[order[i]]]

\* VersionList::add() sorts after every insertion.
Add(list, v) == Sort(Append(list, v))

\* Mutant of Num: max(num_versions, 0).
NumOrZero(p) == IF p.choice = "not_set" THEN 0 ELSE p.num

\* max(num_versions, 1): an unset policy has zero.
Num(p) == IF p.choice = "not_set" \/ p.num < 1 THEN 1 ELSE p.num

NewestFirst(list, max) == IF Len(list) < max THEN list
                          ELSE SubSeq(list, Len(list) - max + 1, Len(list))

SpecificOnly(list, named) ==
  FoldLeft(LAMBDA found, v : IF v \in {ToInt(n) : n \in named} THEN Add(found, v) ELSE found, <<>>, list)

SelectVersions(list, p) ==
  CASE p.choice \in {"not_set", "latest"} -> NewestFirst(list, Num(p))
    [] p.choice = "all" -> list
    [] p.choice = "specific" -> SpecificOnly(list, p.named)
    [] p.choice = "none" -> <<>>
-----------------------------------------------------------------------------
VInit == /\ seen = {}
         /\ versions = <<>>
         /\ policy = NoPolicy
         /\ selected = <<>>

\* children() visits the directories in the order readdir() has them.
Visit(d) == /\ policy = NoPolicy
            /\ d \notin seen
            /\ seen' = seen \union {d}
            /\ versions' = Add(versions, ToInt(d[1]))
            /\ UNCHANGED <<policy, selected>>

Select(p) == /\ policy = NoPolicy
             /\ policy' = p
             /\ selected' = SelectVersions(versions, p)
             /\ UNCHANGED <<seen, versions>>

VNext == (\E d \in Directories : Visit(d)) \/ (\E p \in Policy : Select(p))

VSpec == VInit /\ [][VNext]_vvars
-----------------------------------------------------------------------------
Found == {ToInt(d[1]) : d \in seen}
Selected == ToSet(selected)
Alike(d, e) == d[1] = e[1]

\* The latest versions are the newest there are: one that is left out is older
\* than all that are taken, at least one is taken if there is any, and as many
\* as the policy says unless two directories spell the same number.
LatestIsNewest ==
  policy.choice \in {"not_set", "latest"} =>
    LET wanted == IF policy.choice = "latest" /\ policy.num > 0 THEN policy.num ELSE 1 IN
    /\ Selected \subseteq Found
    /\ \A v \in Selected, w \in Found \ Selected : w < v
    /\ Found # {} => Selected # {}
    /\ Cardinality(Selected) <= wanted
    /\ (\A d, e \in seen : Alike(d, e) => d = e) =>
         Cardinality(Selected) = IF Cardinality(Found) < wanted THEN Cardinality(Found) ELSE wanted

\* A specific policy serves exactly the versions it names that exist; a
\* version an int cannot hold names another one.
SpecificServesNamed ==
  policy.choice = "specific" /\ (\A n \in policy.named : ToInt(n) = n) =>
    Selected = policy.named \intersect Found

\* What is chosen of the versions of a model: the policies select the newest
\* ones and the ones they name.
SelectionIsExact == LatestIsNewest /\ SpecificServesNamed
=============================================================================
