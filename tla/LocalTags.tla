----------------------------- MODULE LocalTags -----------------------------
(***************************************************************************)
(* Nuvrion's own tags on resources: what a request may ask and what it     *)
(* changes (tag-rules.js), and the local store that does each request in   *)
(* one step (TagService).  ResourceTags is the store in PostgreSQL.        *)
(*                                                                         *)
(* A key is what a person may type; Plain gives the key it stands for.     *)
(***************************************************************************)
EXTENDS Integers, FiniteSets, Functions

CONSTANTS
  Resources,
  TypedKeys,      \* keys as they may be typed ...
  Plain,          \* ... [TypedKeys -> key], after trim and toLowerCase
  Reserved,       \* keys that start with a reserved prefix, or that KEY does not match
  TagValues,
  Asked,          \* what requests ask: [resources, set, remove]
  PerResource     \* TAG_LIMITS.perResource

ASSUME LocalTagsAssumption ==
  /\ PerResource \in Nat \ {0}
  /\ DOMAIN Plain = TypedKeys /\ IsFiniteSet(Range(Plain))   \* keyLength bounds their length
  /\ Asked \subseteq [resources : SUBSET Resources \ {{}}, set : SUBSET [key : TypedKeys, value : TagValues], remove : SUBSET TypedKeys]

VARIABLE tags   \* of each resource, a function from its keys to values

-----------------------------------------------------------------------------
(***************************************************************************)
(* parseTagOperation: what may be asked is a set of tags to set, as typed, *)
(* and a set of typed keys to remove.                                      *)
(***************************************************************************)
TagKeys == Range(Plain) \ Reserved

Acceptable(set, remove) ==
  /\ set # {} \/ remove # {}
  /\ \A k \in { s.key : s \in set } \cup remove : Plain[k] \notin Reserved
  /\ \A s, t \in set : Plain[s.key] = Plain[t.key] => s = t          \* set twice
  /\ \A s \in set, k \in remove : Plain[s.key] # Plain[k]            \* both set and removed

Setting(set) ==
  [ k \in { Plain[s.key] : s \in set } |-> (CHOOSE s \in set : Plain[s.key] = k).value ]

-----------------------------------------------------------------------------
(***************************************************************************)
(* planTagChanges                                                          *)
(***************************************************************************)
Changed(before, o) ==
  LET setting == Setting(o.set)
      removed == { Plain[k] : k \in o.remove }
  IN  [ k \in (DOMAIN before \cup DOMAIN setting) \ removed |->
          IF k \in DOMAIN setting THEN setting[k] ELSE before[k] ]

PlanOf(existing, o) == [ r \in o.resources |-> Changed(existing[r], o) ]
OverTheLimit(plan)  == \E r \in DOMAIN plan : Cardinality(DOMAIN plan[r]) > PerResource

-----------------------------------------------------------------------------
(***************************************************************************)
(* TagService                                                              *)
(***************************************************************************)
NoTags == <<>>

LocalTagsInit == tags = [r \in Resources |-> NoTags]

\* All or nothing; `gone` are resources removed after the route has looked at them.
Applied(o, gone) ==
  LET plan == PlanOf(tags, o) IN
  /\ Acceptable(o.set, o.remove) /\ ~OverTheLimit(plan)
  /\ \A r \in gone : tags[r] = NoTags
  /\ tags' = [r \in Resources |-> IF r \in o.resources \ gone THEN plan[r] ELSE tags[r]]

\* A resource that no longer exists.
Forgotten(r) == tags' = [tags EXCEPT ![r] = NoTags]

LocalTagsNext == (\E o \in Asked : \E gone \in SUBSET o.resources : Applied(o, gone)) \/ (\E r \in Resources : Forgotten(r))

LocalTagsSpec == LocalTagsInit /\ [][LocalTagsNext]_tags
=============================================================================
