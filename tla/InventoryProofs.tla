--------------------------- MODULE InventoryProofs ---------------------------
(***************************************************************************)
(* The stores of tags and of saved views in the database implement the     *)
(* local stores that do each request in one step, for any resources, keys, *)
(* people, requests and bounds.                                            *)
(*                                                                         *)
(* Tags: the advisory lock keeps the tags of the resources that are still  *)
(* there as they were read (ReadsStand), so the plan is what the local     *)
(* store would do now; a resource that went in between has none, and its   *)
(* plan is dropped with it.                                                *)
(*                                                                         *)
(* Views: the lock of one person keeps the count that an INSERT relies on  *)
(* (RoomIsLeft); what a change relies on is in its UPDATE.                 *)
(***************************************************************************)
EXTENDS ResourceTags, SavedViews, FiniteSetTheorems, TLAPS

-----------------------------------------------------------------------------
(***************************************************************************)
(* Tags                                                                    *)
(***************************************************************************)
TagSets == UNION { [D -> TagValues] : D \in SUBSET TagKeys }
AllTags == [Resources -> TagSets]
TagPlans == UNION { [R -> TagSets] : R \in SUBSET Resources }
Taggings == [at : {"idle", "asked", "writing"}, asks : Asked \cup {None},
             before : AllTags \cup {None}, plan : TagPlans \cup {None}]

TagsTyped ==
  /\ tags \in AllTags /\ known \subseteq Resources
  /\ tagging \in [TagRequests -> Taggings] /\ tagLock \in TagRequests \cup {None}

\* What a request asks may be asked; who writes holds the lock, has planned by what it read, and
\* what it read of the resources that are still there is what they have.
ReadsStand ==
  \A q \in TagRequests :
    /\ tagging[q].at # "idle" => tagging[q].asks \in Asked /\ Acceptable(tagging[q].asks.set, tagging[q].asks.remove)
    /\ tagging[q].at = "writing" =>
         /\ tagLock = q
         /\ tagging[q].before \in AllTags /\ tagging[q].plan = PlanOf(tagging[q].before, tagging[q].asks)
         /\ \A r \in known : tagging[q].before[r] = tags[r]

GoneHaveNone == \A r \in Resources \ known : tags[r] = NoTags

TagsInv == TagsTyped /\ ReadsStand /\ GoneHaveNone

LEMMA NoTagsTyped == NoTags \in TagSets /\ DOMAIN NoTags = {}
<1>1. NoTags = [k \in {} |-> k] /\ DOMAIN NoTags = {}
  BY DEF NoTags
<1>2. NoTags \in [{} -> TagValues]
  BY <1>1
<1>3. QED
  BY <1>1, <1>2 DEF TagSets

\* What a request makes of a resource's tags are tags.
LEMMA ChangedTyped ==
  ASSUME NEW o \in Asked, Acceptable(o.set, o.remove), NEW before \in TagSets
  PROVE  Changed(before, o) \in TagSets
<1> USE LocalTagsAssumption DEF LocalTagsAssumption
<1> DEFINE keys == { Plain[s.key] : s \in o.set }
           removed == { Plain[k] : k \in o.remove }
           D == (DOMAIN before \cup keys) \ removed
<1>1. /\ o.set \subseteq [key : TypedKeys, value : TagValues] /\ o.remove \subseteq TypedKeys
  OBVIOUS
<1>2. PICK B \in SUBSET TagKeys : before \in [B -> TagValues]
  BY DEF TagSets
<1>3. Setting(o.set) = [k \in keys |-> (CHOOSE s \in o.set : Plain[s.key] = k).value]
  BY DEF Setting
<1>4. \A k \in keys : Setting(o.set)[k] \in TagValues
  <2> SUFFICES ASSUME NEW k \in keys PROVE (CHOOSE s \in o.set : Plain[s.key] = k).value \in TagValues
    BY <1>3
  <2>1. \E s \in o.set : Plain[s.key] = k
    OBVIOUS
  <2>2. (CHOOSE s \in o.set : Plain[s.key] = k) \in o.set
    BY <2>1
  <2>3. QED
    BY <1>1, <2>2
<1>5. keys \subseteq TagKeys
  <2> SUFFICES ASSUME NEW s \in o.set PROVE Plain[s.key] \in TagKeys
    OBVIOUS
  <2>1. s.key \in DOMAIN Plain
    BY <1>1
  <2>2. Plain[s.key] \notin Reserved
    BY DEF Acceptable
  <2>3. QED
    BY <2>1, <2>2 DEF TagKeys, Range
<1>6. DOMAIN Setting(o.set) = keys
  BY <1>3
<1>7. Changed(before, o) = [k \in D |-> IF k \in keys THEN Setting(o.set)[k] ELSE before[k]]
  BY <1>6 DEF Changed
<1>8. D \in SUBSET TagKeys
  BY <1>2, <1>5
<1>9. \A k \in D : (IF k \in keys THEN Setting(o.set)[k] ELSE before[k]) \in TagValues
  BY <1>2, <1>4
<1> HIDE DEF D, keys
<1>10. Changed(before, o) \in [D -> TagValues]
  BY <1>7, <1>9
<1>11. QED
  BY <1>8, <1>10 DEF TagSets

LEMMA PlanTyped ==
  ASSUME NEW o \in Asked, Acceptable(o.set, o.remove), NEW before \in AllTags
  PROVE  PlanOf(before, o) \in TagPlans /\ DOMAIN PlanOf(before, o) = o.resources
<1>1. o.resources \in SUBSET Resources
  BY LocalTagsAssumption DEF LocalTagsAssumption
<1>2. \A r \in o.resources : Changed(before[r], o) \in TagSets
  BY <1>1, ChangedTyped DEF AllTags
<1>3. PlanOf(before, o) \in [o.resources -> TagSets]
  BY <1>2 DEF PlanOf
<1>4. QED
  BY <1>1, <1>3 DEF TagPlans

LEMMA TagsInitInv == TagsInit => TagsInv
<1> SUFFICES ASSUME TagsInit PROVE TagsInv
  OBVIOUS
<1>1. NoTagging \in Taggings /\ NoTagging.at = "idle"
  BY DEF NoTagging, Taggings
<1>2. TagsTyped
  BY <1>1, NoTagsTyped DEF TagsInit, LocalTagsInit, TagsTyped, AllTags
<1>3. ReadsStand /\ GoneHaveNone
  BY <1>1 DEF TagsInit, ReadsStand, GoneHaveNone
<1>4. QED
  BY <1>2, <1>3 DEF TagsInv

LEMMA TagsAskedInv ==
  ASSUME TagsInv, NEW q \in TagRequests, TagsAsked(q)
  PROVE  TagsInv'
<1> USE DEF TagsInv
<1>1. PICK o \in Asked :
        /\ Acceptable(o.set, o.remove)
        /\ tagging' = [tagging EXCEPT ![q] = [NoTagging EXCEPT !.at = "asked", !.asks = o]]
  BY DEF TagsAsked
<1> DEFINE x == [NoTagging EXCEPT !.at = "asked", !.asks = o]
<1>2. x \in Taggings /\ x.at = "asked" /\ x.asks = o
  BY DEF NoTagging, Taggings
<1>3. tagging' = [tagging EXCEPT ![q] = x] /\ UNCHANGED <<tags, known, tagLock>>
  BY <1>1 DEF TagsAsked
<1> HIDE DEF x
<1>4. TagsTyped'
  BY <1>2, <1>3 DEF TagsTyped
<1>5. ReadsStand' /\ GoneHaveNone'
  BY <1>1, <1>2, <1>3 DEF TagsTyped, ReadsStand, GoneHaveNone
<1>6. QED
  BY <1>4, <1>5

LEMMA ReadsTagsInv ==
  ASSUME TagsInv, NEW q \in TagRequests, ReadsTags(q)
  PROVE  TagsInv'
<1> USE DEF TagsInv
<1> DEFINE o == tagging[q].asks
           x == [tagging[q] EXCEPT !.at = "writing", !.before = tags, !.plan = PlanOf(tags, o)]
<1>1. tagging[q] \in Taggings /\ o \in Asked /\ Acceptable(o.set, o.remove) /\ tagLock = None /\ tags \in AllTags
  BY DEF ReadsTags, ReadsStand, TagsTyped
<1>2. PlanOf(tags, o) \in TagPlans
  BY <1>1, PlanTyped
<1> DEFINE p == PlanOf(tags, o)
<1> HIDE DEF p, o
<1>3. /\ x \in Taggings /\ x.at = "writing" /\ x.asks = o /\ x.before = tags /\ x.plan = p
  BY <1>1, <1>2 DEF Taggings, p, o
<1>4. tagging' = [tagging EXCEPT ![q] = x] /\ tagLock' = q /\ UNCHANGED <<tags, known>>
  BY DEF ReadsTags, TagsTyped, p, o
<1> HIDE DEF x
<1>5. TagsTyped'
  BY <1>3, <1>4 DEF TagsTyped
<1>6. ReadsStand'
  <2> SUFFICES ASSUME NEW d \in TagRequests
               PROVE  /\ tagging'[d].at # "idle" => tagging'[d].asks \in Asked /\ Acceptable(tagging'[d].asks.set, tagging'[d].asks.remove)
                      /\ tagging'[d].at = "writing" =>
                           /\ tagLock' = d
                           /\ tagging'[d].before \in AllTags
                           /\ tagging'[d].plan = PlanOf(tagging'[d].before, tagging'[d].asks)
                           /\ \A r \in known' : tagging'[d].before[r] = tags'[r]
    BY DEF ReadsStand
  <2>1. CASE d = q
    <3>1. tagging'[d] = x
      BY <1>4, <2>1 DEF TagsTyped
    <3>2. x.plan = PlanOf(x.before, x.asks)
      BY <1>3 DEF p
    <3>3. QED
      BY <1>1, <1>3, <1>4, <2>1, <3>1, <3>2
  <2>2. CASE d # q
    <3>1. tagging'[d] = tagging[d]
      BY <1>4, <2>2 DEF TagsTyped
    <3>2. tagging[d].at # "writing"
      BY <1>1, ResourceTagsAssumption DEF ResourceTagsAssumption, ReadsStand
    <3>3. QED
      BY <3>1, <3>2 DEF ReadsStand
  <2>3. QED
    BY <2>1, <2>2
<1>7. GoneHaveNone'
  BY <1>4 DEF GoneHaveNone
<1>8. QED
  BY <1>5, <1>6, <1>7

LEMMA ReleasesInv ==
  ASSUME TagsInv, NEW q \in TagRequests, tagging[q].at = "writing", Releases(q), UNCHANGED known,
         tags' \in AllTags, GoneHaveNone'
  PROVE  TagsInv'
<1> USE DEF TagsInv
<1>1. NoTagging \in Taggings /\ NoTagging.at = "idle"
  BY DEF NoTagging, Taggings
<1>2. tagging' = [tagging EXCEPT ![q] = NoTagging] /\ tagLock' = None
  BY DEF Releases, ReadsStand
<1>3. TagsTyped'
  BY <1>1, <1>2 DEF TagsTyped
<1>4. \A d \in TagRequests : d # q => tagging'[d] = tagging[d] /\ tagging[d].at # "writing"
  BY <1>2 DEF TagsTyped, ReadsStand
<1>5. ReadsStand'
  BY <1>1, <1>2, <1>4 DEF ReadsStand, TagsTyped
<1>6. QED
  BY <1>3, <1>5

\* The statements of a transaction write what the plan says of the resources that are there.
LEMMA WritesThePlan ==
  ASSUME TagsInv, NEW q \in TagRequests, WritesTags(q)
  PROVE  LET o == tagging[q].asks IN
         tags' = [r \in Resources |-> IF r \in o.resources \cap known THEN PlanOf(tags, o)[r] ELSE tags[r]]
<1> USE DEF TagsInv
<1> DEFINE o == tagging[q].asks
           b == tagging[q].before
           p == tagging[q].plan
           Now(r) == IF r \notin DOMAIN p \cap known THEN tags[r]
                     ELSE [ k \in (DOMAIN tags[r] \ Deleted(q, r)) \cup Upserted(q, r) |->
                              IF k \in Upserted(q, r) THEN p[r][k] ELSE tags[r][k] ]
<1>1. /\ o \in Asked /\ Acceptable(o.set, o.remove) /\ b \in AllTags /\ p = PlanOf(b, o)
      /\ \A r \in known : b[r] = tags[r]
  BY DEF WritesTags, ReadsStand
<1>2. DOMAIN p = o.resources
  BY <1>1, PlanTyped
<1>3. tags' = [r \in Resources |-> Now(r)]
  BY DEF WritesTags
<1>4. ASSUME NEW r \in o.resources \cap known
      PROVE  Now(r) = PlanOf(tags, o)[r]
  <2>1. p[r] = Changed(tags[r], o) /\ PlanOf(tags, o)[r] = Changed(tags[r], o) /\ b[r] = tags[r]
    BY <1>1 DEF PlanOf
  <2> DEFINE P == DOMAIN p[r]
             D == DOMAIN tags[r]
             U == Upserted(q, r)
             X == (D \ Deleted(q, r)) \cup U
  <2>2. U = {k \in P : k \in D => tags[r][k] # p[r][k]} /\ Deleted(q, r) = D \ P
    BY <2>1 DEF Upserted, Deleted
  <2>3. X = P
    BY <2>2
  <2>4. Now(r) = [k \in X |-> IF k \in U THEN p[r][k] ELSE tags[r][k]]
    BY <1>2
  <2>5. \A k \in P : (IF k \in U THEN p[r][k] ELSE tags[r][k]) = p[r][k]
    BY <2>2
  <2>6. p[r] = [k \in P |-> p[r][k]]
    BY <2>1 DEF Changed
  <2> HIDE DEF P, D, U, X, Now
  <2>7. Now(r) = [k \in P |-> p[r][k]]
    BY <2>3, <2>4, <2>5
  <2>8. QED
    BY <2>1, <2>6, <2>7
<1>5. \A r \in Resources : r \notin o.resources \cap known => Now(r) = tags[r]
  BY <1>2
<1> HIDE DEF Now
<1>6. QED
  BY <1>3, <1>4, <1>5

LEMMA WritesTagsInv ==
  ASSUME TagsInv, NEW q \in TagRequests, WritesTags(q)
  PROVE  TagsInv'
<1> USE DEF TagsInv
<1> DEFINE o == tagging[q].asks
<1>1. /\ o \in Asked /\ Acceptable(o.set, o.remove) /\ tagging[q].at = "writing" /\ Releases(q) /\ UNCHANGED known
      /\ tags \in AllTags
  BY DEF WritesTags, ReadsStand, TagsTyped
<1>2. tags' = [r \in Resources |-> IF r \in o.resources \cap known THEN PlanOf(tags, o)[r] ELSE tags[r]]
  BY WritesThePlan
<1>3. \A r \in o.resources : PlanOf(tags, o)[r] \in TagSets
  BY <1>1, PlanTyped DEF TagPlans
<1> HIDE DEF o
<1>4. tags' \in AllTags
  BY <1>1, <1>2, <1>3 DEF AllTags
<1>5. GoneHaveNone'
  BY <1>1, <1>2 DEF GoneHaveNone
<1> HIDE DEF TagsInv
<1>6. QED
  BY <1>1, <1>4, <1>5, ReleasesInv

LEMMA RemovedInv ==
  ASSUME TagsInv, NEW r \in Resources, Removed(r)
  PROVE  TagsInv'
<1> USE DEF TagsInv
<1>1. /\ known' = known \ {r} /\ tags' = [tags EXCEPT ![r] = NoTags] /\ UNCHANGED <<tagging, tagLock>>
      /\ tags \in AllTags
  BY DEF Removed, TagsTyped
<1>2. TagsTyped'
  BY <1>1, NoTagsTyped DEF TagsTyped, AllTags
<1>3. ReadsStand'
  BY <1>1 DEF ReadsStand, TagsTyped
<1>4. GoneHaveNone'
  BY <1>1 DEF GoneHaveNone, AllTags
<1>5. QED
  BY <1>2, <1>3, <1>4

LEMMA TagsStepInv == TagsInv /\ [TagsNext]_tagVars => TagsInv'
<1> SUFFICES ASSUME TagsInv, [TagsNext]_tagVars PROVE TagsInv'
  OBVIOUS
<1>1. ASSUME NEW q \in TagRequests, TagsRollBack(q) PROVE TagsInv'
  <2>1. tags' \in AllTags /\ GoneHaveNone'
    BY <1>1 DEF TagsRollBack, TagsInv, TagsTyped, GoneHaveNone
  <2>2. QED
    BY <1>1, <2>1, ReleasesInv DEF TagsRollBack
<1>2. CASE UNCHANGED tagVars
  BY <1>2 DEF TagsInv, TagsTyped, ReadsStand, GoneHaveNone, tagVars
<1>3. QED
  BY <1>1, <1>2, TagsAskedInv, ReadsTagsInv, WritesTagsInv, RemovedInv DEF TagsNext

\* A plan that is not over the limit is not over it either where some of the resources have lost their tags.
LEMMA LimitHolds ==
  ASSUME NEW o \in Asked, Acceptable(o.set, o.remove), NEW before \in AllTags,
         NEW now \in AllTags,
         \A r \in o.resources : now[r] = before[r] \/ now[r] = NoTags,
         ~OverTheLimit(PlanOf(before, o))
  PROVE  ~OverTheLimit(PlanOf(now, o))
<1>1. o.resources \subseteq Resources /\ DOMAIN PlanOf(before, o) = o.resources /\ DOMAIN PlanOf(now, o) = o.resources
  BY LocalTagsAssumption DEF LocalTagsAssumption, PlanOf
<1> SUFFICES ASSUME NEW r \in o.resources PROVE ~(Cardinality(DOMAIN PlanOf(now, o)[r]) > PerResource)
  BY <1>1 DEF OverTheLimit
<1>2. PlanOf(now, o)[r] = Changed(now[r], o) /\ PlanOf(before, o)[r] = Changed(before[r], o)
  BY DEF PlanOf
<1>3. DOMAIN Changed(now[r], o) \subseteq DOMAIN Changed(before[r], o)
  <2>1. DOMAIN now[r] \subseteq DOMAIN before[r]
    BY NoTagsTyped
  <2>2. QED
    BY <2>1 DEF Changed
<1>4. IsFiniteSet(DOMAIN Changed(before[r], o))
  <2>1. Changed(before[r], o) \in TagSets
    BY <1>1, ChangedTyped DEF AllTags
  <2>2. PICK D \in SUBSET TagKeys : Changed(before[r], o) \in [D -> TagValues]
    BY <2>1 DEF TagSets
  <2>3. D \in SUBSET Range(Plain)
    BY DEF TagKeys
  <2>4. IsFiniteSet(D)
    BY <2>3, FS_Subset, LocalTagsAssumption DEF LocalTagsAssumption
  <2>5. DOMAIN Changed(before[r], o) = D
    BY <2>2
  <2>6. QED
    BY <2>4, <2>5
<1>5. /\ Cardinality(DOMAIN Changed(now[r], o)) <= Cardinality(DOMAIN Changed(before[r], o))
      /\ Cardinality(DOMAIN Changed(now[r], o)) \in Nat /\ Cardinality(DOMAIN Changed(before[r], o)) \in Nat
  BY <1>3, <1>4, FS_Subset, FS_CardinalityType
<1>6. ~(Cardinality(DOMAIN Changed(before[r], o)) > PerResource)
  BY <1>1, <1>2 DEF OverTheLimit
<1>7. QED
  BY <1>2, <1>5, <1>6, LocalTagsAssumption DEF LocalTagsAssumption

\* What a step of the store does to the tags, the local store does in one step.
LEMMA TagsStepImplements ==
  ASSUME TagsInv, [TagsNext]_tagVars
  PROVE  [tags' # tags => LocalTagsNext]_tags
<1> SUFFICES ASSUME tags' # tags PROVE LocalTagsNext
  OBVIOUS
<1>1. ASSUME NEW q \in TagRequests, WritesTags(q) PROVE LocalTagsNext
  <2> DEFINE o == tagging[q].asks
             gone == o.resources \ known
  <2>1. /\ o \in Asked /\ Acceptable(o.set, o.remove) /\ tagging[q].before \in AllTags
        /\ tagging[q].plan = PlanOf(tagging[q].before, o)
        /\ \A r \in known : tagging[q].before[r] = tags[r]
    BY <1>1 DEF WritesTags, TagsInv, ReadsStand
  <2>2. o.resources \subseteq Resources
    BY <2>1, LocalTagsAssumption DEF LocalTagsAssumption
  <2>3. \A r \in gone : tags[r] = NoTags
    BY <2>2 DEF TagsInv, GoneHaveNone
  <2>4. ~OverTheLimit(PlanOf(tags, o))
    <3>1. ~OverTheLimit(PlanOf(tagging[q].before, o))
      BY <1>1, <2>1 DEF WritesTags, Refused
    <3>2. \A r \in o.resources : tags[r] = tagging[q].before[r] \/ tags[r] = NoTags
      BY <2>1, <2>3
    <3>3. QED
      BY <2>1, <3>1, <3>2, LimitHolds DEF TagsInv, TagsTyped
  <2>5. tags' = [r \in Resources |-> IF r \in o.resources \ gone THEN PlanOf(tags, o)[r] ELSE tags[r]]
    <3>1. o.resources \ gone = o.resources \cap known
      OBVIOUS
    <3>2. QED
      BY <1>1, <3>1, WritesThePlan
  <2>6. Applied(o, gone)
    BY <2>1, <2>3, <2>4, <2>5 DEF Applied
  <2>7. gone \in SUBSET o.resources
    OBVIOUS
  <2> HIDE DEF gone, o
  <2>8. QED
    BY <2>1, <2>6, <2>7 DEF LocalTagsNext
<1>2. ASSUME NEW r \in Resources, Removed(r) PROVE LocalTagsNext
  BY <1>2 DEF Removed, Forgotten, LocalTagsNext
<1>3. QED
  BY <1>1, <1>2 DEF TagsNext, tagVars, TagsAsked, ReadsTags, TagsRollBack

\* Requests about tags that run at once, while discovery removes resources, do what the local
\* store does with them one after another (postgres-tag-service.js, tag-service.js).
THEOREM TagsImplementLocalTags == TagsSpec => TagsAsIfAlone
<1>1. TagsSpec => []TagsInv
  BY TagsInitInv, TagsStepInv, PTL DEF TagsSpec
<1>2. TagsInit => LocalTagsInit
  BY DEF TagsInit
<1>3. TagsInv => \A r \in Resources \ known : tags[r] = NoTags
  BY DEF TagsInv, GoneHaveNone
<1>4. TagsInv /\ [TagsNext]_tagVars => [tags' # tags => LocalTagsNext]_tags
  BY TagsStepImplements
<1>5. QED
  BY <1>1, <1>2, <1>3, <1>4, PTL DEF TagsSpec, TagsAsIfAlone

-----------------------------------------------------------------------------
(***************************************************************************)
(* The local store of views keeps what it promises                         *)
(***************************************************************************)
ViewRows == [user : People, name : Names, filter : Filters \ {None}, version : Nat \ {0}]

\* Ids are given out in order, and not again.
ViewsTyped ==
  /\ viewIds \in 0..MaxViews
  /\ views \in [ViewIds -> ViewRows \cup {None}]
  /\ \A i \in Rows : i <= viewIds

\* Nobody has more views than the limit, or two under one name.
ViewsFit ==
  \A u \in People : /\ Cardinality(Mine(u)) <= PerPerson
                    /\ \A i, j \in Mine(u) : Folded[views[i].name] = Folded[views[j].name] => i = j

LEMMA MineFinite == ASSUME NEW u PROVE IsFiniteSet(Mine(u)) /\ Cardinality(Mine(u)) \in Nat
<1>1. IsFiniteSet(ViewIds)
  BY FS_Interval, LocalViewsAssumption DEF LocalViewsAssumption, ViewIds
<1>2. Mine(u) \in SUBSET ViewIds
  BY DEF Mine, Rows
<1>3. QED
  BY <1>1, <1>2, FS_Subset, FS_CardinalityType

LEMMA NoneIsNoRow == ASSUME NEW r \in ViewRows PROVE r # None
BY LocalViewsAssumption DEF LocalViewsAssumption, ViewRows, Names

\* What each of the store's steps does to what a person has.
LEMMA InsertDoes ==
  ASSUME ViewsTyped, NEW u \in People, NEW asked \in NewViews, Insert(u, asked)
  PROVE  /\ ViewsTyped' /\ viewIds' \notin Mine(u) /\ Mine(u)' = Mine(u) \cup {viewIds'}
         /\ \A v \in People \ {u} : Mine(v)' = Mine(v)
         /\ \A i \in Rows : views'[i] = views[i]
         /\ views'[viewIds'].name = asked.name
<1> USE LocalViewsAssumption DEF LocalViewsAssumption, ViewsTyped
<1> DEFINE row == [user |-> u, name |-> asked.name, filter |-> asked.filter, version |-> 1]
<1>1. row \in ViewRows /\ row.user = u /\ row.name = asked.name
  BY DEF ViewRows, NewViews
<1>2. row # None
  BY <1>1, NoneIsNoRow
<1>3. /\ viewIds' = viewIds + 1 /\ viewIds' \in ViewIds /\ viewIds' \in 0..MaxViews /\ viewIds \in Nat
      /\ views' = [views EXCEPT ![viewIds'] = row] /\ viewIds' \notin Rows
  BY DEF Insert, ViewIds, Rows
<1> HIDE DEF row
<1>4. \A i \in ViewIds : views'[i] = IF i = viewIds' THEN row ELSE views[i]
  BY <1>3
<1>5. Rows' = Rows \cup {viewIds'}
  BY <1>2, <1>3, <1>4 DEF Rows, ViewIds
<1>6. ViewsTyped'
  <2>1. \A i \in Rows' : i <= viewIds'
    BY <1>3, <1>5 DEF Rows, ViewIds
  <2>2. QED
    BY <1>1, <1>3, <2>1 DEF ViewIds
<1>7. \A v \in People : Mine(v)' = IF v = u THEN Mine(v) \cup {viewIds'} ELSE Mine(v)
  BY <1>1, <1>3, <1>4, <1>5 DEF Mine, Rows
<1>8. QED
  BY <1>1, <1>3, <1>4, <1>6, <1>7 DEF Mine, Rows

LEMMA UpdateDoes ==
  ASSUME ViewsTyped, NEW u \in People, NEW i \in Mine(u), NEW change \in ViewChanges, Update(i, change), UNCHANGED viewIds
  PROVE  /\ ViewsTyped' /\ \A v \in People : Mine(v)' = Mine(v)
         /\ \A j \in Rows : j # i => views'[j] = views[j]
         /\ views'[i].name = IF change.name = None THEN views[i].name ELSE change.name
<1> USE LocalViewsAssumption DEF LocalViewsAssumption, ViewsTyped
<1> DEFINE name == IF change.name = None THEN views[i].name ELSE change.name
           filter == IF change.filter = None THEN views[i].filter ELSE change.filter
           row == [views[i] EXCEPT !.version = views[i].version + 1, !.name = name, !.filter = filter]
<1>1. i \in ViewIds /\ views[i] \in ViewRows /\ views[i].user = u
  BY DEF Mine, Rows
<1>2. /\ row \in ViewRows /\ row.user = u
      /\ row.name = IF change.name = None THEN views[i].name ELSE change.name
  <2>1. name \in Names /\ filter \in Filters \ {None}
    BY <1>1 DEF ViewRows, ViewChanges
  <2>2. views[i].version + 1 \in Nat \ {0}
    BY <1>1 DEF ViewRows
  <2> HIDE DEF name, filter
  <2>3. row \in ViewRows /\ row.user = u /\ row.name = name
    BY <1>1, <2>1, <2>2 DEF ViewRows
  <2>4. QED
    BY <2>3 DEF name
<1>3. row # None
  BY <1>2, NoneIsNoRow
<1>4. views' = [views EXCEPT ![i] = row]
  BY <1>1 DEF Update, ViewRows
<1> HIDE DEF row
<1>5. \A j \in ViewIds : views'[j] = IF j = i THEN row ELSE views[j]
  BY <1>4
<1>6. Rows' = Rows
  BY <1>1, <1>3, <1>5 DEF Rows, Mine
<1>7. ViewsTyped'
  BY <1>1, <1>2, <1>4, <1>6
<1>8. QED
  BY <1>1, <1>2, <1>5, <1>6, <1>7 DEF Mine, Rows

LEMMA DeleteDoes ==
  ASSUME ViewsTyped, NEW u \in People, NEW i \in Mine(u), DeleteView(u, i)
  PROVE  /\ ViewsTyped' /\ \A v \in People : Mine(v)' \subseteq Mine(v)
         /\ \A j \in Rows' : views'[j] = views[j]
<1> USE DEF ViewsTyped
<1>1. i \in ViewIds /\ views' = [views EXCEPT ![i] = None] /\ viewIds' = viewIds
  BY DEF DeleteView, Mine, Rows
<1>2. Rows' = Rows \ {i} /\ \A j \in Rows' : views'[j] = views[j]
  BY <1>1 DEF Rows, ViewIds
<1>3. ViewsTyped'
  BY <1>1, <1>2 DEF ViewIds, Rows
<1>4. QED
  BY <1>2, <1>3 DEF Mine

LEMMA LocalViewsInitFit == LocalViewsInit => ViewsTyped /\ ViewsFit
<1> SUFFICES ASSUME LocalViewsInit PROVE ViewsTyped /\ ViewsFit
  OBVIOUS
<1>1. Rows = {} /\ \A u \in People : Mine(u) = {}
  BY DEF LocalViewsInit, Rows, Mine
<1>2. ViewsTyped
  BY <1>1, LocalViewsAssumption DEF LocalViewsAssumption, LocalViewsInit, ViewsTyped
<1>3. ViewsFit
  BY <1>1, FS_EmptySet, LocalViewsAssumption DEF LocalViewsAssumption, ViewsFit
<1>4. QED
  BY <1>2, <1>3

LEMMA LocalViewsStepFit == ViewsTyped /\ ViewsFit /\ [LocalViewsNext]_localViewVars => ViewsTyped' /\ ViewsFit'
<1> SUFFICES ASSUME ViewsTyped, ViewsFit, [LocalViewsNext]_localViewVars PROVE ViewsTyped' /\ ViewsFit'
  OBVIOUS
<1>1. ASSUME NEW u \in People, NEW asked \in NewViews, CreateView(u, asked)
      PROVE  ViewsTyped' /\ ViewsFit'
  <2>1. /\ ViewsTyped' /\ viewIds' \notin Mine(u) /\ Mine(u)' = Mine(u) \cup {viewIds'}
        /\ \A v \in People \ {u} : Mine(v)' = Mine(v)
        /\ \A i \in Rows : views'[i] = views[i]
        /\ views'[viewIds'].name = asked.name
    BY <1>1, InsertDoes DEF CreateView
  <2>2. Cardinality(Mine(u)') <= PerPerson
    <3>1. Cardinality(Mine(u) \cup {viewIds'}) = Cardinality(Mine(u)) + 1
      BY <2>1, MineFinite, FS_AddElement
    <3>2. QED
      BY <1>1, <2>1, <3>1, MineFinite, LocalViewsAssumption DEF LocalViewsAssumption, CreateView
  <2>3. \A i, j \in Mine(u)' : Folded[views'[i].name] = Folded[views'[j].name] => i = j
    <3>1. \A i \in Mine(u) : views'[i] = views[i] /\ Folded[views[i].name] # Folded[asked.name]
      BY <1>1, <2>1 DEF CreateView, NameIsTaken, Mine, Rows, ViewIds
    <3>2. QED
      BY <2>1, <3>1 DEF ViewsFit
  <2>4. \A v \in People \ {u} : /\ Cardinality(Mine(v)') <= PerPerson
                                /\ \A i, j \in Mine(v)' : Folded[views'[i].name] = Folded[views'[j].name] => i = j
    BY <2>1 DEF ViewsFit, Mine
  <2>5. QED
    BY <2>1, <2>2, <2>3, <2>4 DEF ViewsFit
<1>2. ASSUME NEW u \in People, NEW i \in Mine(u), NEW change \in ViewChanges, UpdateView(u, i, change, views[i].version)
      PROVE  ViewsTyped' /\ ViewsFit'
  <2>1. /\ ViewsTyped' /\ \A v \in People : Mine(v)' = Mine(v)
        /\ \A j \in Rows : j # i => views'[j] = views[j]
        /\ views'[i].name = IF change.name = None THEN views[i].name ELSE change.name
    BY <1>2, UpdateDoes DEF UpdateView
  <2>2. \A v \in People \ {u} : \A j \in Mine(v) : j # i
    BY DEF Mine
  <2>3. \A v \in People : \A j \in Mine(v) : j \in Rows
    BY DEF Mine
  <2>4. \A j \in Mine(u) : j # i => Folded[views'[j].name] # Folded[views'[i].name]
    <3> SUFFICES ASSUME NEW j \in Mine(u), j # i PROVE Folded[views[j].name] # Folded[views'[i].name]
      BY <2>1, <2>3
    <3>1. CASE change.name = None
      BY <2>1, <3>1 DEF ViewsFit
    <3>2. CASE change.name # None
      BY <1>2, <2>1, <3>2 DEF UpdateView, NameIsTaken
    <3>3. QED
      BY <3>1, <3>2
  <2>5. ASSUME NEW v \in People
        PROVE  /\ Cardinality(Mine(v)') <= PerPerson
               /\ \A j, k \in Mine(v)' : Folded[views'[j].name] = Folded[views'[k].name] => j = k
    <3>1. Cardinality(Mine(v)') <= PerPerson
      BY <2>1 DEF ViewsFit
    <3>2. CASE v # u
      BY <2>1, <2>2, <2>3, <3>1, <3>2 DEF ViewsFit
    <3>3. CASE v = u
      BY <2>1, <2>3, <2>4, <3>1, <3>3 DEF ViewsFit
    <3>4. QED
      BY <3>2, <3>3
  <2>6. QED
    BY <2>1, <2>5 DEF ViewsFit
<1>3. ASSUME NEW u \in People, NEW i \in Mine(u), DeleteView(u, i)
      PROVE  ViewsTyped' /\ ViewsFit'
  <2>1. /\ ViewsTyped' /\ \A v \in People : Mine(v)' \subseteq Mine(v)
        /\ \A j \in Rows' : views'[j] = views[j]
    BY <1>3, DeleteDoes
  <2>2. ASSUME NEW v \in People
        PROVE  /\ Cardinality(Mine(v)') <= PerPerson
               /\ \A j, k \in Mine(v)' : Folded[views'[j].name] = Folded[views'[k].name] => j = k
    <3>1. Mine(v)' \in SUBSET Mine(v)
      BY <2>1
    <3>2. Cardinality(Mine(v)') <= Cardinality(Mine(v)) /\ Cardinality(Mine(v)') \in Nat
      BY <3>1, MineFinite, FS_Subset, FS_CardinalityType
    <3>3. Cardinality(Mine(v)') <= PerPerson
      BY <3>2, MineFinite, LocalViewsAssumption DEF LocalViewsAssumption, ViewsFit
    <3>4. \A j \in Mine(v)' : j \in Rows'
      BY DEF Mine
    <3>5. QED
      BY <2>1, <3>1, <3>3, <3>4 DEF ViewsFit
  <2>3. QED
    BY <2>1, <2>2 DEF ViewsFit
<1>4. CASE UNCHANGED localViewVars
  BY <1>4 DEF ViewsTyped, ViewsFit, Mine, Rows, localViewVars
<1>5. QED
  BY <1>1, <1>2, <1>3, <1>4 DEF LocalViewsNext

\* In the local store nobody ever has more views than the limit, or two under one name.
LEMMA LocalViewsFit == LocalViewsSpec => [](ViewsTyped /\ ViewsFit)
  BY LocalViewsInitFit, LocalViewsStepFit, PTL DEF LocalViewsSpec

-----------------------------------------------------------------------------
(***************************************************************************)
(* Saved views                                                             *)
(***************************************************************************)
ViewPlaces == {"idle", "creating", "inserting", "updating", "writing"}
Viewings == [at : ViewPlaces, user : People \cup {None}, asks : NewViews \cup ViewChanges \cup {None}, id : Nat, version : Nat]

\* What a request asks, and the room that an INSERT relies on: its person's lock is its own.
RoomIsLeft ==
  \A q \in ViewRequests : LET v == viewing[q] IN
    /\ v.at # "idle" => v.user \in People
    /\ v.at \in {"creating", "inserting"} => v.asks \in NewViews
    /\ v.at \in {"updating", "writing"} => v.asks \in ViewChanges
    /\ v.at = "inserting" =>
         /\ v.user \in viewLocks /\ Cardinality(Mine(v.user)) < PerPerson
         /\ \A d \in ViewRequests \ {q} : viewing[d].at = "inserting" => viewing[d].user # v.user

ViewsInv == ViewsTyped /\ viewing \in [ViewRequests -> Viewings] /\ RoomIsLeft

LEMMA ViewsInitInv == ViewsInit => ViewsInv
<1> SUFFICES ASSUME ViewsInit PROVE ViewsInv
  OBVIOUS
<1>1. NoViewing \in Viewings /\ NoViewing.at = "idle"
  BY DEF NoViewing, Viewings, ViewPlaces
<1>2. viewing \in [ViewRequests -> Viewings] /\ RoomIsLeft
  BY <1>1 DEF ViewsInit, RoomIsLeft
<1>3. QED
  BY <1>2, LocalViewsInitFit DEF ViewsInit, ViewsInv

\* A step that leaves the views alone and takes one request on.
LEMMA OneGoesOn ==
  ASSUME ViewsInv, UNCHANGED <<views, viewIds>>, NEW q \in ViewRequests, NEW x \in Viewings,
         viewing' = [viewing EXCEPT ![q] = x],
         x.at # "idle" => x.user \in People,
         x.at \in {"creating", "inserting"} => x.asks \in NewViews,
         x.at \in {"updating", "writing"} => x.asks \in ViewChanges,
         \/ x.at # "inserting" /\ viewing[q].at # "inserting" /\ viewLocks' = viewLocks
         \/ /\ x.at = "inserting" /\ Cardinality(Mine(x.user)) < PerPerson
            /\ x.user \notin viewLocks /\ viewLocks' = viewLocks \cup {x.user}
  PROVE  ViewsInv'
<1> USE DEF ViewsInv
<1>1. viewing' \in [ViewRequests -> Viewings] /\ \A d \in ViewRequests : viewing'[d] = IF d = q THEN x ELSE viewing[d]
  OBVIOUS
<1>2. ViewsTyped' /\ \A u \in People : Mine(u)' = Mine(u)
  BY DEF ViewsTyped, Mine, Rows
<1>3. RoomIsLeft'
  BY <1>1, <1>2 DEF RoomIsLeft
<1>4. QED
  BY <1>1, <1>2, <1>3

\* A request ends, and what happens to the views leaves the others' room as it was.
LEMMA OneEnds ==
  ASSUME ViewsInv, NEW q \in ViewRequests, Ends(q), ViewsTyped',
         \A u \in People : \/ Cardinality(Mine(u)') <= Cardinality(Mine(u)) /\ Cardinality(Mine(u)') \in Nat
                           \/ viewing[q].at = "inserting" /\ viewing[q].user = u
  PROVE  ViewsInv'
<1> USE DEF ViewsInv
<1>1. NoViewing \in Viewings /\ NoViewing.at = "idle"
  BY DEF NoViewing, Viewings, ViewPlaces
<1>2. viewing' \in [ViewRequests -> Viewings] /\ \A d \in ViewRequests : viewing'[d] = IF d = q THEN NoViewing ELSE viewing[d]
  BY <1>1 DEF Ends
<1>3. RoomIsLeft'
  <2> SUFFICES ASSUME NEW d \in ViewRequests, d # q, viewing[d].at = "inserting"
               PROVE  viewing[d].user \in viewLocks' /\ Cardinality(Mine(viewing[d].user)') < PerPerson
    BY <1>1, <1>2 DEF RoomIsLeft
  <2>1. viewing[d].user \in People /\ viewing[d].user \in viewLocks /\ Cardinality(Mine(viewing[d].user)) < PerPerson
    BY DEF RoomIsLeft
  <2>2. viewing[q].at = "inserting" => viewing[q].user # viewing[d].user
    BY DEF RoomIsLeft
  <2>3. viewing[d].user \in viewLocks'
    BY <2>1, <2>2 DEF Ends
  <2>4. Cardinality(Mine(viewing[d].user)') < PerPerson
    <3> SUFFICES ASSUME NEW v \in People, v = viewing[d].user PROVE Cardinality(Mine(v)') < PerPerson
      BY <1>2, <2>1 DEF Mine, Rows
    <3>1. Cardinality(Mine(v)) \in Nat /\ Cardinality(Mine(v)) < PerPerson
      BY <2>1, MineFinite
    <3>2. Cardinality(Mine(v)') <= Cardinality(Mine(v)) /\ Cardinality(Mine(v)') \in Nat
      BY <2>2
    <3>3. QED
      BY <3>1, <3>2, LocalViewsAssumption DEF LocalViewsAssumption
  <2>5. QED
    BY <2>3, <2>4
<1>4. QED
  BY <1>2, <1>3

LEMMA ViewRequestedInv ==
  ASSUME ViewsInv, NEW q \in ViewRequests, ViewRequested(q)
  PROVE  ViewsInv'
<1>1. viewing[q].at = "idle" /\ UNCHANGED <<views, viewIds, viewLocks>>
  BY DEF ViewRequested
<1>2. ASSUME NEW u \in People, NEW asked \in NewViews,
             viewing' = [viewing EXCEPT ![q] = [NoViewing EXCEPT !.at = "creating", !.user = u, !.asks = asked]]
      PROVE  ViewsInv'
  <2> DEFINE x == [NoViewing EXCEPT !.at = "creating", !.user = u, !.asks = asked]
  <2>1. x \in Viewings /\ x.at = "creating" /\ x.user = u /\ x.asks = asked
    BY DEF NoViewing, Viewings, ViewPlaces
  <2>2. viewing' = [viewing EXCEPT ![q] = x]
    BY <1>2
  <2> HIDE DEF x
  <2>3. QED
    BY <1>1, <2>1, <2>2, OneGoesOn
<1>3. ASSUME NEW u \in People, NEW i \in Mine(u), NEW change \in ViewChanges,
             viewing' = [viewing EXCEPT ![q] =
               [at |-> "updating", user |-> u, asks |-> change, id |-> i, version |-> views[i].version]]
      PROVE  ViewsInv'
  <2> DEFINE x == [at |-> "updating", user |-> u, asks |-> change, id |-> i, version |-> views[i].version]
  <2>1. i \in Nat /\ views[i].version \in Nat
    BY DEF Mine, Rows, ViewIds, ViewsInv, ViewsTyped, ViewRows
  <2>2. x \in Viewings /\ x.at = "updating" /\ x.user = u /\ x.asks = change
    BY <2>1 DEF Viewings, ViewPlaces
  <2>3. viewing' = [viewing EXCEPT ![q] = x]
    BY <1>3
  <2> HIDE DEF x
  <2>4. QED
    BY <1>1, <2>2, <2>3, OneGoesOn
<1>4. QED
  BY <1>2, <1>3 DEF ViewRequested

\* The lock and the count, or the look before an UPDATE.
LEMMA CountsOrLooksInv ==
  ASSUME ViewsInv, NEW q \in ViewRequests, Counts(q) \/ Looks(q)
  PROVE  ViewsInv'
<1> DEFINE at == IF Counts(q) THEN "inserting" ELSE "writing"
           x == [viewing[q] EXCEPT !.at = at]
<1>1. viewing[q] \in Viewings /\ viewing[q].at # "inserting"
  BY DEF ViewsInv, Counts, Looks
<1>2. at \in ViewPlaces
  BY DEF ViewPlaces
<1>3. /\ x \in Viewings /\ x.at = at /\ x.user = viewing[q].user /\ x.asks = viewing[q].asks
  BY <1>1, <1>2 DEF Viewings
<1>4. viewing' = [viewing EXCEPT ![q] = x] /\ UNCHANGED <<views, viewIds>>
  BY DEF Counts, Looks, ViewsInv
<1> HIDE DEF x
<1>5. CASE Counts(q)
  BY <1>1, <1>3, <1>4, <1>5, OneGoesOn DEF Counts, ViewsInv, RoomIsLeft
<1>6. CASE ~Counts(q)
  BY <1>1, <1>3, <1>4, <1>6, OneGoesOn DEF Looks, ViewsInv, RoomIsLeft
<1>7. QED
  BY <1>5, <1>6

LEMMA InsertsInv ==
  ASSUME ViewsInv, NEW q \in ViewRequests, Inserts(q)
  PROVE  ViewsInv' /\ CreateView(viewing[q].user, viewing[q].asks)
<1> DEFINE u == viewing[q].user
<1>1. /\ u \in People /\ viewing[q].asks \in NewViews /\ viewing[q].at = "inserting" /\ Cardinality(Mine(u)) < PerPerson
      /\ Insert(u, viewing[q].asks) /\ Ends(q) /\ ViewsTyped
  BY DEF Inserts, ViewsInv, RoomIsLeft
<1>2. ViewsTyped' /\ \A v \in People \ {u} : Mine(v)' = Mine(v)
  BY <1>1, InsertDoes
<1>3. ViewsInv'
  BY <1>1, <1>2, MineFinite, OneEnds
<1>4. CreateView(u, viewing[q].asks)
  BY <1>1 DEF Inserts, CreateView
<1>5. QED
  BY <1>3, <1>4

LEMMA WritesInv ==
  ASSUME ViewsInv, NEW q \in ViewRequests, Writes(q)
  PROVE  LET v == viewing[q] IN
         ViewsInv' /\ v.user \in People /\ v.asks \in ViewChanges /\ UpdateView(v.user, v.id, v.asks, views[v.id].version)
<1> DEFINE u == viewing[q].user
           i == viewing[q].id
<1>1. /\ u \in People /\ viewing[q].asks \in ViewChanges /\ i \in Mine(u)
      /\ Update(i, viewing[q].asks) /\ Ends(q) /\ ViewsTyped /\ UNCHANGED viewIds
  BY DEF Writes, ViewsInv, RoomIsLeft
<1>2. ViewsTyped' /\ \A v \in People : Mine(v)' = Mine(v)
  BY <1>1, UpdateDoes
<1>3. ViewsInv'
  BY <1>1, <1>2, MineFinite, OneEnds
<1>4. UpdateView(u, i, viewing[q].asks, views[i].version)
  BY <1>1 DEF Writes, UpdateView
<1>5. QED
  BY <1>1, <1>3, <1>4

LEMMA ViewDeletedInv ==
  ASSUME ViewsInv, NEW u \in People, NEW i \in Mine(u), DeleteView(u, i), UNCHANGED <<viewing, viewLocks>>
  PROVE  ViewsInv'
<1>1. ViewsTyped' /\ \A v \in People : Mine(v)' \in SUBSET Mine(v)
  BY DeleteDoes DEF ViewsInv
<1>2. \A v \in People : Cardinality(Mine(v)') <= Cardinality(Mine(v)) /\ Cardinality(Mine(v)') \in Nat
  BY <1>1, MineFinite, FS_Subset, FS_CardinalityType
<1>3. RoomIsLeft'
  <2> SUFFICES ASSUME NEW q \in ViewRequests, viewing[q].at = "inserting",
                      NEW v \in People, v = viewing[q].user
               PROVE  Cardinality(Mine(v)') < PerPerson
    BY DEF ViewsInv, RoomIsLeft
  <2>1. Cardinality(Mine(v)) < PerPerson
    BY DEF ViewsInv, RoomIsLeft
  <2>2. QED
    BY <1>2, <2>1, MineFinite, LocalViewsAssumption DEF LocalViewsAssumption
<1>4. QED
  BY <1>1, <1>3 DEF ViewsInv

LEMMA ViewsStepInv == ViewsInv /\ [ViewsNext]_viewVars => ViewsInv'
<1> SUFFICES ASSUME ViewsInv, [ViewsNext]_viewVars PROVE ViewsInv'
  OBVIOUS
<1>1. ASSUME NEW q \in ViewRequests, ViewRefused(q) PROVE ViewsInv'
  <2>1. ViewsTyped' /\ \A u \in People : Mine(u)' = Mine(u)
    BY <1>1 DEF ViewRefused, ViewsInv, ViewsTyped, Mine, Rows
  <2>2. QED
    BY <1>1, <2>1, MineFinite, OneEnds DEF ViewRefused
<1>2. CASE ViewDeleted
  BY <1>2, ViewDeletedInv DEF ViewDeleted
<1>3. CASE UNCHANGED viewVars
  BY <1>3 DEF ViewsInv, ViewsTyped, RoomIsLeft, Mine, Rows, viewVars
<1>4. QED
  BY <1>1, <1>2, <1>3, ViewRequestedInv, CountsOrLooksInv, InsertsInv, WritesInv DEF ViewsNext

LEMMA ViewsStepImplements ==
  ASSUME ViewsInv, [ViewsNext]_viewVars
  PROVE  [localViewVars' # localViewVars => LocalViewsNext]_localViewVars
<1> SUFFICES ASSUME localViewVars' # localViewVars PROVE LocalViewsNext
  OBVIOUS
<1>1. ASSUME NEW q \in ViewRequests, Inserts(q) PROVE LocalViewsNext
  BY <1>1, InsertsInv DEF ViewsInv, RoomIsLeft, Inserts, LocalViewsNext
<1>2. ASSUME NEW q \in ViewRequests, Writes(q) PROVE LocalViewsNext
  BY <1>2, WritesInv DEF Writes, LocalViewsNext
<1>3. CASE ViewDeleted
  BY <1>3 DEF ViewDeleted, LocalViewsNext
<1>4. QED
  BY <1>1, <1>2, <1>3 DEF ViewsNext, viewVars, localViewVars, ViewRequested, Counts, Looks, ViewRefused

\* Requests about saved views that run at once do what the local store does with them one after
\* another (postgres-view-service.js, view-service.js).
THEOREM ViewsImplementLocalViews == ViewsSpec => ViewsAsIfAlone
<1>1. ViewsSpec => []ViewsInv
  BY ViewsInitInv, ViewsStepInv, PTL DEF ViewsSpec
<1>2. ViewsInit => LocalViewsInit
  BY DEF ViewsInit
<1>3. ViewsInv /\ [ViewsNext]_viewVars => [localViewVars' # localViewVars => LocalViewsNext]_localViewVars
  BY ViewsStepImplements
<1>4. QED
  BY <1>1, <1>2, <1>3, PTL DEF ViewsSpec, ViewsAsIfAlone

\* So nobody ever has more views than the limit, or two under one name, although the database
\* counts and looks before it writes.
THEOREM ViewsFitTheLimit == ViewsSpec => []ViewsFit
<1>1. [localViewVars' # localViewVars => LocalViewsNext]_localViewVars => [LocalViewsNext]_localViewVars
  OBVIOUS
<1>2. ViewsSpec => LocalViewsSpec
  BY <1>1, ViewsImplementLocalViews, PTL DEF LocalViewsSpec, ViewsAsIfAlone
<1>3. QED
  BY <1>2, LocalViewsFit, PTL
=============================================================================
