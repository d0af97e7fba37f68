---------------------------- MODULE ResourceTags ----------------------------
(***************************************************************************)
(* PostgresTagService (migration 0032): a request's transaction beside     *)
(* those of other requests, while discovery removes resources.  `tags` is  *)
(* inventory.resource_tags.                                                *)
(***************************************************************************)
EXTENDS LocalTags, Common

CONSTANTS
  TagRequests,    \* requests to /tag-operations under way
  MaxRemovals     \* bound of the model: resources that discovery removes

ASSUME ResourceTagsAssumption == MaxRemovals \in Nat /\ None \notin TagRequests

VARIABLES
  known,      \* the rows of inventory.resources
  tagging,    \* each request: where it is, what it asks, and its plan
  tagLock     \* who holds the advisory lock of tag writes

tagVars == <<tags, known, tagging, tagLock>>

-----------------------------------------------------------------------------
NoTagging == [at |-> "idle", asks |-> None, before |-> None, plan |-> None]

TagsInit ==
  /\ LocalTagsInit /\ known = Resources
  /\ tagging = [q \in TagRequests |-> NoTagging]
  /\ tagLock = None

\* The route looks at each resource before it calls apply.
TagsAsked(q) ==
  /\ tagging[q].at = "idle"
  /\ \E o \in Asked :
       /\ Acceptable(o.set, o.remove) /\ o.resources \subseteq known
       /\ tagging' = [tagging EXCEPT ![q] = [NoTagging EXCEPT !.at = "asked", !.asks = o]]
  /\ UNCHANGED <<tags, known, tagLock>>

\* Mutant: the transaction begins without the advisory lock.
ReadsTagsUnlocked(q) ==
  /\ tagging[q].at = "asked"
  /\ tagging' = [tagging EXCEPT ![q].at = "writing", ![q].before = tags, ![q].plan = PlanOf(tags, tagging[q].asks)]
  /\ UNCHANGED <<tags, known, tagLock>>

\* BEGIN, the lock, the rows of its resources, the plan.
ReadsTags(q) ==
  /\ tagging[q].at = "asked" /\ tagLock = None
  /\ tagLock' = q
  /\ tagging' = [tagging EXCEPT ![q].at = "writing", ![q].before = tags, ![q].plan = PlanOf(tags, tagging[q].asks)]
  /\ UNCHANGED <<tags, known>>

\* The rows a plan inserts, of tags that it adds or changes.
Upserted(q, r) ==
  { k \in DOMAIN tagging[q].plan[r] :
      k \in DOMAIN tagging[q].before[r] => tagging[q].before[r][k] # tagging[q].plan[r][k] }
Deleted(q, r) == DOMAIN tagging[q].before[r] \ DOMAIN tagging[q].plan[r]

\* Too many tags, or a row for a resource that is not there any more.
Refused(q) ==
  OverTheLimit(tagging[q].plan) \/ \E r \in DOMAIN tagging[q].plan \ known : Upserted(q, r) # {}

Releases(q) ==
  /\ tagging' = [tagging EXCEPT ![q] = NoTagging]
  /\ tagLock' = IF tagLock = q THEN None ELSE tagLock

\* The upserts and deletions, and COMMIT.
WritesTags(q) ==
  /\ tagging[q].at = "writing" /\ ~Refused(q)
  /\ tags' = [ r \in Resources |->
       IF r \notin DOMAIN tagging[q].plan \cap known THEN tags[r]
       ELSE [ k \in (DOMAIN tags[r] \ Deleted(q, r)) \cup Upserted(q, r) |->
                IF k \in Upserted(q, r) THEN tagging[q].plan[r][k] ELSE tags[r][k] ] ]
  /\ Releases(q)
  /\ UNCHANGED known

\* ROLLBACK: a refusal, or a connection that broke.
TagsRollBack(q) ==
  /\ tagging[q].at = "writing"
  /\ Releases(q)
  /\ UNCHANGED <<tags, known>>

\* A resource's row goes, and its tags with it (ON DELETE CASCADE, or forget of the local mode).
Removed(r) ==
  /\ Cardinality(Resources \ known) < MaxRemovals
  /\ r \in known /\ known' = known \ {r}
  /\ tags' = [tags EXCEPT ![r] = NoTags]
  /\ UNCHANGED <<tagging, tagLock>>

TagsNext ==
  \/ \E q \in TagRequests : TagsAsked(q) \/ ReadsTags(q) \/ WritesTags(q) \/ TagsRollBack(q)
  \/ \E r \in Resources : Removed(r)

TagsSpec == TagsInit /\ [][TagsNext]_tagVars

-----------------------------------------------------------------------------
TagsTypeOK ==
  /\ \A r \in Resources : DOMAIN tags[r] \subseteq TagKeys /\ Range(tags[r]) \subseteq TagValues
  /\ known \subseteq Resources /\ tagLock \in TagRequests \cup {None}
  /\ \A q \in TagRequests : tagging[q].at \in {"idle", "asked", "writing"}

\* Requests that run at once leave the tags that they would have left one after another, as in the
\* local store: none undoes or mixes with what another did since the rows were read, no resource
\* has more tags than the limit, and one that is gone has none.
TagsAsIfAlone ==
  /\ LocalTagsInit /\ [][tags' # tags => LocalTagsNext]_tags   \* LocalTagsSpec
  /\ [](\A r \in Resources \ known : tags[r] = NoTags)
=============================================================================
