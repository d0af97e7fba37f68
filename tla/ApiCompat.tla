----------------------------- MODULE ApiCompat -----------------------------
(***************************************************************************)
(* api-compat.js and the check that runs it in CI: is a new description of *)
(* the API, or of a message, compatible with the one before?               *)
(*                                                                         *)
(* A schema is a record of the keywords it has; a pattern is the set of    *)
(* the texts it matches.  A value that is no object or array has a type    *)
(* and a number, which orders numbers and is the same for two values that  *)
(* String() spells alike, such as 1 and "1".  Reasons stand for the        *)
(* report's entries; additions and notes, which never block, are left out. *)
(***************************************************************************)
EXTENDS Integers, Sequences, TLC
LOCAL INSTANCE SequencesExt

CONSTANTS
  Described,   \* descriptions of the API that a release may have
  Messages,    \* descriptions of a message
  Leaves,      \* values that are not objects or arrays
  Declared     \* names a property may have

VARIABLE released   \* what the last release describes: the operations of the API, or a message

compatVars == <<released>>

-----------------------------------------------------------------------------
(***************************************************************************)
(* diffSchema                                                              *)
(***************************************************************************)
Has(schema, keyword) == keyword \in DOMAIN schema
Keyword(schema, keyword, otherwise) == IF Has(schema, keyword) THEN schema[keyword] ELSE otherwise

NoProperties == <<>>
TypesOf(schema)    == Keyword(schema, "type", {})
Properties(schema) == Keyword(schema, "properties", NoProperties)
Required(schema)   == Keyword(schema, "required", {})

\* allOf: what the parts say is added, and properties are theirs before the schema's own.
Merged(schema, part) ==
  [ k \in DOMAIN schema \cup DOMAIN part |->
      CASE k = "properties" -> Properties(part) @@ Properties(schema)
        [] k = "required"   -> Required(schema) \cup Required(part)
        [] OTHER            -> Keyword(schema, k, part[k]) ]

RECURSIVE Flatten(_)
Flatten(schema) ==
  IF ~Has(schema, "allOf") THEN schema
  ELSE FoldLeft(Merged, [ k \in DOMAIN schema \ {"allOf"} |-> schema[k] ],
                [ i \in DOMAIN schema.allOf |-> Flatten(schema.allOf[i]) ])

When(condition, reason) == IF condition THEN {reason} ELSE {}

TypeBreaks(before, after, direction) ==
  LET was == TypesOf(before)
      now == TypesOf(after)
      gained == { t \in now \ was : ~(t = "number" /\ "integer" \in was) }
      lost   == { t \in was \ now : ~(t = "integer" /\ "number" \in now) }
  IN  When(direction = "response" /\ was # {} /\ now # {} /\ gained # {}, "type widened") \cup
      When(direction = "request" /\ was # {} /\ now # {} /\ lost # {}, "type narrowed") \cup
      When(direction = "request" /\ was = {} /\ now # {}, "now requires type")

\* String: values of an enum are compared as they are spelled.
Spelled(value) == value.is
Spellings(schema) == { Spelled(v) : v \in Keyword(schema, "enum", {}) }

\* Mutant: values that are no longer accepted are looked for among the new ones.
EnumBreaksSwapped(before, after, direction) ==
  LET old  == Spellings(before)
      next == Spellings(after)
  IN  IF direction = "response" THEN When(Has(before, "enum") /\ old \ next # {}, "new values")
      ELSE When(Has(after, "enum") /\ next \ old # {}, "no longer accepts") \cup
           When(~Has(before, "enum") /\ Has(after, "enum"), "now restricted")

EnumBreaks(before, after, direction) ==
  LET old  == Spellings(before)
      next == Spellings(after)
  IN  IF direction = "response" THEN When(Has(before, "enum") /\ next \ old # {}, "new values")
      ELSE When(Has(after, "enum") /\ old \ next # {}, "no longer accepts") \cup
           When(~Has(before, "enum") /\ Has(after, "enum"), "now restricted")

ConstBreaks(before, after) ==
  When(Has(before, "const") /\ (Has(after, "const") => after.const # before.const), "constant changed")

\* minLength and minItems are as minimum, maxLength and maxItems as maximum.
LimitBreaks(before, after, direction) ==
  When(/\ direction = "request"
       /\ \/ Has(after, "minimum") /\ (Has(before, "minimum") => after.minimum > before.minimum)
          \/ Has(after, "maximum") /\ (Has(before, "maximum") => after.maximum < before.maximum), "limit") \cup
  When(/\ direction = "request" /\ Has(after, "pattern")
       /\ Has(before, "pattern") => after.pattern # before.pattern, "pattern")

RECURSIVE SchemaBreaks(_, _, _)
SchemaBreaks(schema1, schema2, direction) ==
  LET before == Flatten(schema1)
      after  == Flatten(schema2)
      old    == DOMAIN Properties(before)
      new    == DOMAIN Properties(after)
      alternatives == { k \in {"oneOf", "anyOf"} : Has(before, k) \/ Has(after, k) }
  IN
  IF Has(before, "recursive") \/ Has(after, "recursive") THEN {}
  ELSE IF alternatives # {} THEN
    LET k == IF "oneOf" \in alternatives THEN "oneOf" ELSE "anyOf"
    IN  When(~Has(before, k) \/ ~Has(after, k) \/ before[k] # after[k], "alternatives changed")
  ELSE
    TypeBreaks(before, after, direction) \cup EnumBreaks(before, after, direction) \cup
    ConstBreaks(before, after) \cup LimitBreaks(before, after, direction) \cup
    When(direction = "response" /\ old \ new # {}, "removed") \cup
    When(direction = "response" /\ (old \cap new \cap Required(before)) \ Required(after) # {}, "no longer guaranteed") \cup
    When(direction = "request" /\ (new \ old) \cap Required(after) # {}, "new required") \cup
    When(direction = "request" /\ (Required(after) \ Required(before)) \cap old # {}, "now required") \cup
    UNION { SchemaBreaks(Properties(before)[p], Properties(after)[p], direction) : p \in old \cap new } \cup
    (IF Has(before, "items") /\ Has(after, "items") THEN SchemaBreaks(before.items, after.items, direction) ELSE {})

-----------------------------------------------------------------------------
(***************************************************************************)
(* compareOpenApi: a description is a function from operations, that is    *)
(* method and path, to what they take and give.                            *)
(***************************************************************************)
ParameterBreaks(old, new) ==
  UNION { IF id \notin DOMAIN old THEN When(new[id].required, "new required parameter")
          ELSE When(new[id].required /\ ~old[id].required, "parameter is now required") \cup
               SchemaBreaks(old[id].schema, new[id].schema, "request") : id \in DOMAIN new }

ContentBreaks(old, new, direction) ==
  UNION { IF media \notin DOMAIN new THEN {"media type is gone"}
          ELSE SchemaBreaks(old[media], new[media], direction) : media \in DOMAIN old }

\* No requestBody is one that takes nothing.
BodyBreaks(old, new) ==
  When(DOMAIN old.content # {} /\ ~old.required /\ new.required, "a body is now required") \cup
  ContentBreaks(old.content, new.content, "request")

ResponseBreaks(old, new) ==
  UNION { IF status \notin DOMAIN new THEN When(status \in 200..299, "status is gone")
          ELSE ContentBreaks(old[status].content, new[status].content, "response") \cup
               When(old[status].headers \ new[status].headers # {}, "header is gone") : status \in DOMAIN old }

\* "unstated" rules are documentation that is still to be added.
OperationBreaks(old, new) ==
  When(old.operationId # new.operationId, "operationId") \cup
  When(old.security # "unstated" /\ old.security # new.security, "authentication") \cup
  When(/\ old.permission # "unstated" /\ new.permission # "unstated"
       /\ old.permission # new.permission, "permission") \cup
  ParameterBreaks(old.parameters, new.parameters) \cup
  BodyBreaks(old.body, new.body) \cup
  ResponseBreaks(old.responses, new.responses)

OpenApiBreaks(before, after) ==
  UNION { IF key \notin DOMAIN after THEN {"operation was removed"}
          ELSE OperationBreaks(before[key], after[key]) : key \in DOMAIN before }

-----------------------------------------------------------------------------
(***************************************************************************)
(* compareMessageSchemas                                                   *)
(***************************************************************************)
Closed(schema) == Has(schema, "closed")   \* additionalProperties: false

RECURSIVE ClosedObjectBreaks(_, _)
ClosedObjectBreaks(schema1, schema2) ==
  LET before == Flatten(schema1)
      after  == Flatten(schema2)
      old    == DOMAIN Properties(before)
      new    == DOMAIN Properties(after)
  IN  When(Closed(before) /\ new \ old # {}, "closed object gained a property") \cup
      When(~Closed(before) /\ Closed(after), "now rejects properties") \cup
      UNION { ClosedObjectBreaks(Properties(before)[p], Properties(after)[p]) : p \in old \cap new } \cup
      (IF Has(before, "items") /\ Has(after, "items") THEN ClosedObjectBreaks(before.items, after.items) ELSE {})

MessageBreaks(before, after) ==
  When(Keyword(before, "id", "none") # Keyword(after, "id", "none"), "$id") \cup
  SchemaBreaks(before, after, "response") \cup SchemaBreaks(before, after, "request") \cup
  ClosedObjectBreaks(before, after)

-----------------------------------------------------------------------------
(***************************************************************************)
(* Releases, each of which CI compares with the one before it.             *)
(***************************************************************************)
Apis == { [kind |-> "openapi", of |-> d] : d \in Described }
Contracts == Apis \cup { [kind |-> "message", of |-> m] : m \in Messages }

CompatInit == released \in Contracts

Release == \E next \in Contracts :
  /\ next.kind = released.kind
  /\ {} = IF next.kind = "openapi" THEN OpenApiBreaks(released.of, next.of) ELSE MessageBreaks(released.of, next.of)
  /\ released' = next

CompatNext == Release
CompatSpec == CompatInit /\ [][CompatNext]_compatVars

-----------------------------------------------------------------------------
(***************************************************************************)
(* What a value must be to satisfy a schema, by JSON Schema and not by the *)
(* code: allOf asks for all of its parts and for what stands beside it.    *)
(***************************************************************************)
RECURSIVE Satisfies(_, _)
Satisfies(v, schema) ==
  /\ Has(schema, "type") => v.type \in schema.type \/ (v.type = "integer" /\ "number" \in schema.type)
  /\ Has(schema, "enum")  => v \in schema.enum
  /\ Has(schema, "const") => v = schema.const
  /\ v.type \in {"integer", "number"} => /\ Has(schema, "minimum") => v.is >= schema.minimum
                                         /\ Has(schema, "maximum") => v.is <= schema.maximum
  /\ v.type = "string" /\ Has(schema, "pattern") => v.is \in schema.pattern
  /\ v.type = "array" /\ Has(schema, "items") => \A i \in DOMAIN v.items : Satisfies(v.items[i], schema.items)
  /\ v.type = "object" =>
       /\ Required(schema) \subseteq DOMAIN v.of
       /\ Closed(schema) => DOMAIN v.of \subseteq DOMAIN Properties(schema)
       /\ \A p \in DOMAIN v.of \cap DOMAIN Properties(schema) : Satisfies(v.of[p], Properties(schema)[p])
  /\ \A i \in DOMAIN Keyword(schema, "allOf", <<>>) : Satisfies(v, schema.allOf[i])
  /\ Has(schema, "anyOf") => \E i \in DOMAIN schema.anyOf : Satisfies(v, schema.anyOf[i])

Objects   == UNION { [type : {"object"}, of : [names -> Leaves]] : names \in SUBSET Declared }
Arrays    == [type : {"array"}, items : {<<>>} \cup { <<v>> : v \in Leaves }]
Instances == Leaves \cup Objects \cup Arrays

\* Nothing is promised of a property that the schema does not speak of.
RECURSIVE Names(_)
Names(schema) ==
  DOMAIN Properties(schema) \cup
  UNION { Names(schema[k][i]) : <<k, i>> \in { x \in {"allOf", "anyOf"} \X (1..2) : Has(schema, x[1]) /\ x[2] \in DOMAIN schema[x[1]] } }
Declares(schema, v) == v.type = "object" => DOMAIN v.of \subseteq Names(schema)

\* The schemas that allOf joins, its own keywords first, disagree on a keyword or on a property, or one
\* of them is closed and others go on: as one merged schema they ask for something else.
Merges(schema) ==
  LET parts == <<[ k \in DOMAIN schema \ {"allOf"} |-> schema[k] ]>> \o Keyword(schema, "allOf", <<>>) IN
  \E i, j \in DOMAIN parts :
    LET x == parts[i]
        y == parts[j] IN
    \/ Has(x, "allOf")
    \/ \E k \in (DOMAIN x \cap DOMAIN y) \ {"properties", "required"} : x[k] # y[k]
    \/ \E p \in DOMAIN Properties(x) \cap DOMAIN Properties(y) : Properties(x)[p] # Properties(y)[p]
    \/ Closed(x) /\ ~(DOMAIN Properties(y) \subseteq DOMAIN Properties(x))

\* What the comparison does not see, in either direction ...
UnseenAtAll(schema1, schema2, before, after) ==
  When(Merges(schema1) \/ Merges(schema2), "merged") \cup
  When((Has(before, "anyOf") \/ Has(after, "anyOf")) /\ before # after, "beside alternatives") \cup
  When(\E v \in Keyword(before, "enum", {}), w \in Keyword(after, "enum", {}) : v # w /\ Spelled(v) = Spelled(w),
       "spelled alike")

\* ... of what is sent ...
UnseenRequest(before, after) ==
  When(~(Required(after) \subseteq Required(before) \cup DOMAIN Properties(before) \cup DOMAIN Properties(after)),
       "required and not described") \cup
  When(Has(after, "const") /\ ~Has(before, "const"), "const added") \cup
  When(Has(after, "items") /\ ~Has(before, "items"), "items added") \cup
  When(Closed(after) /\ DOMAIN Properties(before) \ DOMAIN Properties(after) # {}, "closed object lost a property")

\* ... and of what is read: a response may stop saying what it says, may give any number for an integer, its
\* limits and patterns are not compared, and a closed object may open.
UnseenResponse(before, after) ==
  When(~(Required(before) \subseteq Required(after) \cup DOMAIN Properties(before)), "required and not described") \cup
  When(\E k \in DOMAIN before \ {"properties", "required", "const"} : ~Has(after, k), "keyword dropped") \cup
  When("integer" \in TypesOf(before) /\ "number" \in TypesOf(after) \ TypesOf(before), "integer is number") \cup
  When(\E k \in {"minimum", "maximum", "pattern"} : Has(before, k) /\ Has(after, k) /\ before[k] # after[k], "limit") \cup
  When(Closed(before) /\ DOMAIN Properties(after) \ DOMAIN Properties(before) # {}, "closed object gained a property")

RECURSIVE Unseen(_, _, _)
Unseen(schema1, schema2, direction) ==
  LET before == Flatten(schema1)
      after  == Flatten(schema2)
      shared == DOMAIN Properties(before) \cap DOMAIN Properties(after) IN
  UnseenAtAll(schema1, schema2, before, after) \cup
  (IF direction = "request" THEN UnseenRequest(before, after) ELSE UnseenResponse(before, after)) \cup
  UNION { Unseen(Properties(before)[p], Properties(after)[p], direction) : p \in shared } \cup
  (IF Has(before, "items") /\ Has(after, "items") THEN Unseen(before.items, after.items, direction) ELSE {})

StillAccepts(before, after) ==
  \A v \in Instances : Declares(before, v) /\ Satisfies(v, before) => Satisfies(v, after)
Promises(before, after) ==
  \A v \in Instances : Satisfies(v, after) => Satisfies(v, before)

RequestKept(before, after)  == Unseen(before, after, "request") = {} => StillAccepts(before, after)
ResponseKept(before, after) == Unseen(before, after, "response") = {} => Promises(before, after)

\* What becomes of properties of a closed object is compared for messages.
MessageKept(before, after) ==
  LET seen == {"closed object lost a property", "closed object gained a property"} IN
  /\ Unseen(before, after, "request") \ seen = {} => StillAccepts(before, after)
  /\ Unseen(before, after, "response") \ seen = {} => Promises(before, after)

ContentKept(old, new, Keeps(_, _)) == \A media \in DOMAIN old : media \in DOMAIN new /\ Keeps(old[media], new[media])

\* A body that is required where there was none is one more thing the comparison does not see.
CallKept(old, new) ==
  /\ \A id \in DOMAIN new.parameters :
       IF id \in DOMAIN old.parameters
         THEN /\ new.parameters[id].required => old.parameters[id].required
              /\ RequestKept(old.parameters[id].schema, new.parameters[id].schema)
         ELSE ~new.parameters[id].required
  /\ new.body.required => old.body.required \/ old.body.content = <<>>
  /\ ContentKept(old.body.content, new.body.content, RequestKept)
  /\ \A status \in DOMAIN old.responses \cap 200..299 :
       status \in DOMAIN new.responses /\ ContentKept(old.responses[status].content, new.responses[status].content, ResponseKept)

\* A release that the check passes keeps every call of the release before: what a client could send it
\* may send, a value that JSON Schema takes by the old description is one it takes by the new, and what a
\* client is given satisfies the old description; likewise a message that one side still writes or reads
\* by the old schema.  The exceptions are the changes that the comparison does not see and that Unseen and
\* CallKept name one by one, and properties that the old description does not speak of.
CompatibleIsSafe ==
  [][ IF released.kind = "openapi"
      THEN \A key \in DOMAIN released.of : key \in DOMAIN released'.of /\ CallKept(released.of[key], released'.of[key])
      ELSE MessageKept(released.of, released'.of) ]_compatVars
=============================================================================
