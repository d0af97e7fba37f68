------------------------------ MODULE MCRules ------------------------------
(***************************************************************************)
(* Small instances of the rules that are pure, and a behaviour about each: *)
(* the check of API compatibility, the build's gates, and the QR code.     *)
(***************************************************************************)
EXTENDS ApiCompat, Gates, QrCode

\* Descriptions of the API and of messages: the numbers 1, 1.5 and 2, the texts 1 and null, and null.
Leaf(t, n) == [type |-> t, is |-> n]
One        == Leaf("integer", 2)
MCLeaves   == {One, Leaf("number", 3), Leaf("integer", 4), Leaf("string", 2), Leaf("string", -1), Leaf("null", -1)}
MCDeclared == {"p", "q"}

Types  == {<<>>, [type |-> {"integer"}], [type |-> {"number"}], [type |-> {"integer", "string"}]}
Rules  == {<<>>, [enum |-> {One}], [enum |-> {One, Leaf("string", -1)}], [minimum |-> 3], [minimum |-> 2, maximum |-> 3]}
Fixed  == {[const |-> One], [const |-> Leaf("string", 2)], [enum |-> {Leaf("string", 2)}], [enum |-> {Leaf("null", -1)}],
           [pattern |-> {2}], [pattern |-> {2, -1}]}
LeafSchemas == { t @@ x : t \in Types, x \in Rules } \cup Fixed

AnObject == [type |-> {"object"}]
AnArray  == [type |-> {"array"}]
Closing  == [closed |-> TRUE]
Having(s, t) == [properties |-> [p |-> s, q |-> t]]
Holding(s, names) == AnObject @@ [properties |-> [p |-> s]] @@ [required |-> names]
Boxes == { Holding(s, names) : s \in Types \cup Fixed, names \in {{}, {"p"}} } \cup
         { AnObject @@ Having(<<>>, <<>>) @@ [required |-> names] : names \in SUBSET MCDeclared }
Joins == { [allOf |-> << [required |-> {"p"}], Holding(s, {}) >>] : s \in Types } \cup
         { [allOf |-> << Holding([type |-> {"integer"}], {}), Holding(s, {}) >>] : s \in Types } \cup
         { [allOf |-> << AnObject @@ x, AnObject @@ Having(<<>>, <<>>) >>] : x \in {Closing, [required |-> {"q"}]} }
Eithers == { t @@ [anyOf |-> <<[required |-> {"p"}], [required |-> {"q"}]>>] : t \in {<<>>, AnObject} }
Schemas == LeafSchemas \cup {AnObject, AnArray, AnObject @@ [required |-> {"p"}]} \cup Boxes \cup Joins \cup Eithers \cup
           { AnArray @@ [items |-> s] : s \in Types } \cup
           { s @@ Closing : s \in Boxes }

Taking(parameters, s, r) ==
  [ operationId |-> "it", security |-> "session", permission |-> "unstated", parameters |-> parameters,
    body |-> [required |-> TRUE, content |-> [json |-> s]],
    responses |-> 200 :> [headers |-> {}, content |-> [json |-> r]] ]
Parameters == { [id |-> [required |-> b, schema |-> s]] : b \in BOOLEAN, s \in Types }
Plain == Taking(<<>>, AnObject, AnObject)
Operations ==
  { Taking(<<>>, s, AnObject) : s \in Schemas } \cup { Taking(<<>>, AnObject, r) : r \in Schemas } \cup
  { Taking(ps, AnObject, AnObject) : ps \in Parameters } \cup
  { [Plain EXCEPT !.security = "none"], [Plain EXCEPT !.permission = "thing.view"] } \cup
  { [Plain EXCEPT !.body.required = FALSE], [Plain EXCEPT !.body = [required |-> FALSE, content |-> <<>>]] }
MCDescribed == { [post |-> o] : o \in Operations } \cup { <<>> }
MCMessages == Schemas

\* Licence expressions, policies and scans.
Word == {"mit", "gpl", "AND", "OR", "(", ")"}
Expr == UNION { [1..n -> Word] : n \in 1..5 } \cup UNION { [1..n -> Word \cup {"WITH"}] : n \in 1..4 }
Pkg(locked, installed) == [name |-> "lib", version |-> 1, locked |-> locked, installed |-> installed]
APolicy == [allowed |-> {<<"mit">>, <<"gpl">>, <<"mit", "gpl">>}, denied |-> {"gpl"}, reviewed |-> {}, declared |-> {}, exceptions |-> {}]
Review(ps, p) == [packages |-> ps, policy |-> p, today |-> 3]
Exceptions == [package : {"lib", "other"}, license : {None, <<"mpl">>}, reason : {TRUE}, reviewedAt : {None, 1}, expires : {3, 4}]
Reviewed == { [license |-> l, packages |-> ps, reason |-> b] : l \in {<<"mpl">>, <<"gpl">>}, ps \in {{"lib"}, {"other"}}, b \in BOOLEAN }
DeclaredFor == { [package |-> "lib", version |-> v, license |-> <<"mit">>, source |-> TRUE] : v \in 1..2 }
MCReviews ==
  { Review({Pkg(e, None)}, APolicy) : e \in Expr } \cup
  { Review({Pkg(e, i), Pkg(<<"mit">>, None)}, [APolicy EXCEPT !.reviewed = r, !.exceptions = x, !.declared = d]) :
      e \in {<<"mpl">>, <<"mpl", "AND", "mit">>, <<"gpl">>, None}, i \in {None, <<"mpl">>},
      r \in { {}} \cup { {y} : y \in Reviewed }, x \in {{}} \cup { {y} : y \in Exceptions }, d \in {{}} \cup { {y} : y \in DeclaredFor } }
Listing == [id : {"CVE-1"}, package : {"a", "b"}, installed : {1}, severity : {"HIGH", "LOW"}, fixed : BOOLEAN]
Reports == { r \in UNION { [1..n -> Listing] : n \in 0..2 } :
   \A i, j \in DOMAIN r : r[i].package = r[j].package => r[i] = r[j] }
ScanExceptions == [id : {"CVE-1"}, packages : {None, {"a"}}, reason : BOOLEAN, expires : {2, 3, 5, 6}]
MCScans == [report : Reports, fresh : BOOLEAN, exceptions : UNION { [1..n -> ScanExceptions] : n \in 0..2 }, today : {3}]

\* Texts that need a code of version 1, 2 and 8.
Text(n) == [ i \in 1..n |-> Bits((i * 37 + n) % 256) ]
MCTexts == { Text(n) : n \in {14, 15, 152} }
-----------------------------------------------------------------------------
RuleFoci == {"compat", "gates", "qr"}

RulesInit(focus) ==
  /\ IF focus = "compat" THEN CompatInit ELSE released = [kind |-> "openapi", of |-> <<>>]
  /\ IF focus = "gates"  THEN GatesInit  ELSE given = None /\ verdict = None
  /\ IF focus = "qr"     THEN QrInit     ELSE text = None /\ drawn = None

RulesNext(focus) ==
  \/ focus = "compat" /\ CompatNext /\ UNCHANGED <<gateVars, qrVars>>
  \/ focus = "gates"  /\ GatesNext  /\ UNCHANGED <<compatVars, qrVars>>
  \/ focus = "qr"     /\ Draw       /\ UNCHANGED <<compatVars, gateVars>>

\* The gates let through what they should, and a code reads as its text.
RulesHold == GatesHold /\ CodeReadsAsText

ruleVars == <<compatVars, gateVars, qrVars>>
=============================================================================
