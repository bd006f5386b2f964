----------------------------- MODULE JsonAcceptance -----------------------------
(***************************************************************************)
(* Which JSON values a schema accepts, in strict and in lax mode: what     *)
(* validate_node answers for the profile Json, without the value it builds *)
(* and without the errors.  Scalars are those of scalars.rs and textual.rs *)
(* (no limit on digits, no stripping, no conversion of letters); a         *)
(* validator function accepts what it is given.  The texts of numbers are  *)
(* canonical, and a whole number is never written as 1.0.                  *)
(***************************************************************************)
EXTENDS JsonSchemaDocument

BoolTexts == {"0", "false", "f", "no", "n", "off", "1", "true", "t", "yes", "y", "on"}

(* validate_bool *)
AcceptsBool(json, strict) ==
  \/ json[1] = "boolean"
  \/ ~strict /\ json \in {JsonNumber(0), JsonNumber(2)}
  \/ ~strict /\ json[1] = "string" /\ json[2] \in BoolTexts

(* The number, doubled, that exact_integer or validate_float reads.        *)
ReadNumber(json, strict) ==
  CASE json[1] = "number" -> <<json[2]>>
    [] json[1] = "boolean" /\ ~strict -> <<IF json[2] THEN 2 ELSE 0>>
    [] json[1] = "string" /\ ~strict /\ json[2] \in DOMAIN Numerals -> <<Numerals[json[2]]>>
    [] OTHER -> None

Fits(size, least, most) ==
  /\ least # None => least[1] <= size
  /\ most # None => size <= most[1]

(* validate_integer_constraints and the constraints of validate_float.     *)
MeetsBounds(rule, n) ==
  /\ rule.gt # None => n > rule.gt[1]
  /\ Fits(n, rule.ge, rule.le)
  /\ rule.lt # None => n < rule.lt[1]
  /\ rule.multiple # None => n % rule.multiple[1] = 0

AcceptsInteger(rule, json, strict) ==
  LET read == ReadNumber(json, strict)
      n == read[1] \div 2
  IN  /\ read # None /\ read[1] % 2 = 0
      /\ rule.target # None => n \in rule.target[1][1] .. rule.target[1][2]
      /\ MeetsBounds(rule, n)

AcceptsFloat(rule, json, strict) ==
  LET read == ReadNumber(json, strict)
  IN  read # None /\ MeetsBounds(rule, read[1])

(* validate_string *)
AcceptsText(rule, json) ==
  /\ json[1] = "string"
  /\ Fits(Len(json[2]), rule.min, rule.max)
  /\ rule.pattern # None => json[2] \in Patterns[rule.pattern[1]]

(* resolve_alias: the member of an object that an alias path leads to.     *)
(* Paths of several segments have no document and none is here.            *)
Entry(field, model, members) ==
  LET names == {field.paths[p][1][2] : p \in DOMAIN field.paths}
                 \cup IF field.paths = << >> \/ model.rule.byName THEN {field.name} ELSE {}
  IN  names \cap DOMAIN members

RECURSIVE Accepts(_, _, _, _)

AcceptsModel(node, defs, members, strict) ==
  LET fields == SelectSeq(node.fields, LAMBDA field : field.input)
      entry == [f \in DOMAIN fields |-> Entry(fields[f], node, members)]
      extra == DOMAIN members \ UNION Range(entry)
  IN  /\ \A f \in DOMAIN fields :
           IF entry[f] = {} THEN ~fields[f].required
           ELSE \A name \in entry[f] : Accepts(fields[f].schema, defs, members[name], strict)
      /\ node.rule.extra = "forbid" => extra = {}
      /\ node.rule.extra = "allow" =>
           \A name \in extra : Accepts(node.children[1], defs, members[name], strict)

Accepts(node, defs, json, strict) ==
  LET kind == json[1]
      held == json[2]
      child(c, part) == Accepts(node.children[c], defs, part, strict)
  IN  CASE node.tag = "none"     -> kind = "null"
        [] node.tag = "bool"     -> AcceptsBool(json, strict)
        [] node.tag = "integer"  -> AcceptsInteger(node.rule, json, strict)
        [] node.tag = "float"    -> AcceptsFloat(node.rule, json, strict)
        [] node.tag = "string"   -> AcceptsText(node.rule, json)
        [] node.tag = "literal"  -> json \in Range(node.rule.values)
        [] node.tag = "nullable" -> kind = "null" \/ child(1, json)
        [] node.tag = "union"    -> \E c \in DOMAIN node.children : child(c, json)
        [] node.tag = "tagged-union" ->
             /\ kind = "object" /\ node.rule.discriminator \in DOMAIN held
             /\ \E c \in DOMAIN node.children :
                  /\ held[node.rule.discriminator] \in node.rule.tags[c]
                  /\ \A d \in 1 .. c - 1 : held[node.rule.discriminator] \notin node.rule.tags[d]
                  /\ child(c, json)
        [] node.tag = "ref"   -> Accepts(defs[node.rule.name], defs, json, strict)
        [] node.tag = "model" ->
             IF node.root THEN Accepts(node.fields[1].schema, defs, json, strict)
             ELSE kind = "object" /\ AcceptsModel(node, defs, held, strict)
        [] node.tag \in {"list", "set", "frozen-set"} ->
             /\ kind = "array"
             /\ Fits(IF node.tag = "list" THEN Len(held) ELSE Cardinality(Range(held)),
                     node.rule.min, node.rule.max)
             /\ \A i \in DOMAIN held : child(1, held[i])
        [] node.tag = "tuple" ->
             /\ kind = "array" /\ Len(held) = Len(node.children)
             /\ \A i \in DOMAIN held : child(i, held[i])
        [] node.tag = "mapping" ->
             /\ kind = "object"
             /\ Fits(Cardinality(DOMAIN held), node.rule.min, node.rule.max)
             /\ \A name \in DOMAIN held :
                  /\ Accepts(node.children[1], defs, JsonText(name), FALSE)
                  /\ child(2, held[name])
        [] node.tag = "lax-or-strict" -> child(IF strict THEN 2 ELSE 1, json)
        [] node.tag \in {"json-or-structural", "function"} -> child(1, json)
        [] OTHER -> FALSE

(* The schemas the definition above speaks of: those whose documents also  *)
(* assert all there is to assert.                                          *)
RECURSIVE IsAsserted(_)
IsAsserted(node) ==
  /\ node.tag \notin {"bytes", "url", "pattern", "temporal", "uuid", "embedded-json", "chain",
                      "generator", "definitions", "decimal"}
  /\ \A f \in DOMAIN node.fields : IsAsserted(node.fields[f].schema)
  /\ \A c \in DOMAIN node.children : IsAsserted(node.children[c])
=============================================================================
