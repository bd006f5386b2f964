--------------------------- MODULE JsonSchemaDocument ---------------------------
(***************************************************************************)
(* The document of a schema: generate of json_schema.rs, for the schemas   *)
(* that are built in memory ("owned"), and generate_node of                *)
(* json_schema/static_schema.rs, for the programs of the Sifr compiler     *)
(* ("static").  The two differ in a few places and share the rest.         *)
(* A schema node has a tag, fields or children, a rule (what else the tag  *)
(* needs; an optional part is << >> or <<part>>) and the keys it adds as   *)
(* json_schema_extra.  Integers are plain in a rule and doubled in a       *)
(* document; floats are doubled in both.  A lax-or-strict node has its lax *)
(* schema first, a json-or-structural node its schema for JSON, a function *)
(* the schema of what it is given.  Titles, descriptions, examples,        *)
(* formats and x-sifr annotations assert nothing and are left out.         *)
(***************************************************************************)
EXTENDS StructuralDump, JsonSchemaMeaning

CONSTANTS
  Numerals,      \* twice the number a decimal text stands for
  SafeInteger    \* the greatest integer JavaScript holds exactly

DecimalPattern == "^-?[0-9]+$"

ASSUME NumeralsAssumption ==
  /\ SafeInteger \in Nat
  /\ \A t \in DOMAIN Numerals : Numerals[t] \in Int
  /\ Patterns[DecimalPattern] = {t \in DOMAIN Numerals : Numerals[t] % 2 = 0}

Decimal(h) == CHOOSE t \in DOMAIN Numerals : Numerals[t] = h

(* A keyword that is there when its value is.                              *)
Given(keyword, option) == IF option = None THEN << >> ELSE keyword :> option[1]

Typed(name) == "type" :> name

Sized(least, most, rule) == Given(least, rule.min) @@ Given(most, rule.max)

-----------------------------------------------------------------------------
(* The parts of a node that are generated, in order.                       *)
VisibleFields(node, o) ==
  SelectSeq(node.fields, LAMBDA field :
    IF o.mode = "validation" THEN field.input ELSE o.origin = "owned" \/ ~field.excluded)

Parts(node, o) ==
  LET extra == IF o.origin = "owned" /\ o.mode = "validation" /\ node.rule.extra = "allow"
               THEN node.children ELSE << >>
      schemas(fields) == [f \in DOMAIN fields |-> fields[f].schema]
  IN  CASE node.tag = "model" /\ node.root  -> schemas(node.fields)
        [] node.tag = "model" /\ ~node.root -> schemas(VisibleFields(node, o)) \o extra
        [] node.tag \in {"function", "lax-or-strict", "json-or-structural"} ->
             <<node.children[IF o.mode = "validation" THEN 1 ELSE 2]>>
        [] node.tag = "chain" ->
             <<IF o.mode = "validation" THEN Head(node.children) ELSE node.children[Len(node.children)]>>
        [] OTHER -> node.children

(* The calls of generate_node, and how deep they go below the first.       *)
RECURSIVE Size(_, _)
Size(node, o) ==
  FoldLeft(LAMBDA total, part : total + Size(part, o), 1, Parts(node, o))

RECURSIVE Height(_, _)
Height(node, o) ==
  FoldLeft(LAMBDA highest, part : IF Height(part, o) >= highest THEN Height(part, o) + 1 ELSE highest,
           0, Parts(node, o))

(* The definitions it refers to, in the order they are met.                *)
RECURSIVE References(_, _)
References(node, o) ==
  (IF node.tag = "ref" THEN <<node.rule.name>> ELSE << >>)
    \o FlattenSeq([p \in DOMAIN Parts(node, o) |-> References(Parts(node, o)[p], o)])

-----------------------------------------------------------------------------
(* model_field_name and field_name: << >> where there is no name to give.  *)
NonEmpty(name) == IF name = "" THEN None ELSE <<name>>

FieldName(model, field, o) ==
  LET output == IF o.byAlias /\ field.alias # None THEN field.alias[1] ELSE field.name
  IN  CASE o.mode = "serialization" ->
             IF o.byAlias /\ o.origin = "owned" THEN NonEmpty(output) ELSE <<output>>
        [] o.mode = "validation" /\ field.paths = << >> -> <<field.name>>
        [] OTHER ->
             IF Len(field.paths) = 1 /\ ~model.rule.byName /\ Len(field.paths[1]) = 1
                  /\ field.paths[1][1][1] = "field"
             THEN NonEmpty(field.paths[1][1][2]) ELSE None

FieldNames(model, o) ==
  LET fields == VisibleFields(model, o)
  IN  [f \in DOMAIN fields |-> FieldName(model, fields[f], o)]

IsUnsafe(n) == n < -SafeInteger \/ n > SafeInteger

(* integer_bounds                                                          *)
Least(options)    == IF options = {} THEN None ELSE <<CHOOSE n \in options : \A m \in options : n <= m>>
Greatest(options) == IF options = {} THEN None ELSE <<CHOOSE n \in options : \A m \in options : n >= m>>
Shifted(option, by) == IF option = None THEN {} ELSE {option[1] + by}

IntegerMinimum(rule) ==
  Greatest(Shifted(rule.ge, 0) \cup Shifted(rule.gt, 1)
             \cup IF rule.target = None THEN {} ELSE {rule.target[1][1]})

IntegerMaximumInclusive(rule) ==
  Least(Shifted(rule.le, 0) \cup Shifted(rule.lt, 0)
          \cup IF rule.target = None THEN {} ELSE {rule.target[1][2]})

IntegerMaximum(rule) ==
  Least(Shifted(rule.le, 0) \cup Shifted(rule.lt, -1)
          \cup IF rule.target = None THEN {} ELSE {rule.target[1][2]})

NotPositive(multiple) == multiple # None /\ multiple[1] <= 0

(* reserved_extra_key: what json_schema_extra must not replace, of the     *)
(* keywords that documents have here.                                      *)
Reserved ==
  {"$ref", "type", "const", "enum", "not", "pattern", "minimum", "maximum", "exclusiveMinimum",
   "exclusiveMaximum", "multipleOf", "minLength", "maxLength", "minItems", "maxItems",
   "uniqueItems", "prefixItems", "items", "properties", "propertyNames", "minProperties",
   "maxProperties", "required", "additionalProperties", "anyOf", "oneOf"}

(* The kinds of error a node by itself meets, besides the limits.          *)
Faults(node, o) ==
  LET static == o.origin = "static"
      when(kind, condition) == IF condition THEN {kind} ELSE {}
      integers == {v[2] \div 2 : v \in {w \in Range(node.rule.values) : w[1] = "number"}}
      names == FieldNames(node, o)
      unnamed == \/ None \in Range(names)
                 \/ \E f, g \in DOMAIN names : f # g /\ names[f] = names[g]
  IN  when("unsupported", static /\ node.keys \cap Reserved # {})
    \cup
      CASE node.tag = "integer" ->
             LET least == IntegerMinimum(node.rule)
                 most == IntegerMaximum(node.rule)
             IN  when("number", NotPositive(node.rule.multiple))
                 \cup when("integer-policy",
                           /\ o.profile = "web"
                           /\ least = None \/ most = None \/ IsUnsafe(least[1]) \/ IsUnsafe(most[1]))
        [] node.tag = "float" -> when("number", NotPositive(node.rule.multiple))
        [] node.tag = "literal" ->
             when("integer-policy", o.profile = "web" /\ \E n \in integers : IsUnsafe(n))
             \cup when("unsupported", \E v \in Range(node.rule.values) : v[1] = "bytes")
        [] node.tag = "bytes" -> when("unsupported", ~static)
        [] node.tag = "pattern" -> when("unsupported", ~static /\ o.mode = "serialization")
        [] node.tag \in {"temporal", "uuid"} -> when("unsupported", static \/ o.mode = "serialization")
        [] node.tag = "mapping" -> when("unsupported", node.children[1].tag # "string")
        [] node.tag = "model" /\ node.root ->
             when("unsupported", Len(node.fields) # 1 \/ node.fields[1].name # "root")
        [] node.tag = "model" /\ ~node.root ->
             when("unsupported",
                  unnamed \/ (static /\ o.mode = "validation" /\ node.rule.extra = "allow"))
        [] node.tag \in {"frozen-set", "generator", "embedded-json", "lax-or-strict",
                         "json-or-structural", "chain"} -> when("unsupported", static)
        [] node.tag \in {"decimal", "definitions"} -> {"unsupported"}
        [] OTHER -> {}

RECURSIVE AllFaults(_, _)
AllFaults(node, o) ==
  Faults(node, o) \cup UNION {AllFaults(part, o) : part \in Range(Parts(node, o))}

-----------------------------------------------------------------------------
IntegerSchema(rule, o) ==
  IF o.mode = "serialization" /\ o.profile = "string_ints"
  THEN Typed("string") @@ "pattern" :> DecimalPattern
  ELSE LET twice(option) == IF option = None THEN None ELSE <<2 * option[1]>>
       IN  Typed("integer")
             @@ Given("minimum", twice(IntegerMinimum(rule)))
             @@ Given("maximum", twice(IntegerMaximum(rule)))
             @@ Given("multipleOf", twice(rule.multiple))

FloatSchema(rule) ==
  Typed("number") @@ Given("exclusiveMinimum", rule.gt) @@ Given("minimum", rule.ge)
    @@ Given("exclusiveMaximum", rule.lt) @@ Given("maximum", rule.le)
    @@ Given("multipleOf", rule.multiple)


(* literal_schema and literal_value                                        *)
LiteralSchema(rule, o) ==
  LET asText(v) == o.mode = "serialization" /\ o.profile = "string_ints" /\ v[1] = "number"
      written == [i \in DOMAIN rule.values |->
                    IF asText(rule.values[i]) THEN JsonText(Decimal(rule.values[i][2]))
                    ELSE rule.values[i]]
  IN  IF Len(written) = 1 THEN "const" :> written[1] ELSE "enum" :> Range(written)

RECURSIVE Document(_, _)

(* model_schema                                                            *)
ModelSchema(node, o) ==
  LET fields == VisibleFields(node, o)
      name == [f \in DOMAIN fields |-> FieldName(node, fields[f], o)[1]]
      required == {f \in DOMAIN fields : o.mode = "serialization" \/ fields[f].required}
      additional == CASE o.mode = "serialization" \/ node.rule.extra = "forbid" -> Never
                      [] o.mode = "validation" /\ node.rule.extra = "ignore" -> Anything
                      [] OTHER -> Document(node.children[1], o)
  IN  Typed("object")
        @@ "properties" :> [n \in Range(name) |->
                              Document(fields[CHOOSE f \in DOMAIN fields : name[f] = n].schema, o)]
        @@ "required" :> {name[f] : f \in required}
        @@ "additionalProperties" :> additional

(* generate and generate_node, of a schema without faults.                 *)
Document(node, o) ==
  LET parts == [p \in DOMAIN Parts(node, o) |-> Document(Parts(node, o)[p], o)]
      output ==
        CASE node.tag = "none"    -> Typed("null")
          [] node.tag = "bool"    -> Typed("boolean")
          [] node.tag = "integer" -> IntegerSchema(node.rule, o)
          [] node.tag = "float"   -> FloatSchema(node.rule)
          [] node.tag = "string"  ->
               Typed("string") @@ Sized("minLength", "maxLength", node.rule)
                 @@ Given("pattern", node.rule.pattern)
          [] node.tag = "bytes"   -> Typed("string") @@ Sized("minLength", "maxLength", node.rule)
          [] node.tag \in {"url", "pattern", "temporal", "uuid"} -> Typed("string")
          [] node.tag = "literal"      -> LiteralSchema(node.rule, o)
          [] node.tag = "nullable"     -> "anyOf" :> <<parts[1], Typed("null")>>
          [] node.tag = "union"        -> "anyOf" :> parts
          [] node.tag = "tagged-union" -> "oneOf" :> parts
          [] node.tag = "ref"          -> "$ref" :> node.rule.name
          [] node.tag = "model"        -> IF node.root THEN parts[1] ELSE ModelSchema(node, o)
          [] node.tag \in {"list", "generator"} ->
               Typed("array") @@ "items" :> parts[1] @@ Sized("minItems", "maxItems", node.rule)
          [] node.tag \in {"set", "frozen-set"} ->
               Typed("array") @@ "items" :> parts[1] @@ Sized("minItems", "maxItems", node.rule)
                 @@ "uniqueItems" :> TRUE
          [] node.tag = "tuple" ->
               Typed("array") @@ "prefixItems" :> parts
                 @@ "minItems" :> Len(parts) @@ "maxItems" :> Len(parts)
          [] node.tag = "mapping" ->
               Typed("object") @@ "propertyNames" :> parts[1] @@ "additionalProperties" :> parts[2]
                 @@ Sized("minProperties", "maxProperties", node.rule)
          [] node.tag = "embedded-json" /\ o.mode = "validation" ->
               Typed("string") @@ "contentSchema" :> parts[1]
          [] OTHER -> parts[1]
  IN  IF o.origin = "static" THEN [key \in node.keys |-> "extra"] @@ output ELSE output
=============================================================================
