------------------------------- MODULE JsonSchema -------------------------------
(***************************************************************************)
(* The generation of a JSON Schema document: generate_with_serializers of  *)
(* json_schema/static_schema.rs, its loop over computed fields and its     *)
(* loop over the definitions that are referred to; and generate_json_schema*)
(* of json_schema.rs for schemas built in memory.  One action is one part, *)
(* computed field or definition.  When several errors are possible in one  *)
(* part, which of them comes first is left open.                           *)
(***************************************************************************)
EXTENDS JsonAcceptance

CONSTANTS
  MaxDepth,    \* MAX_JSON_SCHEMA_DEPTH
  MaxNodes,    \* MAX_STATIC_JSON_SCHEMA_NODES
  Names,       \* of definitions
  Schemas,     \* the schemas, by name: origin, schema, definitions, computed, values
  Inputs       \* JSON values to validate

ASSUME LimitsAssumption == MaxDepth \in Nat \ {0} /\ MaxNodes \in Nat \ {0}
ASSUME NamesAssumption  == \A s \in DOMAIN Schemas : DOMAIN Schemas[s].definitions \subseteq Names

VARIABLES
  job,         \* the schema whose document is asked for; never changes
  o,           \* mode, byAlias, profile and the schema's origin; never changes
  phase,       \* "root", "computed", "definitions" or "done"
  computed,    \* computed fields appended
  nodes,       \* generated_nodes
  definitions, \* the names listed, in order
  index,       \* definition_index
  document,    \* << >> or <<the document>>
  generated,   \* the definitions' documents
  result       \* << >>, <<"document">> or <<"error", kind>>

vars == <<job, o, phase, computed, nodes, definitions, index, document, generated, result>>

Schema      == job.schema
Definitions == job.definitions
Computed    == IF o.mode = "serialization" THEN job.computed ELSE << >>

Init ==
  /\ \E s \in DOMAIN Schemas : job = Schemas[s]
  /\ o \in [mode : {"validation", "serialization"}, byAlias : BOOLEAN,
            profile : {"exact", "web", "string_ints"}, origin : {job.origin}]
  /\ phase = "root"
  /\ computed = 0
  /\ nodes = 0
  /\ definitions = << >>
  /\ index = 0
  /\ document = None
  /\ generated = << >>
  /\ result = None

-----------------------------------------------------------------------------
ErrorsPerPart(node, depth, before) ==
  AllFaults(node, o)
    \cup IF \/ depth + Height(node, o) > MaxDepth
             \/ (o.origin = "static" /\ Size(node, o) > MaxNodes)
         THEN {"limit"} ELSE {}

(* The kinds of the errors that generate_node may answer with for a node   *)
(* at a depth, when some nodes have been generated before.                 *)
Errors(node, depth, before) ==
  AllFaults(node, o)
    \cup IF \/ depth + Height(node, o) > MaxDepth
             \/ (o.origin = "static" /\ before + Size(node, o) > MaxNodes)
         THEN {"limit"} ELSE {}

MentionUnlessLast(names, listed) ==
  FoldLeft(LAMBDA all, n : IF all # << >> /\ Last(all) = n THEN all ELSE Append(all, n), listed, names)

MentionFirst(names, listed) ==
  IF names = << >> \/ Head(names) \in Range(listed) THEN listed ELSE Append(listed, Head(names))

(* The references of a part: those whose name is not there are pushed.     *)
Mention(names, listed) ==
  FoldLeft(LAMBDA all, n : IF n \in Range(all) THEN all ELSE Append(all, n), listed, names)

Refuse(kind) ==
  /\ result' = <<"error", kind>>
  /\ phase' = "done"
  /\ UNCHANGED <<job, o, computed, nodes, definitions, index, document, generated>>

(* A node is generated: what it counts and refers to.                      *)
Visit(node) ==
  /\ nodes' = nodes + Size(node, o)
  /\ definitions' = Mention(References(node, o), definitions)

GenerateRoot ==
  /\ phase = "root" /\ o.origin = "static"
  /\ IF Errors(Schema, 0, nodes) # {}
     THEN \E kind \in Errors(Schema, 0, nodes) : Refuse(kind)
     ELSE /\ Visit(Schema)
          /\ document' = <<Document(Schema, o)>>
          /\ phase' = "computed"
          /\ UNCHANGED <<job, o, computed, index, generated, result>>

(* append_computed_fields: an iteration.  The document must be that of a   *)
(* model, and no property may have the name already.                       *)
ComputedName(field) ==
  IF o.byAlias /\ field.alias # None THEN field.alias[1] ELSE field.target

AppendComputed ==
  /\ phase = "computed" /\ computed < Len(Computed)
  /\ LET field == Computed[computed + 1]
         name == ComputedName(field)
         doc == document[1]
         errors == Errors(field.output, 1, nodes)
                     \cup IF "properties" \notin DOMAIN doc \/ name \in DOMAIN doc["properties"]
                          THEN {"unsupported"} ELSE {}
     IN  IF errors # {}
         THEN \E kind \in errors : Refuse(kind)
         ELSE /\ Visit(field.output)
              /\ document' = <<[doc EXCEPT !["properties"] = @ @@ name :> Document(field.output, o),
                                           !["required"] = @ \cup {name}]>>
              /\ computed' = computed + 1
              /\ UNCHANGED <<job, o, phase, index, generated, result>>

CloseComputed ==
  /\ phase = "computed" /\ computed = Len(Computed)
  /\ phase' = "definitions"
  /\ UNCHANGED <<job, o, computed, nodes, definitions, index, document, generated, result>>

(* An iteration of the loop over the definitions.                          *)
GenerateDefinition ==
  /\ phase = "definitions" /\ index < Len(definitions)
  /\ LET name == definitions[index + 1]
         definition == Definitions[name]
         errors == Errors(definition, 1, nodes)
     IN  IF errors # {}
         THEN \E kind \in errors : Refuse(kind)
         ELSE /\ Visit(definition)
              /\ generated' = name :> Document(definition, o) @@ generated
              /\ index' = index + 1
              /\ UNCHANGED <<job, o, phase, computed, document, result>>

Finish ==
  /\ phase = "definitions" /\ index = Len(definitions)
  /\ phase' = "done"
  /\ result' = <<"document">>
  /\ UNCHANGED <<job, o, computed, nodes, definitions, index, document, generated>>

(* generate_json_schema.  A schema with definitions is a node of its own   *)
(* above them, and there is no limit on nodes.                             *)
GenerateOwned ==
  /\ phase = "root" /\ o.origin = "owned"
  /\ LET depth == IF Definitions = << >> THEN 0 ELSE 1
         all == {Schema} \cup {Definitions[n] : n \in DOMAIN Definitions}
         errors == UNION {Errors(node, depth, 0) : node \in all}
     IN  IF errors # {}
         THEN \E kind \in errors : Refuse(kind)
         ELSE /\ document' = <<Document(Schema, o)>>
              /\ generated' = [n \in DOMAIN Definitions |-> Document(Definitions[n], o)]
              /\ phase' = "done"
              /\ result' = <<"document">>
              /\ UNCHANGED <<job, o, computed, nodes, definitions, index>>

Next ==
  \/ GenerateRoot
  \/ AppendComputed
  \/ CloseComputed
  \/ GenerateDefinition
  \/ Finish
  \/ GenerateOwned

Spec == Init /\ [][Next]_vars

-----------------------------------------------------------------------------
(* The parts of the schema itself that are gone through before the         *)
(* definitions.  A schema built in memory has none: it brings its          *)
(* definitions along.                                                      *)
OwnParts == IF o.origin = "owned" THEN << >>
            ELSE <<Schema>> \o [c \in DOMAIN Computed |-> Computed[c].output]

ReferencesOf(node) == Range(References(node, o))

RefersOf(name) == IF name \in DOMAIN Definitions THEN ReferencesOf(Definitions[name]) ELSE {}

Worklist == INSTANCE DefinitionWorklist WITH
  needs   <- [p \in DOMAIN OwnParts |-> ReferencesOf(OwnParts[p])],
  refers  <- [name \in Names |-> RefersOf(name)],
  begun   <- IF document = None \/ o.origin = "owned" THEN 0 ELSE 1 + computed,
  listed  <- definitions,
  handled <- index,
  status  <- IF result = None THEN "working" ELSE IF result[1] = "error" THEN "failed" ELSE "done"

(* The generation goes through its definitions as the worklist does: each  *)
(* is listed when it is first referred to, and generated once.             *)
WorklistKept == Worklist!Spec

Done == result = <<"document">>

(* Every reference in a finished document leads to one of its definitions, *)
(* and a static program's document has no definition that none leads to.   *)
Closed ==
  Done =>
    LET mentioned == RefersTo(document[1])
                       \cup UNION {RefersTo(generated[n]) : n \in DOMAIN generated}
    IN  /\ mentioned \subseteq DOMAIN generated
        /\ o.origin = "static" => mentioned = DOMAIN generated

-----------------------------------------------------------------------------
(* The definitions that are reached from the schema.                       *)
Reached ==
  IF o.origin = "owned" THEN DOMAIN Definitions
  ELSE {n \in Names :
          \A names \in SUBSET Names : Worklist!Mentioned(names) => n \in names}

(* The nodes generated first, and the depth they have in the document.     *)
Roots ==
  LET own(p) == <<OwnParts[p], IF p = 1 THEN 0 ELSE 1>>
      scoped == IF Definitions = << >> THEN 0 ELSE 1
  IN  (IF o.origin = "owned" THEN {<<Schema, scoped>>} ELSE {own(p) : p \in DOMAIN OwnParts})

ComputedNames == [c \in DOMAIN Computed |-> ComputedName(Computed[c])]

(* The part whose document is the schema's own: a root model has that of   *)
(* its root, a function that of its output.                                *)
RECURSIVE Shaping(_)
Shaping(node) ==
  IF (node.tag = "model" /\ node.root) \/ node.tag = "function"
  THEN Shaping(Parts(node, o)[1]) ELSE node

(* Computed fields join the properties of a model, under names of their    *)
(* own.                                                                    *)
ComputedFit ==
  Computed # << >> =>
    /\ Shaping(Schema).tag = "model"
    /\ \A c, d \in DOMAIN Computed : ComputedNames[c] = ComputedNames[d] => c = d
    /\ \A c \in DOMAIN Computed : <<ComputedNames[c]>> \notin Range(FieldNames(Shaping(Schema), o))

SizeOfAll(n) == FoldSet(LAMBDA name, total : total + Size(Definitions[name], o), n, Reached)

(* A document is refused for a reason and never for another: something     *)
(* that is reached has no document, lies too deep, or what is reached, all *)
(* together and every definition counted once, has too many nodes.         *)
Verdict ==
  result # None =>
    LET roots == Roots
        below == {<<Definitions[n], 1>> : n \in Reached}
        own == FoldLeft(LAMBDA total, node : total + Size(node, o), 0, OwnParts)
    IN  Done <=>
          /\ \A part \in roots \cup below :
               AllFaults(part[1], o) = {} /\ part[2] + Height(part[1], o) <= MaxDepth
          /\ ComputedFit
          /\ o.origin = "static" => SizeOfAll(own) <= MaxNodes

-----------------------------------------------------------------------------
RECURSIVE WithoutDuplicates(_)
WithoutDuplicates(json) ==
  CASE json[1] = "array" -> /\ Cardinality(Range(json[2])) = Len(json[2])
                            /\ \A i \in DOMAIN json[2] : WithoutDuplicates(json[2][i])
    [] json[1] = "object" -> \A n \in DOMAIN json[2] : WithoutDuplicates(json[2][n])
    [] OTHER -> TRUE

(* The document of a schema's input lies between its two modes: what       *)
(* strict validation accepts satisfies the document, and what satisfies    *)
(* it is accepted by lax validation.  Items that repeat are left aside:    *)
(* a set drops them and its document forbids them.                         *)
DescribesInput ==
  Done /\ o.mode = "validation" /\ IsAsserted(Schema)
    /\ (\A n \in DOMAIN Definitions : IsAsserted(Definitions[n])) =>
    \A json \in {v \in Inputs : WithoutDuplicates(v)} :
      LET satisfies == Sat(document[1], generated, json)
      IN  /\ Accepts(Schema, Definitions, json, TRUE) => satisfies
          /\ satisfies => Accepts(Schema, Definitions, json, FALSE)

-----------------------------------------------------------------------------
(* The dump of a value, with all options off except the aliases: the       *)
(* policies of the schema and of its computed fields, applied.             *)
Dumped(value) ==
  LET native == NativeOf(value)
      options == [byAlias |-> o.byAlias, excludeNone |-> FALSE, excludeDefaults |-> FALSE,
                  include |-> {}, exclude |-> {}]
      policies == Compile(Schema, << >>)
                    \o FlattenSeq([c \in DOMAIN Computed |-> CompileCallback(Computed[c])])
  IN  ApplyOptions(policies, options,
                   IF Schema.tag = "model" /\ Schema.root THEN RootValue(native) ELSE native, << >>)

IsInteger(text) == text \in DOMAIN Numerals /\ Numerals[text] % 2 = 0

(* What JSON has no form for: bytes, and floats that are not finite.       *)
Formless == {"bytes", "nan"}

(* Why a dump is refused: for a scalar without a form, or for an integer   *)
(* that encode_integer_for_profile does not write, an unsafe one for the   *)
(* web.                                                                    *)
RECURSIVE Refusals(_)
Refusals(value) ==
  LET is(scalars) == value.kind = "scalar" /\ value.scalar \in scalars
  IN  (IF is(Formless) THEN {"unsupported"} ELSE {})
        \cup (IF o.profile = "web" /\ is({t \in DOMAIN Numerals : IsInteger(t) /\ IsUnsafe(Numerals[t] \div 2)})
              THEN {"integer-policy"} ELSE {})
        \cup UNION {Refusals(value.children[i]) : i \in DOMAIN value.children}

(* A scalar that is not refused, as it is written.                         *)
ScalarJson(text) ==
  CASE text = "null" -> JsonNull
    [] text \in {"true", "false"} -> JsonBool(text = "true")
    [] IsInteger(text) /\ o.profile = "string_ints" -> JsonText(text)
    [] text \in DOMAIN Numerals /\ (IsInteger(text) => o.profile # "string_ints") ->
         JsonNumber(Numerals[text])
    [] OTHER -> JsonText(text)

RECURSIVE JsonOf(_)
JsonOf(value) ==
  LET parts == value.children
      position(n) == CHOOSE i \in DOMAIN value.names : value.names[i] = n
      entry(n) == CHOOSE e \in 1 .. Len(parts) \div 2 : parts[2 * e - 1].scalar = n
  IN  CASE value.kind = "scalar" -> ScalarJson(value.scalar)
        [] value.kind = "record" ->
             JsonObject([n \in Range(value.names) |-> JsonOf(parts[position(n)])])
        [] value.kind = "mapping" ->
             JsonObject([n \in {parts[2 * e - 1].scalar : e \in 1 .. Len(parts) \div 2} |->
                           JsonOf(parts[2 * entry(n)])])
        [] OTHER -> JsonArray([i \in DOMAIN parts |-> JsonOf(parts[i])])

(* The document of a schema's output holds for every dump that is written, *)
(* for the same aliases and the same integer profile; and a dump is        *)
(* refused only for a scalar that JSON has no form for, never for an       *)
(* integer that the document has promised to the web.  Bytes and NaN are   *)
(* refused although their types have a document.                           *)
DescribesOutput ==
  Done /\ o.mode = "serialization" =>
    \A value \in job.values :
      LET dumped == Dumped(value)
      IN  /\ Refusals(dumped) \subseteq {"unsupported"}
          /\ Refusals(dumped) = {} => Sat(document[1], generated, JsonOf(dumped))
=============================================================================
