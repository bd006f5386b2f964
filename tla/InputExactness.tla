----------------------------- MODULE InputExactness -----------------------------
(***************************************************************************)
(* How a smart union tells its accepted branches apart when the input is   *)
(* JSON: candidate_exactness and validated_field_score of                  *)
(* validation/sums.rs, and candidate_exactness of                          *)
(* validation/static_sums.rs.  The exactness is guessed from the shapes of *)
(* schema and input, without validating again, so it knows nothing of      *)
(* constraints and extras, and of nested unions only that some branch fits.*)
(* The context o says whether the options are strict and where the schema  *)
(* comes from, "owned" or "static": the two guess differently for control  *)
(* schemas.  The depth of 256 at which both give up is left out.           *)
(***************************************************************************)
EXTENDS JsonAcceptance

NoModels == -1        \* field_count.is_none()

(* schema_is_string, static_schema_is_string                               *)
RECURSIVE IsText(_, _)
IsText(node, defs) ==
  CASE node.tag = "string" -> TRUE
    [] node.tag = "ref"    -> IsText(defs[node.rule.name], defs)
    [] node.tag \in {"lax-or-strict", "json-or-structural"} -> IsText(node.children[1], defs)
    [] node.tag = "chain"  -> IsText(Last(node.children), defs)
    [] OTHER -> FALSE

(* The children of a control schema that are asked.  A static schema is    *)
(* asked for both, whichever of them validates.                            *)
AskedChildren(node, o) ==
  CASE o.origin = "static"        -> {1, 2}
    [] node.tag = "lax-or-strict" -> {IF o.strict THEN 2 ELSE 1}
    [] OTHER                      -> {1}

(* input_matches.  A JSON array is a sequence of the kind JsonArray, which *)
(* no collection schema asks for: lists, tuples and sets never match.      *)
RECURSIVE InputMatches(_, _, _, _, _)

ModelInputMatchesPresent(node, defs, members, level, o) ==
  \A f \in DOMAIN node.fields :
    node.fields[f].input /\ node.fields[f].required => Entry(node.fields[f], node, members) # {}

(* model_input_matches; a root model has no way of its own here.           *)
ModelInputMatches(node, defs, members, level, o) ==
  \A f \in DOMAIN node.fields :
    LET field == node.fields[f]
        entry == Entry(field, node, members)
    IN  field.input =>
          IF entry = {} THEN ~field.required
          ELSE \A name \in entry : InputMatches(field.schema, defs, members[name], level, o)

(* mapping_input_matches, for the objects of JSON.                         *)
MappingInputMatches(node, defs, members, level, o) ==
  /\ IsText(node.children[1], defs)
  /\ \A name \in DOMAIN members : InputMatches(node.children[2], defs, members[name], level, o)

InputMatches(node, defs, json, level, o) ==
  LET kind == json[1]
      held == json[2]
      child(c) == InputMatches(node.children[c], defs, json, level, o)
  IN  CASE node.tag = "none"     -> kind = "null"
        [] node.tag = "bool"     -> kind = "boolean"
        [] node.tag = "integer"  -> kind = "number" /\ held % 2 = 0
        [] node.tag = "float"    -> kind = "number" /\ (held % 2 = 1 \/ level = "strict")
        [] node.tag = "string"   -> kind = "string"
        [] node.tag = "literal"  -> json \in Range(node.rule.values)
        [] node.tag = "nullable" -> kind = "null" \/ child(1)
        [] node.tag \in {"union", "tagged-union"} -> \E c \in DOMAIN node.children : child(c)
        [] node.tag = "ref"      -> InputMatches(defs[node.rule.name], defs, json, level, o)
        [] node.tag = "model"    -> kind = "object" /\ ModelInputMatches(node, defs, held, level, o)
        [] node.tag = "mapping"  -> kind = "object" /\ MappingInputMatches(node, defs, held, level, o)
        [] node.tag = "embedded-json" -> o.origin = "owned" /\ kind = "string"
        [] node.tag \in {"lax-or-strict", "json-or-structural"} ->
             \E c \in AskedChildren(node, o) : child(c)
        [] node.tag = "chain" -> child(1)
        [] OTHER -> FALSE

(* candidate_exactness: 2 exact, 1 strict, 0 lax.                          *)
Exactness(node, defs, json, o) ==
  CASE InputMatches(node, defs, json, "exact", o)  -> 2
    [] InputMatches(node, defs, json, "strict", o) -> 1
    [] OTHER -> 0

-----------------------------------------------------------------------------
(* candidate_is_better *)
IsBetter(a, b) ==
  IF a.fields # NoModels /\ b.fields # NoModels /\ a.fields # b.fields
  THEN a.fields > b.fields
  ELSE a.exactness > b.exactness

(* The branch that a union keeps of the accepted ones, as judged.          *)
Kept(judged, accepted) ==
  LET deciding == {c \in accepted : judged[c].exactness = 2 /\ judged[c].fields = NoModels}
  IN  IF deciding # {} THEN Min(deciding)
      ELSE FoldLeft(LAMBDA kept, c : IF kept = 0 \/ IsBetter(judged[c], judged[kept]) THEN c ELSE kept,
                    0, SetToSortSeq(accepted, <))

Plus(a, b) ==
  CASE a = NoModels -> b
    [] b = NoModels -> a
    [] OTHER         -> a + b

RECURSIVE FieldScore(_, _, _, _)

(* What an accepted branch is judged by.                                   *)
Judgement(node, defs, json, o) ==
  [fields |-> FieldScore(node, defs, json, o), exactness |-> Exactness(node, defs, json, o)]

(* The branch whose value a nested union holds.                            *)
PickedBranch(node, defs, json, o) ==
  LET accepted == {c \in DOMAIN node.children : Accepts(node.children[c], defs, json, o.strict)}
  IN  IF node.tag = "union"
      THEN Kept([c \in accepted |-> Judgement(node.children[c], defs, json, o)], accepted)
      ELSE Min({c \in DOMAIN node.children : json[2][node.rule.discriminator] \in node.rule.tags[c]})

(* The parts of the value that an accepted input becomes, each as a schema *)
(* and its input.  Extras are not among the fields; defaults hold no       *)
(* models.                                                                 *)
ValueParts(node, defs, json, o) ==
  LET held == json[2]
      each(c) == [i \in DOMAIN held |-> <<node.children[c], held[i]>>]
      given == SelectSeq(node.fields, LAMBDA field : field.input /\ Entry(field, node, held) # {})
  IN  CASE node.tag = "ref" -> <<<<defs[node.rule.name], json>>>>
        [] node.tag = "nullable" -> IF json[1] = "null" THEN << >> ELSE <<<<node.children[1], json>>>>
        [] node.tag \in {"union", "tagged-union"} ->
             <<<<node.children[PickedBranch(node, defs, json, o)], json>>>>
        [] node.tag = "lax-or-strict" -> <<<<node.children[IF o.strict THEN 2 ELSE 1], json>>>>
        [] node.tag \in {"json-or-structural", "function"} -> <<<<node.children[1], json>>>>
        [] node.tag = "model" ->
             IF node.root THEN <<<<node.fields[1].schema, json>>>>
             ELSE [f \in DOMAIN given |->
                     <<given[f].schema, held[CHOOSE name \in Entry(given[f], node, held) : TRUE]>>]
        [] node.tag \in {"list", "set", "frozen-set"} -> each(1)
        [] node.tag = "tuple" -> [i \in DOMAIN held |-> <<node.children[i], held[i]>>]
        [] node.tag = "mapping" ->
             LET names == SetToSeq(DOMAIN held)
             IN  [i \in DOMAIN names |-> <<node.children[2], held[names[i]]>>]
        [] OTHER -> << >>

(* validated_field_score: the fields that the models of the value have     *)
(* taken from the input, when it holds a model.                            *)
FieldScore(node, defs, json, o) ==
  LET parts == ValueParts(node, defs, json, o)
      own == IF node.tag = "model" THEN Len(parts) ELSE NoModels
  IN  FoldLeft(LAMBDA total, part : Plus(total, FieldScore(part[1], defs, part[2], o)), own, parts)
=============================================================================
