-------------------------------- MODULE JsonDump --------------------------------
(***************************************************************************)
(* What the JSON writer (serialization/json.rs) is compared with: the      *)
(* structural dump of the same value and its rendering.  The plan, the     *)
(* native value of a root model and the JSON of a default, which the       *)
(* writer asks for, are those of StructuralDump.                           *)
(***************************************************************************)
EXTENDS JsonWriter, StructuralDump

(* SerializationPlan::from_prepared, for a schema without serializers. *)
SchemaPlan(schema) == Compile(schema, << >>)

DumpedValue(d) == SerializeStructural(d.schema, d.options, d.value)

-----------------------------------------------------------------------------
(* The events are the projection of the value.                             *)
Proper == dump.events = Projection(dump.value)

(* The JSON document is the rendering of the structural dump of the same   *)
(* value under the same options: what is written ahead and cut back, the   *)
(* commas, the aliases, the selection and the comparison of bytes with     *)
(* defaults amount to what apply_options does on whole values.  Defaults   *)
(* of mappings are left out: a static program has none.                    *)
Agreement ==
  (status = "done" /\ Proper /\ ~IsRoot) =>
    w.output = Rendered(DumpedValue(dump))

RECURSIVE Unwritable(_)
Unwritable(value) ==
  \/ value.kind = "scalar" /\ value.scalar = "bytes"
  \/ \E i \in DOMAIN value.children :
       \/ Unwritable(value.children[i])
       \/ value.kind = "mapping" /\ i % 2 = 1
          /\ ~(value.children[i].kind = "scalar" /\ IsText(value.children[i].scalar))

(* The dump of a proper projection, with room for its nodes, fails only    *)
(* because it is too long before omission, or holds what JSON has no form  *)
(* for.                                                                    *)
FailureIsDeserved ==
  Proper =>
  LET whole == [dump.options EXCEPT !.excludeNone = FALSE, !.excludeDefaults = FALSE]
  IN  /\ status # "projection"
      /\ status = "limit" =>
           Len(Rendered(SerializeStructural(dump.schema, whole, dump.value))) > MaxOutput
      /\ status = "unsupported" => Unwritable(dump.value)

(* What is dumped without options is the value: no field is lost that the  *)
(* schema does not exclude.                                                *)
NothingIsLost ==
  (status = "done" /\ ~IsRoot) => w.output = Rendered(NativeOf(dump.value))

(* The dump of a root model is the dump of its root by the schema of the   *)
(* field.                                                                  *)
RootIsPublic ==
  (status = "done" /\ IsRoot) =>
    w.output = Rendered(SerializeStructural(dump.schema.fields[1].schema, dump.options,
                                            dump.value.children[1]))
=============================================================================
