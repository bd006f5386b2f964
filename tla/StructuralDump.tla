----------------------------- MODULE StructuralDump -----------------------------
(***************************************************************************)
(* The serialization plan (serialization/plan.rs) and the structural dump  *)
(* (output.rs): what a typed value becomes under the options of a dump.    *)
(* Schemas and values are trees.  Integers, strings and the like are one   *)
(* token each; "null" is None and "bytes" stands for what JSON has no form *)
(* for.                                                                    *)
(***************************************************************************)
EXTENDS FieldSelection

(* A value as it is projected, or a NativeValue: one that is not a scalar  *)
(* has children, those of a record with names; the children of a mapping   *)
(* are keys and values in turn.                                            *)
Scalar(text) == [kind |-> "scalar", names |-> << >>, children |-> << >>, scalar |-> text]
Aggregate(kind, children) == [kind |-> kind, names |-> << >>, children |-> children, scalar |-> "null"]
Record(names, children) == [kind |-> "record", names |-> names, children |-> children, scalar |-> "null"]

Members == {"optional", "union"}       \* aggregates of one active member

Null == Scalar("null")

-----------------------------------------------------------------------------
CollectionPathSegment(tag, i) ==
  CASE tag \in {"list", "set"} -> <<AnyIndex>>
    [] tag = "tuple"           -> <<Index(i - 1)>>
    [] OTHER                   -> << >>

(* PlanBuilder::compile: the policies of the fields below a schema, in the *)
(* order they are pushed, those below a field before its own.  A reference *)
(* to a definition has no children.                                        *)
RECURSIVE Compile(_, _)
Compile(schema, path) ==
  IF schema.tag = "model"
  THEN FlattenSeq([i \in 1 .. Len(schema.fields) |->
         LET field == schema.fields[i]
             at == Append(path, Field(field.name))
         IN  IF field.excluded THEN << >>
             ELSE Append(Compile(field.schema, at),
                         [path |-> at, alias |-> field.alias, default |-> field.default])])
  ELSE FlattenSeq([i \in 1 .. Len(schema.children) |->
         Compile(schema.children[i], path \o CollectionPathSegment(schema.tag, i))])

(* compile_callback: what a serializer adds to the policies of the plan.   *)
CompileCallback(callback) ==
  LET path == IF callback.kind = "model" THEN << >> ELSE <<Field(callback.target)>>
  IN  Compile(callback.output, path)
        \o IF callback.kind = "computed"
           THEN <<[path |-> path, alias |-> callback.alias, default |-> None]>>
           ELSE << >>

-----------------------------------------------------------------------------
(* project_structural_input and native_value: what is wrapped in an        *)
(* optional stands for itself.                                             *)
RECURSIVE NativeOf(_)
NativeOf(value) ==
  IF value.kind = "optional"
  THEN IF value.children = << >> THEN Null ELSE NativeOf(value.children[1])
  ELSE [value EXCEPT !.children = [i \in DOMAIN @ |-> NativeOf(@[i])]]

RootValue(value) == value.children[1]

(* A field of a record is kept: it has a policy, is selected and is not    *)
(* omitted for its value.                                                  *)
Keep(plan, options, path, value) ==
  /\ FieldPolicy(plan, path) # None
  /\ Selected(options, path)
  /\ ~(options.excludeNone /\ value = Null)
  /\ ~(options.excludeDefaults /\ DefaultAt(plan, path) = <<value>>)

RECURSIVE ApplyOptions(_, _, _, _)
ApplyOptions(plan, options, value, path) ==
  LET children == value.children
      below(i, at) == ApplyOptions(plan, options, children[i], at)
      chosen(keeps(_)) == SelectSeq([i \in DOMAIN children |-> i], keeps)
  IN  CASE value.kind = "record" ->
             LET at(i) == Append(path, Field(value.names[i]))
                 kept == chosen(LAMBDA i : Keep(plan, options, at(i), children[i]))
             IN  Record([k \in DOMAIN kept |->
                           OutputName(plan, options, at(kept[k]), value.names[kept[k]])],
                        [k \in DOMAIN kept |-> below(kept[k], at(kept[k]))])
        [] value.kind \in Sequential ->
             LET at(i) == Append(path, Index(i - 1))
                 kept == chosen(LAMBDA i : Selected(options, at(i)))
             IN  Aggregate(value.kind, [k \in DOMAIN kept |-> below(kept[k], at(kept[k]))])
        [] value.kind = "mapping" ->
             Aggregate("mapping", [i \in DOMAIN children |-> below(i, path)])
        [] OTHER -> value

(* serialize_structural. *)
SerializeStructural(schema, options, value) ==
  LET native == NativeOf(value)
      root == schema.tag = "model" /\ schema.root
  IN  ApplyOptions(Compile(schema, << >>), options,
                   IF root THEN RootValue(native) ELSE native, << >>)

-----------------------------------------------------------------------------
Separated(texts) ==
  FlattenSeq([i \in DOMAIN texts |-> IF i = 1 THEN texts[i] ELSE <<",">> \o texts[i]])

(* A native value as JSON, one token for every name and scalar.            *)
RECURSIVE Rendered(_)
Rendered(value) ==
  LET text(i) == Rendered(value.children[i])
      all == DOMAIN value.children
  IN  CASE value.kind = "scalar" -> <<value.scalar>>
        [] value.kind \in Sequential -> <<"[">> \o Separated([i \in all |-> text(i)]) \o <<"]">>
        [] value.kind = "record" ->
             <<"{">> \o Separated([i \in all |-> <<value.names[i], ":">> \o text(i)]) \o <<"}">>
        [] value.kind = "mapping" ->
             <<"{">> \o Separated([e \in 1 .. Len(value.children) \div 2 |->
                                     text(2 * e - 1) \o <<":">> \o text(2 * e)]) \o <<"}">>
        [] OTHER -> << >>

(* write_native_json has no form for bytes and none for a mapping.         *)
RECURSIVE HasNativeJson(_)
HasNativeJson(value) ==
  /\ value.kind # "mapping"
  /\ value.kind = "scalar" => value.scalar # "bytes"
  /\ \A i \in DOMAIN value.children : HasNativeJson(value.children[i])

NativeJson(value) == IF HasNativeJson(value) THEN <<Rendered(value)>> ELSE None

(* The events of a projection of a value by the runtime.                   *)
RECURSIVE Projection(_)
Projection(value) ==
  LET edge(i) == CASE value.kind = "record"        -> Field(value.names[i])
                   [] value.kind \in Sequential    -> Index(i - 1)
                   [] value.kind = "mapping"       -> IF i % 2 = 1 THEN <<"key", i \div 2>>
                                                      ELSE <<"value", (i - 1) \div 2>>
                   [] OTHER                        -> <<"active">>
      count == Len(value.children)
  IN  IF value.kind = "scalar" THEN <<[on |-> "scalar", scalar |-> value.scalar]>>
      ELSE <<[on |-> "enter", kind |-> value.kind, count |-> count]>>
             \o FlattenSeq([i \in 1 .. count |->
                              <<[on |-> "edge", edge |-> edge(i)]>> \o Projection(value.children[i])])
             \o <<[on |-> "exit", kind |-> value.kind]>>
=============================================================================
