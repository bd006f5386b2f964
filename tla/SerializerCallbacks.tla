--------------------------- MODULE SerializerCallbacks ---------------------------
(***************************************************************************)
(* A dump with serializers: serialize_with_callbacks and apply_callback of *)
(* serialization/callbacks.rs, the slots of bridges/model.rs they go       *)
(* through, and the arena every callback is handed (StructuralConstruction *)
(* rewrites and seals it).  Field serializers and computed fields run in   *)
(* the order of their declaration, model serializers after them, each on   *)
(* the value as it was validated and never on what another one answered.   *)
(***************************************************************************)
EXTENDS StructuralConstruction, StructuralDump, Folds

CONSTANTS
  Jobs,       \* the dumps: schema, value, validated, callbacks, options, json
  Slots,      \* the slots of the table
  Answers     \* what the callbacks may answer

VARIABLES
  job,        \* the dump under way; never changes
  phase,      \* "begin", "fields", "models", "options" or "done"
  next,       \* the callback that is considered next
  output,     \* the value under rewriting
  called,     \* the callbacks that were called and what they answered
  result      \* << >>, or <<"dump", value>> or <<"error", kind>>

dumpVars == <<job, phase, next, output, called, result>>
vars == <<dumpVars, constructionVars>>

IsRootModel == job.schema.tag = "model" /\ job.schema.root

-----------------------------------------------------------------------------
(* SerializationPlan::from_prepared. *)
Plan ==
  FoldLeft(LAMBDA policies, callback : policies \o CompileCallback(callback),
           Compile(job.schema, << >>), job.callbacks)

EnabledByEither(callback, current) ==
  \/ callback.when = "always"
  \/ callback.when \in {"json", "json-unless-none"} /\ job.json
  \/ callback.when \in {"unless-none", "json-unless-none"} /\ current # Null

(* callback_enabled *)
Enabled(callback, current) ==
  /\ callback.when \in {"json", "json-unless-none"} => job.json
  /\ callback.when \in {"unless-none", "json-unless-none"} => current # Null

-----------------------------------------------------------------------------
(* tuple_root_with_cloned_item: a field is handed with its model in one    *)
(* tuple; the field is copied, since an arena is a tree.  A value that is  *)
(* copied twice is copied once.                                            *)
RECURSIVE CloneSubtree(_, _, _)
CloneSubtree(arena, id, copy) ==
  IF id \in DOMAIN copy.ids THEN copy
  ELSE LET value == arena.values[id]
           below == FoldLeft(LAMBDA c, child : CloneSubtree(arena, child, c), copy, value.ids)
           new   == [value EXCEPT !.ids = [k \in DOMAIN @ |-> below.ids[@[k]]]]
           added == Append(below.values, new)
       IN  [values |-> added,
            ids |-> [i \in DOMAIN below.ids \cup {id} |-> IF i = id THEN Len(added) ELSE below.ids[i]]]

TupleRootShared(arena, first, item) ==
  [root |-> Len(arena.values) + 1, values |-> Append(arena.values, Tuple(<<first, item>>))]

TupleRootWithClonedItem(arena, first, item) ==
  LET copy == CloneSubtree(arena, item, [values |-> arena.values, ids |-> << >>])
  IN  [root |-> Len(copy.values) + 1, values |-> Append(copy.values, Tuple(<<first, copy.ids[item]>>))]

Selection(arena, id) == [arena EXCEPT !.root = id]

-----------------------------------------------------------------------------
Callback == job.callbacks[next]

HasField(target) ==
  LET root == job.validated.values[job.validated.root]
  IN  root.kind = "model" /\ \E k \in DOMAIN root.names : root.names[k] = target

FieldId(target) ==
  LET root == job.validated.values[job.validated.root]
  IN  root.ids[SelectInSeq(root.names, LAMBDA name : name = target)]

Position(target) == SelectInSeq(output.names, LAMBDA name : name = target)

(* The value a callback is about: a computed field has none, and counts as *)
(* None.                                                                   *)
Current ==
  CASE Callback.kind = "field"    -> output.children[Position(Callback.target)]
    [] Callback.kind = "computed" -> Null
    [] OTHER                      -> output

(* A field serializer needs its field in the model and in the output.      *)
TargetMissing ==
  /\ Callback.kind = "field"
  /\ ~HasField(Callback.target) \/ output.kind # "record" \/ Position(Callback.target) = 0

(* What a callback is handed. *)
Input ==
  IF Callback.kind # "field" THEN Selection(job.validated, job.validated.root)
  ELSE IF Callback.receiver
       THEN TupleRootWithClonedItem(job.validated, job.validated.root, FieldId(Callback.target))
       ELSE Selection(job.validated, FieldId(Callback.target))

(* Model serializers are left for the second round.                        *)
Turn ==
  /\ phase \in {"fields", "models"}
  /\ next <= Len(job.callbacks)
  /\ stage = "idle"
  /\ (Callback.kind = "model") = (phase = "models")

Fail(error) ==
  /\ phase' = "done"
  /\ result' = <<"error", error>>

Idle ==
  /\ purpose = "callback" /\ stage = "idle" /\ validated = << >> /\ values = << >>
  /\ index = 1 /\ nodes = << >> /\ moved = << >> /\ taken = {}

Init ==
  /\ job \in Jobs
  /\ phase = "begin"
  /\ next = 1
  /\ output = Null
  /\ called = << >>
  /\ result = << >>
  /\ Idle

(* The shape and the identity of the plan are compared, the value is       *)
(* projected and validated against its own schema, without callbacks.      *)
Begin ==
  /\ phase = "begin"
  /\ \/ \E error \in {"ShapeMismatch", "Limit", "InvalidProjection"} : Fail(error) /\ UNCHANGED output
     \/ phase' = "fields" /\ output' = NativeOf(job.value) /\ UNCHANGED result
  /\ UNCHANGED <<job, next, called, constructionVars>>

PassOver ==
  /\ phase \in {"fields", "models"}
  /\ stage = "idle"
  /\ next <= Len(job.callbacks)
  /\ \/ (Callback.kind = "model") # (phase = "models")
     \/ Turn /\ ~TargetMissing /\ ~Enabled(Callback, Current)
  /\ next' = next + 1
  /\ UNCHANGED <<job, phase, output, called, result, constructionVars>>

NoTarget ==
  /\ Turn
  /\ TargetMissing
  /\ Fail("InvalidProjection")
  /\ UNCHANGED <<job, next, output, called, constructionVars>>

(* SlotCallbacks::invoke up to into_structural_arena.  The arena of the    *)
(* tuple may not have room; the slot may not be in the table.              *)
HandOver ==
  /\ Turn
  /\ ~TargetMissing
  /\ Enabled(Callback, Current)
  /\ IF Len(Input.values) > Capacity
     THEN Fail("Limit") /\ UNCHANGED constructionVars
     ELSE IF Callback.slot \notin Slots
          THEN Fail("Callback") /\ UNCHANGED constructionVars
          ELSE /\ stage' = "validated"
               /\ validated' = Input
               /\ values' = Input.values
               /\ UNCHANGED <<purpose, index, nodes, moved, taken, phase, result>>
  /\ UNCHANGED <<job, next, output, called>>

(* into_structural_arena *)
IntoStructuralArena ==
  /\ phase \in {"fields", "models"}
  /\ Prepare \/ ExpandSlot \/ ArenaIsFull \/ Describe \/ Seal
  /\ UNCHANGED dumpVars

NotSealed ==
  /\ phase \in {"fields", "models"}
  /\ stage = "failed"
  /\ Fail("Callback")
  /\ stage' = "idle"
  /\ UNCHANGED <<purpose, validated, values, index, nodes, moved, taken, job, next, output, called>>

(* Where the answer goes. *)
Rewritten(answer) ==
  CASE Callback.kind = "field"    -> [output EXCEPT !.children[Position(Callback.target)] = answer]
    [] Callback.kind = "computed" -> [output EXCEPT !.names = Append(@, Callback.target),
                                                    !.children = Append(@, answer)]
    [] OTHER                      -> answer

(* The callback answers, or fails. *)
Answer ==
  /\ phase \in {"fields", "models"}
  /\ stage = "sealed"
  /\ \/ \E answer \in Answers :
          /\ called' = Append(called, [callback |-> next, answer |-> answer])
          /\ IF Callback.kind = "computed" /\ output.kind # "record"
             THEN Fail("InvalidProjection") /\ UNCHANGED output
             ELSE output' = Rewritten(NativeOf(answer)) /\ UNCHANGED <<phase, result>>
     \/ Fail("Callback") /\ UNCHANGED <<output, called>>
  /\ next' = next + 1
  /\ stage' = "idle"
  /\ validated' = << >> /\ values' = << >> /\ index' = 1
  /\ nodes' = << >> /\ moved' = << >> /\ taken' = {}
  /\ UNCHANGED <<purpose, job>>

NextRound ==
  /\ phase \in {"fields", "models"}
  /\ stage = "idle"
  /\ next > Len(job.callbacks)
  /\ phase' = IF phase = "fields" THEN "models" ELSE "options"
  /\ next' = 1
  /\ UNCHANGED <<job, output, called, result, constructionVars>>

(* root_model_value *)
IsRootRecord(value) == value.names = <<"root">>

Dumped(value) ==
  LET chosen == ApplyOptions(Plan, job.options, value, << >>)
  IN  IF ~job.json THEN <<"dump", chosen>>
      ELSE IF NativeJson(chosen) = None THEN <<"error", "UnsupportedJsonValue">>
           ELSE <<"dump", NativeJson(chosen)[1]>>

(* The options come last, over everything the callbacks answered.          *)
Finish ==
  LET unwraps == IsRootModel /\ output.kind = "record"
  IN  /\ phase = "options"
      /\ phase' = "done"
      /\ result' = IF unwraps /\ ~IsRootRecord(output) THEN <<"error", "InvalidProjection">>
                   ELSE Dumped(IF unwraps THEN RootValue(output) ELSE output)
      /\ UNCHANGED <<job, next, output, called, constructionVars>>

Next ==
  \/ Begin \/ PassOver \/ NoTarget \/ HandOver \/ IntoStructuralArena \/ NotSealed
  \/ Answer \/ NextRound \/ Finish

Spec == Init /\ [][Next]_vars

-----------------------------------------------------------------------------
(* Trees of values, for what is handed over: the validated tree, written   *)
(* without the kinds the runtime does not know.                            *)
Branch(kind, nominal, names, below) ==
  [kind |-> kind, nominal |-> nominal, names |-> names, scalar |-> << >>, below |-> below]
Leaf(kind, part) ==
  [kind |-> kind, nominal |-> << >>, names |-> << >>, scalar |-> part, below |-> << >>]
Leaves(kind, parts) == [i \in DOMAIN parts |-> Leaf(kind, <<parts[i]>>)]
TupleTree(below) == Branch("tuple", << >>, << >>, below)

TimeTree(parts) ==
  TupleTree(Leaves("fixed_int", SubSeq(parts, 1, 4))
            \o <<Branch("nullable", << >>, << >>, Leaves("fixed_int", SubSeq(parts, 5, Len(parts))))>>)

DateTree(parts) == TupleTree(Leaves("fixed_int", SubSeq(parts, 1, 3)))

RECURSIVE TreeOf(_, _)
TreeOf(arena, id) ==
  LET value == arena.values[id]
      parts == value.parts
      below == [k \in DOMAIN value.ids |-> TreeOf(arena, value.ids[k])]
  IN  CASE value.kind \in Texts ->
             Branch("model", <<value.kind>>, <<"value">>, Leaves("string", parts))
        [] value.kind = "pattern" ->
             Branch("model", <<"pattern">>, <<"source", "flags">>,
                    <<Leaf("string", <<parts[1]>>), Leaf("fixed_int", <<parts[2]>>)>>)
        [] value.kind = "fraction" -> TupleTree(Leaves("exact_int", parts))
        [] value.kind = "complex"  -> TupleTree(Leaves("float", parts))
        [] value.kind = "date"     -> DateTree(parts)
        [] value.kind = "time"     -> TimeTree(parts)
        [] value.kind = "datetime" ->
             TupleTree(<<DateTree(parts), TimeTree(SubSeq(parts, 4, Len(parts)))>>)
        [] value.kind = "duration" ->
             TupleTree(<<Leaf("bool", <<parts[1]>>)>> \o Leaves("fixed_int", Tail(parts)))
        [] value.kind = "frozenset" ->
             Branch("model", <<"frozenset">>, <<"_values">>, <<Branch("set", << >>, << >>, below)>>)
        [] value.kind \in Scalars -> Leaf(Kind(value), parts)
        [] OTHER                  -> Branch(value.kind, parts, value.names, below)

TakenFrom(id) == (CHOOSE t \in taken : t.id = id).scalar.parts

RECURSIVE SealedTree(_)
SealedTree(id) ==
  IF nodes[id].kind \in Scalars THEN Leaf(nodes[id].kind, TakenFrom(id))
  ELSE Branch(nodes[id].kind, nodes[id].nominal, nodes[id].names,
              [k \in DOMAIN nodes[id].ids |-> SealedTree(nodes[id].ids[k])])

(* The ids that are met on the way down from a node, one for each holder.  *)
RECURSIVE HeldBelow(_)
HeldBelow(id) ==
  nodes[id].ids \o FlattenSeq([k \in DOMAIN nodes[id].ids |-> HeldBelow(nodes[id].ids[k])])

(* What is sealed for a callback is the validated value, wherever the      *)
(* rewriting in place put its pieces, and every node of it has one holder, *)
(* so that the runtime can move it out.  A serializer is handed exactly    *)
(* what it declares, the validated model, the validated field or the pair  *)
(* of them, whatever other serializers answered before.                    *)
HandedOver ==
  stage = "sealed" =>
    /\ SealedTree(validated.root) = TreeOf(validated, validated.root)
    /\ IsInjective(HeldBelow(validated.root))
    /\ phase \in {"fields", "models"} =>
         LET model == TreeOf(job.validated, job.validated.root)
             field == TreeOf(job.validated, FieldId(Callback.target))
         IN  TreeOf(validated, validated.root) =
               (IF Callback.kind # "field" THEN model
                ELSE IF Callback.receiver THEN TupleTree(<<model, field>>) ELSE field)

-----------------------------------------------------------------------------
Called(k) == job.callbacks[called[k].callback]

AnswersFor(kinds, target) ==
  SelectSeq([k \in DOMAIN called |-> k], LAMBDA k : Called(k).kind \in kinds /\ Called(k).target = target)

LastAnswer(which) == NativeOf(called[which[Len(which)]].answer)

(* The fields of the model with the last answer to each, followed by the   *)
(* computed ones.                                                          *)
Composed ==
  LET projected == NativeOf(job.value)
      computed == SelectSeq([k \in DOMAIN called |-> k], LAMBDA k : Called(k).kind = "computed")
      field(i) == LET which == AnswersFor({"field"}, projected.names[i])
                  IN  IF which = << >> THEN projected.children[i] ELSE LastAnswer(which)
  IN  IF projected.kind # "record" THEN projected
      ELSE Record(projected.names \o [k \in DOMAIN computed |-> Called(computed[k]).target],
                  [i \in DOMAIN projected.children |-> field(i)]
                    \o [k \in DOMAIN computed |-> NativeOf(called[computed[k]].answer)])

(* Every callback is called at most once, in the order of its declaration, *)
(* model serializers after all others; in a dump that succeeds those that  *)
(* are always used were called and those for JSON only in a JSON dump; and *)
(* the dump is the options over what the last model serializer answered,   *)
(* or, when none was called, over the model with its last answers.         *)
Outcome ==
  /\ \A i, k \in DOMAIN called :
       i < k => \/ Called(i).kind # "model" /\ Called(k).kind = "model"
                \/ /\ (Called(i).kind = "model") = (Called(k).kind = "model")
                   /\ called[i].callback < called[k].callback
  /\ \A k \in DOMAIN called : Called(k).when \in {"json", "json-unless-none"} => job.json
  /\ phase = "done" /\ result[1] = "dump" =>
       LET models == AnswersFor({"model"}, "")
           last   == IF models = << >> THEN Composed ELSE LastAnswer(models)
           value  == IF IsRootModel /\ last.kind = "record" THEN RootValue(last) ELSE last
       IN  /\ \A c \in DOMAIN job.callbacks :
                job.callbacks[c].when = "always" => \E k \in DOMAIN called : called[k].callback = c
           /\ result = Dumped(value)
=============================================================================
