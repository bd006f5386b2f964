# pydantic-sifr: verification of the validation core

This directory holds TLA+ modules for the Rust core of pydantic-sifr
(`src/backend/pydantic_sifr_core`), the TLC configurations that check them on
small instances, and TLAPS proofs of what matters most for every instance. The
source is the reference: every definition is read off the code, and
`PROJECT.json` maps it to the lines it stands for.

## The system

The package validates an input (JSON bytes, a structural value of the Sifr
runtime, or strings) against a schema sealed by the compiler, moves the result
into a typed Sifr value, and dumps typed values again. It is a sequential
library: no threads, no persistence, no clock. What is hard about it is deep
recursion with shared mutable state (arenas, scopes, paths, captures) that must
be restored on every way out, error reports that are capped at several levels at
once, foreign code (projections, callbacks) that calls back in any order, and
twin implementations of the same promise (owned and static schemas, JSON and
structural inputs, streamed and structural dumps).

| Part | State it keeps | Operations | Interacts with |
| --- | --- | --- | --- |
| Error reports (`validation/error.rs`) | details, truncation flag | one, at, append, mark_truncated | everything that validates |
| Value input (`input/json.rs`, `NativeBuilder` of `input/native.rs`) | arena, node and byte counts, path | parse_json, push_value, project_native_input | fills the `InputArena` |
| Structural input (`StructuralInputBuilder` of `input/native.rs`) | arena, frames, counts | enter, edge, scalar, exit, finish | events of runtime projections, outputs of callbacks |
| Validation engine (`validation/mod.rs`, `definitions.rs`, `control.rs`, `function_validators.rs`) | output arena, definition scopes, active references, options | validate_node, validate_branch, validate_input, import, invoke_validator | calls every handler, which call it back |
| Collections (`validation/collections.rs`) | errors, output items, identities | the loops over items, entries and elements | engine, error reports |
| Generator iterator (`ValidatedIterator` of `collections.rs`) | index, finished | next | pulled by the user, validates one item at a time |
| Models (`validation/models.rs`) | errors, fields, extras, consumed keys | select_field, defaults, extras | engine, error reports |
| Unions (`validation/sums.rs`, `static_sums.rs`) | best branch, errors | union modes, tags, overrides | branches of the engine |
| Construction (`validation/structural.rs`, `construction.rs`) | moved flags | prepare_structural, take_scalar | runtime constructors |
| Serialization plan (`serialization/plan.rs`, `selection.rs`) | field policies | from_prepared, set_field_alias, selected | read by both dumps |
| JSON writer (`serialization/json.rs`) | output, raw capture, frames, path | enter, edge, scalar, exit | events of runtime projections |
| Structural dump (`serialization/output.rs`) | none | native_value, apply_options, native_json_bytes | structural input, plan |
| Serializer callbacks (`serialization/callbacks.rs`) | the value under rewriting | field, computed and model callbacks | validation, slot table |
| Bridge (`src/bridges`) | slot table, context cell | entry points, SlotCallbacks | Sifr runtime |
| JSON Schema (`json_schema.rs`, `json_schema/static_schema.rs`) | listed definitions, generated nodes | generate, generate_with_serializers | the schema program and the serializers, the same that validation and dumps read |
| Scalars (`scalars.rs`, `textual.rs`, ...), special values, schema view | none | pure conversions | |

## Modules

A module holds one component: its state as variables, one action per step of the
code, its properties at the end. Operators and variables keep the names of the
source (in TLA+ case), and every definition that stands for code is listed with
its lines in `PROJECT.json`. Definitions whose name says what is wrong with them
(`DateTimeTupleUnexpanded`, `TakeScalarAgain`, ...) are plausible mistakes that
`PROJECT.json` lists under "mutants": with one of them in place of the
definition it follows, TLC refutes the property named there.

| Module | Code | State and actions |
| --- | --- | --- |
| `ErrorReport` | `validation/error.rs` | Pure operators on a report `[details, truncated]`: `One`, `At`, `Append`, `IsFull`; `Covers` says what a report must be for what was found and whether something was left. |
| `CollectionValidation` | `validation/collections.rs` | `errors`, `output`, `index`, `pass`: the loops over items, entries and elements with `collect_error` and `stop_after_error_cap`, the two passes over sets. Each part is an input: what it found and whether its own report is short. |
| `ModelValidation` | `validation/models.rs`, `schema.rs` | `errors`, `built`, `consumed`: `SelectField` by aliases, paths and names, defaults, extras, and the two `has_more` computations. |
| `UnionValidation` | `validation/sums.rs`, `static_sums.rs` | `best`, `errors`: left to right, smart and tagged unions, `candidate_is_better`, `apply_override`. |
| `InputExactness`, `SmartUnion` | `sums.rs`, `static_sums.rs` | `input_matches` and `validated_field_score` as pure operators over schemas and JSON. `SmartUnion` composes them with `JsonAcceptance` and the loop of `UnionValidation`: what the loop is given of each branch is what these compute. |
| `SumLayout` | `sum_schema.rs`, `sums.rs`, `schema.rs:646-763` | `CanonicalSumLayout`, `collect_members`, `wrap_existing` and `selected_member` as operators over schemas: which places a sum has for the types of its members, and how the value of a branch gets its place in the sum around it. Types are terms instead of digests. `SmartUnion` applies it to the branch the loop keeps. |
| `ValidationEngine`, `ValidationResult` | `validation/mod.rs`, `definitions.rs`, `control.rs`, `function_validators.rs`, `value.rs` | The recursion of `validate_node` as a machine with a stack `calls` over states (arena, options, scopes, active references, profile). A handler is an action that opens its call and one that takes what the inner call returned. A call keeps, in `state`, which of the states it was handed, as the Rust call holds a `&mut ValidationState`. `ValidationResult` says what a result must be. A field with a strictness of its own is a node of kind `field` between the model and the field's schema: `EnterField` opens a branch with that option unless one is in force already. Sums of a static schema are not flattened within one another, those of an owned one are (`Selected`). Left out: sums of a single shape, which have no wrapper; root models with their own strictness (`models.rs:242-255`); defaults, validated as native inputs with the field's (396-401); the keys of JSON mappings, validated without any (`collections.rs:364-368`); the strings profile. |
| `StructuralInput` | `StructuralInputBuilder` of `input/native.rs` | `frames`, `values`, `stringBytes`: any sequence of enter, edge, scalar, exit and finish events, which foreign projections send. |
| `ValueInput` | `input/json.rs`, `NativeBuilder` of `input/native.rs` | The recursive walks of a whole value with their limits, keys and path. |
| `StructuralConstruction` | `validation/structural.rs`, `construction.rs`, `value.rs` | `values`, `index`, `moved`, `taken`: the rewriting in place, the description of every node, and the two ways scalars leave. |
| `FieldSelection` | `serialization/selection.rs`, `plan.rs` | What options and policies say of a place: selection, output name, default. Without recursion, so that the writer can be proved about. |
| `StructuralDump` | `serialization/output.rs`, `plan.rs` | Pure recursive operators: the plan of a schema, the native value of a typed one, the options, native JSON. |
| `JsonWriter` | `serialization/json.rs` | The visitor with its output, path, frames and raw capture, event by event. The plan it follows, the native value of a root model and the JSON of a default are constants of it (`PlanOf`, `Structural`, `JsonOf`). |
| `JsonDump` | | `JsonWriter` together with `StructuralDump`, which gives those constants their values in every run (`SchemaPlan`, `DumpedValue`, `NativeJson`) and is what the document is compared with. |
| `PromisedStream`, `GeneratorIterator` | `ValidatedIterator` of `collections.rs` | The first is what an iterator promises: fixed answers, one at a time, then nothing. The second adds to a validated collection a user who pulls the iterator over the same input: `sequence` (whether the iterator takes it for one), `bounds`, `pulled`, `index`, `finished`, `answers`. Each pull is a validation of its own, without strictness, from depth 0 and with its own test of the input's limits, so `pulled` may differ from what the list met. |
| `JsonSchemaDocument` | `json_schema.rs`, `json_schema/static_schema.rs` | Pure recursive operators: the document of a schema node, for both generators, both modes and every integer profile; which nodes have none; size and depth. |
| `DefinitionWorklist`, `JsonSchema` | `generate_with_serializers`, `generate_json_schema` | The first is what the loop over definitions promises. The second is the loop itself with `definitions`, `index`, `nodes`, and the appending of computed fields. |
| `JsonSchemaMeaning`, `JsonAcceptance` | draft 2020-12 (external); `validation/scalars.rs`, `textual.rs`, `literals.rs` | What a document says, for the keywords that are written; and which JSON values a schema accepts, strictly and laxly. A document is compared with both. |
| `SerializerCallbacks` | `serialization/callbacks.rs`, `src/bridges/model.rs` | The two rounds of serializers over one list. It composes `StructuralConstruction` (what is handed to a callback) and `StructuralDump` (what is made of the answers). |
| `ErrorReportProofs`, `CollectionValidationProofs`, `ValueInputProofs`, `StructuralInputProofs`, `ModelValidationProofs`, `UnionValidationProofs`, `OutputProofs`, `ValidationEngineProofs` | | Theorems, see below. |
| `MC...` | | Small instances of a module for TLC. |

`CollectionValidation`, `ModelValidation` and `UnionValidation` all use
`ErrorReport`, as their code uses one `ValidationError`; the three together say
that a report stays exact through any nesting, because what each is given of its
parts is what each promises of itself.

What is data is abstract: a scalar is a token that says how the code treats it,
a message is its code, a text is its length or a name, and ids count from 1.

## Runs

Distinct states are those TLC finds; all runs end within four minutes.

| Run | Question | Bounds, and why they are enough |
| --- | --- | --- |
| `collections` | Is a report of a collection the capped prefix of all errors, flagged exactly when it is not everything; can a part vanish? Does the lazy iterator over the same items answer what it owes, and what the list answered? | cap 2, up to 3 parts with up to 3 errors each, two identities; length bounds on either side of the number of items, and an item limit of 3; pulled items that have the list's outcomes and ones that differ in the first item; inputs the iterator takes for sequences and others. One part more than the cap, and one error more in a part than the cap, so that every cut (in a part, between parts, in the second pass) occurs. 539,600 states. |
| `models` | The same for models; do consumed entries and extras partition the input; does the built model take each field from its own source? | cap 2, two fields and a destination of extras, up to 4 entries of which two are no field's; aliases that share entries, absent ones, deeper paths. Two fields are the least that can share or shadow an entry. 380,000 states. |
| `unions` | Which branch wins, and what does a failed union report? Does a smart union convert what it could keep, and does its value tell what it is? | all mixes of up to 2 branches, of 3 valid or 3 failing ones, and of 4 counted or uncounted valid ones; three branches are the least that show the comparison is not transitive. And 41 unions of schemas of both origins (scalars, literals, models in models, mappings, references, control schemas, sums in sums up to three deep) over some 120 JSON values. 119,000 states. |
| `engine` | Are scopes and references brackets; do the strictness of the run, of models and of fields, and the profile, reach every call they are for and no other; is the stack bounded; does every validation end; is the result the input's mirror? | eight schemas that reach each handler and combine them (recursive trees, lists in chains, a loop at one input, callbacks whose output meets the same definition, strict models over sums, models within models whose fields are lax, strict or neither, a reference without definitions), depth limit 8, inputs of three levels. Limits bind in the recursive schemas. 24,600 states. |
| `projections` | Whatever events come, does the structural builder keep its arena? | every event sequence up to the limits (depth 1, 3 or 4 nodes, 2 items) for four families of aggregates; the well-formed ones up to 6 nodes for the sorting, where three elements test transitivity. 841,000 states. |
| `value_input` | The same of the recursive walks, and the path that locates errors. | both adapters, depth 2, 5 nodes, 2 items, texts of one or more bytes: each limit is reached. 46,000 states. |
| `json_writer` | Is the streamed document the rendering of the structural dump; do disturbed projections always fail? | every option, four inclusions and exclusions, about 70 pairs of schema and value with nested defaults, aliases, optionals, mappings and bytes; every single disturbance of one projection. 264,000 states. |
| `serializers` | What is each serializer handed, and what becomes of its answer; does the rewriting leave nothing behind? | one or two serializers of each kind and mode on a model of two fields, root models, and a model that does not fit its arena twice; arenas with each kind of special value. Two serializers are the least of which one can see the other's answer. 109,000 states. |
| `json_schema` | Which definitions does a document hold; when is it refused; does it describe what validation accepts and what dumps write? | 43 schemas of the compiler and 15 built in memory: every tag, shared, mutual, recursive, unused and missing parts, computed fields, clashing names; both modes, aliases on and off, the three integer profiles; about 500 inputs. Depth 3, 12 nodes and a safe integer of 5, so that each limit is met and missed by one. 2,300 states, each with the comparison over all inputs or values. |
| `dump_repeated`, `dump_roots`, `dump_unions` | Three statements of the documents. | They are refuted, see below. |

`CHECK_DEADLOCK FALSE` is set throughout: a validation or a dump ends, and a
finished call takes no further step.

Fairness is assumed in one place, `FairSpec == Spec /\ WF_vars(Next)` of the
engine: the recursion is sequential code without locks or waiting, so a call that
can go on does. A user's callback is one step there, that is, callbacks are
assumed to return; what they return is arbitrary within the configured outputs.

### What holds, and what is remarkable about it

* Reports are exact at every level (`ReportContract`, three times): details are
  a prefix of what an uncapped validation would find, and the flag is raised
  exactly when something is missing.
* The smart union has no total order: branches that count fields and branches
  that do not are compared by exactness alone. What the code does guarantee is
  that nothing tried after the winner is better, the first part of `BestWins`;
  the winner is the best of all where all branches count, or none do, its
  second part.
* What a smart union knows of exactness it guesses from shapes (`input_matches`).
  Over scalars, literals, nullables, references, mappings with text keys and
  models without allowed extras the guess is right where it matters
  (`SmartKeepsStrict`): an input that some branch takes as it is goes to such a
  branch, unless another counts more fields. It is not so over lists, tuples and
  sets: a JSON array is of the kind `JsonArray`, which `input_matches` never asks
  for, so `list[bool] | list[int]` makes `[true]` of `[1]`, and so does a model
  with such a field. `ShapeTells` names the schemas for which the property holds;
  with lists among them TLC refutes it. Nothing in the repository promises more.
* A value of an owned sum names its member by a place in the sum's flattened and
  sorted list of types, and it names the right one however sums are nested
  (`ValueTellsItsType`), since the place is found anew from the type at every level.
  That needs references to be to schemas that are no sums. `definition_reference`
  refuses sums ("Definition references cannot target flattened wrappers",
  `schema.rs:594`), but not a control schema or a chain around one: a union with a
  reference to such a schema has the whole sum as one of its members, and with it
  among the samples TLC refutes the property. The samples have none; their schemas
  are otherwise those the constructors accept (`Constructible`, an assumption TLC
  evaluates).
* A parsed or native value may exceed `max_nodes`, by at most one node for each
  level of nesting: the check comes before the items are pushed and none follows
  (`[[[null]]]` has four nodes under `max_nodes = 1`). A structural projection may
  be one level deeper than `max_depth`, because `scalar` does not check the depth.
  `WithinLimits` of `ValueInput` and `StructuralInput` states both bounds as they are.
* The document of a schema's input lies between the two modes (`DescribesInput`):
  strict validation accepts nothing that violates it, and lax validation accepts
  everything that satisfies it. No sharper statement holds, since lax mode also
  reads numbers from texts and truth values.
* The iterator of a generator and the list over the same input agree
  (`PullsAgree`) where their items do. An input that the iterator refuses, or
  finds to be of a wrong length, the list refuses too, before its items, while
  the iterator answers them and then the error. An input the list accepts has the
  same values when it is pulled, or the same errors as far as the cap allows,
  provided that each item by itself has the outcome it had in the list. That is
  an assumption about the inputs (`AlikeAlone`), since a pulled item is validated with
  `strict: false` (`collections.rs:676-686`), from depth 0 and under its own
  `check_input_limits` (744-754, `mod.rs:261`): below `max_depth`, below the limits
  and in strict mode the list may refuse what the iterator yields.
* The document of a schema's output holds for every dump that is written
  (`DescribesOutput`), but not every value of a type with a document can be written:
  a static `bytes` has `{"type": "string"}` in the serialization mode
  (`static_schema.rs:322-332`), like a `float` that may be infinite or NaN has its own, while
  `write_scalar` and `write_native_json` refuse such scalars (`json.rs:457-471`,
  `output.rs:376`). The generator for owned schemas refuses bytes. The property
  says that these are the only values that are refused.
* A dump with serializers applies the options last. So a serializer runs also
  for a field that is excluded; the answer of a model serializer is filtered by
  the policies of the original model's fields of the same names; a computed
  field in a mode with unless-none never runs, because its current value is
  None.
* The way of root models to JSON, and of dumps with serializers, writes no
  mappings; the visitor does. The structural dump refuses unions and enums in a
  projection that the visitor accepts. Both are left as they are: no document
  promises more.

### Disagreements of code and documents

| Run | What TLC shows |
| --- | --- |
| `dump_repeated` (`NothingIsLost`) | The second field of the same model type is a reference in the schema program; the plan does not follow it, and the field dumps as an empty object. |
| `dump_roots` (`RootIsPublic`) | The policies of a root model begin at the field `root`, the dump at its value: a root model over a model dumps as an empty object. |
| `dump_unions` (`DescribesOutput`) | No path tells the members of a union apart: two models with a field of the same name share the policies of the first, so the second is dumped under the first's alias and violates its own document. |

### Refinements

* `StreamKept`: a pulled `GeneratorIterator` implements `PromisedStream`, whose answers
  are given by the items and the bounds alone. Model-checked, and proved
  (`IteratorKeepsStream`).
* `WorklistKept`: the generation of a document implements `DefinitionWorklist`:
  parts and definitions are visited in order, each visit lists what it refers to
  and nothing twice. Model-checked; that such a worklist ends with the least
  closed set of definitions is proved (`DefinitionsAreLeastClosed`).
* `Agreement`: the document `JsonWriter` streams is the rendering of what `StructuralDump`
  computes, the two being twin implementations rather than levels.

## Proofs

TLAPS proves the following for all values of the constants; TLC checked each
invariant first on the instances above.

**Reports** (`ErrorReportProofs`). Lemmas on `Append`, `At` and the loop's way
out: `CollectCovers` (a report that covers what was found still does when an
outcome is collected under a path) and `StopCovers` (it does when the loop is left
at the cap). They are what the handlers' proofs rest on.

**Collections** (`CollectionValidationProofs`): `TypeCorrect` and `ReportsAreExact`,
for any cap, any finite or infinite set of collections with any number of parts.
The invariant is `IInv == TypeOK /\ ReportContract /\ FreshAtEntry`. The contract
alone is not inductive: the first pass starts from whatever report there is, and
it must be known that there is none yet (`FreshAtEntry`); and the arithmetic on
lengths needs the types. The step proof has one case per action; each cites
`CollectCovers`, `StopCovers`, or both in their order. `PartsAreAccounted` and
`OutputIsRight` add `PartsInv`: the loop has accounted for the parts before its
position (each is in the output or mentioned in what was found); as long as
nothing was found they were all fine, and the output and the identities seen are
theirs; and a loop that is full too early has said so. One lemma
(`IterationKeepsParts`) holds what the three kinds of iterations have in common.

**Models** (`ModelValidationProofs`): `ReportsAreExact`, `VerdictIgnoresCap`,
`ExtrasAreExact` and `ModelIsBuilt`, for any cap, any schema and any entries.
The invariant of the first two is `TypeOK`, `FreshAtEntry`,
`ReportContract`, `Verdict` and `Progress`: errors were found exactly if a field or an
entry the loops have passed is invalid, and the fields have consumed exactly the
entries they select. The code decides by a count of consumed entries whether
extras are left at all; that this agrees with the set (`CountTells`) needs
cardinalities of finite sets, and that distinct fields may select one entry
makes it a statement about the set, not about the number of fields.
`ExtrasAreExact` adds `ExtrasInv`: what the second loop has made of the extras among
the first `n` entries (`Partition`), and that a loop that stopped at the cap and left
nothing has no extra behind its position (`NothingBehind`), which is what makes
a full report that is not flagged a complete one. The errors about extras are
told from those of the parts by their code and place; an error override may
declare any code, so that half of the property supposes that no part reports
`extra_forbidden` at its own place (`Told`, which holds of every case without such an
override, since only `validate_extras` writes the code, below a field's name).
`ModelIsBuilt` adds `ValuesInv`: as long as nothing was found, the fields before the
position have the values they are given and the count is that of the inputs
among them (`Assigned`). That the fields of the built model are all there and in
order rests on `InOrderLists`: any set of numbers has an increasing enumeration
(by the least number up to which it would have none), and it reaches each of
them, being injective and as long as the set has members.

**Values** (`ValueInputProofs`): `ArenaIsWellFormed`, `LimitsHold` and
`PathFollowsWalk`, for all limits, any keys and every value, finite or not. The
invariant is these properties with the types, `OpenKeysDistinct` (the keys of
objects still open) and `Depths`: what was pushed below `n` open aggregates goes
down no more than `max_depth - n` levels. How far one can go down from a node is
said by walks (`Descends`), not by a recursive height, so that it needs no
induction over the arena: a walk from an old node stays among the old ones
(`DescentStays`, by the least level where it would not), and from a new node it goes
one level further than from its children (`NewNodeDescends`). `PushKeeps` is what
leaves and closed aggregates have in common.

**Engine** (`ValidationEngineProofs`): `StackIsBounded`, `OptionsReachAll`, `MarksAreBrackets`,
`ReferencesAreSound` and `ResultsConform`, for any depth limit, any schemas and inputs, and
whatever callbacks return. The first four rest on one invariant (`EngineInvariant`):

* `Stacked`: calls and states are two stacks that grow together; a call with a state of
  its own has the next one, the others have their caller's, and the innermost call
  works in the innermost state. That is what "restored on every way out" means here.
* `Path`: each call's schema is below its caller's, or the same for the strict branch of a
  model, and its depth is one more, except below a definitions node, below a field with
  an option and in that branch; since definitions are not nested, no fourth call is at
  one depth. And each call's options are those its caller hands on (`Handed`): a strict
  model's branch is strict, a field's has its option, every other call has its caller's.
* `Placed`: a call is inside of the definitions open around it, or outside of all. With
  `BracketsMatch` its state then has their scope, so that a reference that is declared
  around its schema finds its target, as `ReferencesSound` says.
* `Fitting` (a model at work has as many fields as its input) and `Progressing` (a
  reference being followed is not followed again on its input): what the handlers
  test when a call opens, remembered until it returns.
* `OptionsKept`: the first state has the options of the run, and each the profile of its
  input. With `Handed` along the stack, `OptionsInherited` follows by induction over the
  open calls (`InheritsNext`, by `AllNaturals`): what holds of the outermost field is
  carried down call by call.
* `BracketsMatch` itself, and `Sound`: what an error that is on its way up may be.

Every action is made of few steps: a call opens (`Opening`), the innermost call
returns (`Closing`), or it goes on to its next part. `OpeningKeeps` and `ClosingKeeps` show once
that these keep the invariant, and for each action it is left to show that it is one of
them. Where marks are set and cleared (`EnterDefinitions`, `EnterReference` and their
returns), `ListsLast` and `ListsLess` say what `Append` and removal do to a sequence that
lists the open calls in their order; `leave_reference` removes the last entry equal
to its own, which is the last entry at all, since none is there twice (`WithoutIs`).
The assumptions are those of the constructors: `Arity`, how many children a schema
has, and `Verified`, that `DefinitionsSchema::new` has refused nested definitions and
undeclared references. That a union has at least one choice (`verify_choices` of
`sum_schema.rs`) is among them since a proof asked for it: a union of nothing would
end without a value and without a failure, and pass for a success.

`ResultsConform` says what all of this is for: a value that comes back from the whole
recursion mirrors its input along the schema. What mirrors what is a claim about a
value, a schema and a node of an input, and a claim that needs no more than `n` steps
to tell is true of `n + 1` too (`Conforming`, a function of numbers). The invariant adds
`Conformity`:

* `CollectedParts`: what a call has collected conforms so far, each part to its own schema at
  its own place of the input, and so does the best of the choices a union has tried.
* `AskedParts` and `Answered`: what a waiting call has asked for (`Asks`: which schema, which node
  of which arena, in a state of its own or its caller's) is what the call inside of
  it is at work on, and what that one returns is what was asked for.
* `FormedStates`: every arena of values refers backwards only, so that a value that was appended
  to it, or copied from a branch into it (`Imported`), still says what it said.

The number of steps a claim may take is counted from the outside in, `Steps - c - 1` at
the `c`-th call; there are fewer open calls than steps (`CallsAreFew`), since three of
them are never at one depth, so the count never runs out. A chain hands its value
on as an input (`Handoff`), without the wrappers of sums; that the last step then validates a
mirror of the chain's input needs that such a reduced arena mirrors the input of
whoever built it, by an induction over the arena's ids (`AllNaturals`, from the
well-founded order of the naturals). Where a callback has replaced a value before
the last step, the chain's result is a mirror of what the callback returned, which
the property does not follow.


**Structural input** (`StructuralInputProofs`): `ArenaIsOrdered`, `EachNodeHasOneHolder`,
`AcceptedIsWithinLimits` and `SetsStayInOrder`, for all limits and every sequence of events. The invariant adds
to the three properties and the types `FramesFit` (what a frame may be, which `Enter`
tests and `Exit` relies on), `NewestHeld` (the newest node is what the innermost
aggregate with children received last, or the root, so that the member of an
optional value and the root of a finished arena are the last node) and `Depths`, by
walks as for values, where a node of the `f`-th open aggregate has `max_depth + 2 - f`
levels left. Every event that adds or moves a node is one of two steps: a new
node takes over what the closed aggregate held (`PushHolds`, `PushKeeps`) or the member
of an optional value changes hands (`MoveHolds`, `MoveKeeps`). Sorting may rearrange
items but not lose one, because an injection of `1 .. n` into itself reaches every
number (`InjectionReachesAll`).

`SetsStayInOrder` is about a comparison that is recursive over the arena: a node is
compared by its items, those by the nodes they name. Because ids point backwards,
the comparison of the first `k + 1` nodes asks of the first `k` only (`NodesNameOlder`,
`NodesAgree`), so it has an answer for every two nodes (`LessIdsIs`, by
`AllNaturals`) and the same one in every larger arena (`LowerStays`, `InOrderStays`).
That it can be sorted by needs more: a relation `Orders` a set when it is asymmetric
and whatever lies between two related elements is above the one or below the other.
Sequences compared place by place inherit this from their elements (`BeforeIsAsymmetric`,
`BeforeIsDivided`), hence items from ids, nodes from items and, along the arena, all
ids (`LowerOrders`); and what is so ordered has a sorting permutation
(`SortingExists`, by inserting one element more), so the branch of `Sorted` that would give up is never taken
(`SortedIsInOrder`).

**Unions** (`UnionValidationProofs`): `FailuresAreExact`, `VerdictIsRight`, `SmartChoosesBest`
and `StopsOnlyWhenExact`, for any cap and any number of branches of any outcomes. The
first rests on `Kept` (a failing branch leaves an error, so a failing union has
one to report) and on `OverrideCovers` (the declared error replaces what the cap
had kept of the branches, and takes its place under the first detail's path).
The others need `Leading`: while the loop runs, the branch kept leads those tried
so far, in the sense of `BestWins`, and none tried so far would have ended the loop.
Where some branches count fields and others do not, better is not transitive, so
the branch kept leads only those tried after it; `BetterIsAbove` is the step that
makes it the best of all where they are uniform.

**Iterator** (`CollectionValidationProofs`, last part): `IteratorKeepsStream`, that the iterator
implements the promised stream for any collection and any bounds. The invariant
says that the answers so far are the first `index` items, or, once finished,
all that is owed; each step of the iterator then delivers the next answer or
ends the stream, and each step of the list's validation is a stutter, because
what is owed depends only on what never changes (`NothingElseMatters`).

`IteratorAgreesWithList` says more of the same run: what the iterator refuses or finds of a
wrong length, the list has refused, and pulling all answers of items that have the
list's outcomes gives the values that validating the list gave, or its errors as far
as the cap allows. `ListInv` says
where the loop over the list is: the errors found are those of the items
passed, joined, the output is the items so far, and a loop that ended early
had nothing left that the cap would have kept. Capping each item's report first
makes no difference to what is capped in the end (`CapsJoin`). `Joined` is a function of
numbers; what it is at each (`JoinedIs`) follows by `AllNaturals`.

**Definitions** (`ValidationEngineProofs`, last part): `DefinitionsAreLeastClosed`, for any names
and references. The invariant has three parts: what is listed is distinct; what
visited parts and handled definitions refer to is listed; and whatever is listed
lies in every set that holds what the schema mentions and is closed. At the end
the second part says that the list is closed, the third that it is the least.

**Construction** (`OutputProofs`): `ConstructionExpanded`, for any
arenas and any capacity. `IInv == Progress /\ Expanded`, where `Progress` says that
the slots the loop has not reached are as they were validated: without it
nothing is known of the value that is rewritten next. The heart is
`ReplacementFits`: for each kind of special value, what it becomes and what is
pushed are of known kinds, and their ids, computed from the length of the arena
before the pushes, lie inside of the arena after them. For instants that means
that the tuple of the time is pushed ready, since the loop never reaches it.
After the loop, values only give way to `NoValue`, which holds no ids
(`GivingWayPreserves`).

`ScalarsHandedOver` is about what leaves the arena: a scalar is handed out once, as
its node says, and as it was validated, although the arena is rewritten around it
and the runtime may ask in any order and more than once. Its invariant adds
`Described`: nothing is taken before the arena is prepared; then every slot that was
not moved is described as it is, what was taken was moved, and an arena that is
to be sealed is whole. The loop leaves scalars alone (`ScalarStays`) and changes
one of the slots it finds (`RoundChangesOne`).

**JSON writer** (`OutputProofs`, last part): `OnlyValuesAreWritten`, that a document is returned
only for the projection of exactly one value, for any finite list of events, any plan,
options and limits. Where values end in a list of events is a function that is recursive from
the last event back (`ValueEnds`), and within an aggregate from child to child
(`ChildEnds`); both exist and satisfy their equations by `AllNaturals` (`ValueEndsFacts`,
`ChildEndsFacts`), since a value looks only at values that start inside of it
(`ChildEndsInside`, `ValueEndInside`). The invariant `NestedIn` says that each open frame started at
an `enter` with its kind and count, that its completed children end where the next frame's edge
stands, and that the last frame has come to the next event or to the edge that is
pending. Without the place of every frame the count alone would not do: that a frame
is complete says nothing of where its children were. An error changes nothing
(`FailFollows`); the omission of a field cuts output back, but not the frames (`Completed`).
The theorem covers visitors that are not projections of the runtime's, which the run
`json_writer` samples with one event disturbed. What is assumed of events is their
form (`DumpsAssumption`); that the document is then the right one, and that it fails only for
a reason (`Agreement`, `FailureIsDeserved`), compares with trees and stays with TLC.

Assumptions of the proofs, all evaluated by TLC: caps and capacities are positive
naturals; codes contain the ones the loops write; kinds are names of a set that
contains the written ones; a validation gives ids of its own arena and the parts
its kinds are made of.

**Model-checked only.** Liveness (`Termination`), which needs ENABLED; the
modules that walk trees by RECURSIVE operators (`StructuralDump`, `JsonDump`, `SerializerCallbacks`, the four modules of JSON Schema documents,
`InputExactness`, `SumLayout` and `SmartUnion`), whose results for every tree would need induction
over data, and whose operators the prover cannot expand. Recursive functions over
numbers are within reach: `AllNaturals` derives induction from the well-founded order
of the naturals, for sets rather than predicates, and an arena whose ids point
backwards is such an order.

## Not modelled, and the plan

Order of the modules, most important first: reports and collections, models,
unions, the two input boundaries, the engine that composes the handlers, the two
dumps, construction, serializers. These exist. What is left:

1. **Proofs.** The invariants of modules without RECURSIVE operators are all stated
   by theorems. `SerializerCallbacks` would need its walks over trees written as
   recursive functions before `HandedOver` and `Outcome` could be stated for every
   arena.
2. **Modules.** Root models with their strictness (`models.rs:197-262`) and defaults with theirs (396-401) in the engine; the exactness of native
   inputs, whose sequences have the kinds that schemas ask for; enums; `check_input_limits` and the strings profile (`mod.rs:616-737`);
   `set_field_alias`; decimals, fractions and complex numbers.
3. **Properties.** Each module keeps the few that are hardest to get right; a new
   one replaces the weakest of its module.

Not modelled, on purpose:

* *Special values*: dates, URLs, UUIDs and patterns are parsed by libraries;
  nothing happens between two steps. Scalars are modelled as far as documents
  speak of them (`JsonAcceptance`): no decimals, fractions or complex numbers, no
  stripping or conversion of letters, and numbers in canonical texts, so that a
  whole number is never written as 1.0.
* *What documents cannot say*: formats, titles, examples and x-sifr annotations
  assert nothing; sets drop items that repeat while their document forbids them,
  so such inputs are left aside; a pattern is a set of texts, the same for
  validation and for the document, as if both used one language of regular
  expressions; an extra key of a schema is only tested against the keys the
  generator itself writes.
* *Schema view*: accessors; what they give is part of the schemas of the other
  modules. The frontend in Sifr runs at compile time; the engine takes its
  programs as sealed, as the code does.
* *Bridge*: entry points that pass their arguments on. The identity check of
  the slot table and the borrow of the context protect against code of the
  runtime that is not in this repository; a callback that validates with its
  own context gets an error there (`bridges/model.rs:131`). Validators run in
  every branch a union tries; what they did to their context in a branch that
  lost stays done.
* *Text*: JSON escapes, numbers and messages; byte counts are kept where a
  limit reads them.

Abstractions a reader should know: the order of a set's elements in a projection
is taken as the runtime emits it; the temporal values' projections are text, as
an external codec; `Capacity` stands for the 2^32 - 1 nodes an arena can hold;
defaults in a static program are scalars or sequences, so defaults that are
mappings, which the two dumps compare differently, do not occur; URLs and
patterns project as records the plan has no policies below, and no dump of them is
modelled.
