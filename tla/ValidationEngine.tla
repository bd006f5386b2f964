--------------------------- MODULE ValidationEngine ---------------------------
(***************************************************************************)
(* The recursion of validation/mod.rs: validate_node and the handlers it   *)
(* dispatches to, as a machine with an explicit stack of calls and a stack *)
(* of ValidationStates.  A branch (validate_branch) works in a state of    *)
(* its own whose arena its caller imports; validate_input does so on a new *)
(* input.  Outcomes that depend on data - does a scalar fit, which branch  *)
(* of a union is better, is the error cap reached - are left open.         *)
(*                                                                         *)
(* Left out: the strings profile; sums of a single shape, which have no    *)
(* wrapper; mappings, whose keys of JSON are validated without strictness  *)
(* and options (collections.rs:364-368), also in the handoff of a chain;   *)
(* root models; and defaults, which are validated as native inputs, with   *)
(* the field's own strictness (models.rs:396-401).                         *)
(***************************************************************************)
EXTENDS Integers, Sequences

CONSTANTS
  MaxDepth,    \* limits.max_depth
  Graphs,      \* the schemas: graphs of schema nodes
  Inputs,      \* the input arenas validation may be asked about
  Outputs,     \* the input arenas validator callbacks may return
  Overrides    \* values of options.strict_override

Kinds == {"scalar", "sequence", "model", "nullable", "union", "definitions", "reference",
          "lax_or_strict", "json_or_structural", "function_before", "function_after", "chain",
          "field"}

Functions == {"function_before", "function_after"}

(* Wrappers have one kid, controls and functions two, a chain has a step   *)
(* and a union a choice.                                                   *)
Arity(kd, n) ==
  /\ kd \in {"sequence", "nullable", "definitions", "reference", "field"} => n = 1
  /\ kd \in {"lax_or_strict", "json_or_structural"} \cup Functions => n = 2
  /\ kd \in {"chain", "union"} => n > 0

(* verify_references: below definitions there are no others, and each      *)
(* reference is to one of theirs.                                          *)
Verified(g, d) ==
  \E inside \in SUBSET DOMAIN g.kind :
    /\ g.kids[d][1] \in inside
    /\ \A s \in inside :
         /\ g.kind[s] # "definitions"
         /\ g.kind[s] = "reference" => g.kids[s][1] \in g.declares[d]
         /\ \A k \in 1 .. Len(g.kids[s]) : g.kids[s][k] \in inside

(* A schema graph: nodes are numbers and the kids of a reference are its   *)
(* target.  The kids of a model are the schemas of its fields, or a node   *)
(* of its own for a field that has a strictness of its own: its option.    *)
(* flag is the strictness of a model, or the default strictness            *)
(* of a lax_or_strict node; declares are the targets a definitions node    *)
(* names; errors are the nodes that replace their error by one of their    *)
(* own.  A static schema, which alone has functions, finds the targets of  *)
(* references in a table and not in scopes.                                *)
IsGraph(g) ==
  /\ DOMAIN g = {"root", "kind", "kids", "flag", "option", "declares", "errors", "static"}
  /\ g.static \in BOOLEAN
  /\ g.errors \subseteq {s \in DOMAIN g.kind : g.static \/ g.kind[s] = "union"}
  /\ \A s \in g.errors \cup {g.root} : g.kind[s] # "field"
  /\ g.kind \in Seq(Kinds)
  /\ g.root \in DOMAIN g.kind
  /\ DOMAIN g.kids = DOMAIN g.kind /\ DOMAIN g.flag = DOMAIN g.kind
  /\ DOMAIN g.declares = DOMAIN g.kind /\ DOMAIN g.option = DOMAIN g.kind
  /\ \A s \in DOMAIN g.kind :
       /\ g.kids[s] \in Seq(DOMAIN g.kind) /\ Arity(g.kind[s], Len(g.kids[s]))
       /\ g.flag[s] \in BOOLEAN
       /\ g.declares[s] \subseteq DOMAIN g.kind
       /\ g.kind[s] = "field" => g.option[s] \in {"strict", "lax"}
       /\ \A k \in 1 .. Len(g.kids[s]) : g.kind[g.kids[s][k]] = "field" => g.kind[s] = "model"
       /\ g.kind[s] \in Functions => g.static
       /\ g.kind[s] = "definitions" => ~g.static /\ Verified(g, s)

InputNode == [kind : {"null", "leaf", "sequence"}, label : Nat, kids : Seq(Nat)]

(* An input arena: children come before their parents.                     *)
IsInput(a) ==
  /\ DOMAIN a = {"profile", "root", "nodes"}
  /\ a.profile \in {"json", "native"}
  /\ a.nodes \in Seq(InputNode)
  /\ a.root \in 1 .. Len(a.nodes)
  /\ \A i \in 1 .. Len(a.nodes) :
       /\ a.nodes[i].kind # "sequence" => a.nodes[i].kids = << >>
       /\ a.nodes[i].kind = "null" => a.nodes[i].label = 0
       /\ \A k \in 1 .. Len(a.nodes[i].kids) : a.nodes[i].kids[k] \in 1 .. i - 1

ASSUME DepthAssumption == MaxDepth \in Nat \ {0}
ASSUME GraphsAssumption == \A g \in Graphs : IsGraph(g)
ASSUME InputsAssumption ==
  /\ \A a \in Inputs : IsInput(a)
  /\ \A a \in Outputs : IsInput(a) /\ a.profile = "native"
ASSUME OverridesAssumption == Overrides \subseteq {"none", "strict", "lax"}

Modes == {"plain", "with_callbacks", "serialization"}

VARIABLES
  graph,       \* the schema
  asked,       \* the input arena
  options,     \* strict and strict_override of the entry
  mode,        \* the entry: "plain", "with_callbacks" or, without callbacks, "serialization"
  states,      \* the ValidationStates of the open branches, innermost last
  calls,       \* the open calls of validate_node, innermost last
  ret          \* what the last call returned, until its caller takes it

given == <<graph, asked, options, mode>>
vars == <<graph, asked, options, mode, states, calls, ret>>

(* Whose state a call works in: its caller's, that of a new branch, or     *)
(* that of a new input.                                                    *)
Homes == {"shared", "branch", "input"}

(* state is the index in states of the ValidationState it was handed.      *)
Call(s, i, d, home, k) ==
  [schema |-> s, input |-> i, depth |-> d, home |-> home, state |-> k,
   stage |-> 0, kids |-> << >>, failure |-> "none", best |-> << >>]

State(input, itsOptions, profile, scopes, active) ==
  [input |-> input, options |-> itsOptions, profile |-> profile, scopes |-> scopes, active |-> active,
   values |-> << >>]

Pending == [outcome |-> "pending"]
Returned(id, values) == [outcome |-> "ok", id |-> id, values |-> values]
Failed(code) == [outcome |-> "error", code |-> code]

Codes == {"value_error", "recursion_limit", "recursion_loop", "schema_invalid", "validator_error",
          "validator_unavailable", "declared_error"}

-----------------------------------------------------------------------------
Last(s) == s[Len(s)]
Pop(s) == SubSeq(s, 1, Len(s) - 1)

top == Last(calls)
here == Last(states)
kind == graph.kind[top.schema]
kids == graph.kids[top.schema]
node == here.input.nodes[top.input]

(* check_input_limits: the levels below a node. *)
Height(arena) ==
  LET h[i \in 1 .. Len(arena.nodes)] ==
        LET below == {arena.nodes[i].kids[k] : k \in 1 .. Len(arena.nodes[i].kids)}
        IN  IF below = {} THEN 0
            ELSE 1 + h[CHOOSE w \in below : \A u \in below : h[u] <= h[w]]
  IN  h[arena.root]

ImportedUnmoved(values, others) == values \o others

(* import_at: the ids of the nodes move by the length of the arena. *)
Imported(values, others) ==
  values \o [v \in 1 .. Len(others) |->
               [others[v] EXCEPT !.kids = [k \in 1 .. Len(@) |-> @[k] + Len(values)]]]

Pushed(state, kd, label, ids) ==
  [state EXCEPT !.values = Append(@, [kind |-> kd, label |-> label, kids |-> ids])]

(* Calls: a child in the caller's state, in a branch, on a new input.      *)
Descend(caller, state, s, i, d) ==
  /\ calls' = Append(Append(Pop(calls), caller), Call(s, i, d, "shared", Len(states)))
  /\ states' = Append(Pop(states), state)
  /\ ret' = Pending

BranchForgetful(caller, itsOptions, s, i, d) ==
  /\ calls' = Append(Append(Pop(calls), caller), Call(s, i, d, "branch", Len(states) + 1))
  /\ states' = Append(states, State(here.input, itsOptions, here.profile, here.scopes, << >>))
  /\ ret' = Pending

Branch(caller, itsOptions, s, i, d) ==
  /\ calls' = Append(Append(Pop(calls), caller), Call(s, i, d, "branch", Len(states) + 1))
  /\ states' = Append(states, State(here.input, itsOptions, here.profile, here.scopes, here.active))
  /\ ret' = Pending

(* Returns: the arena of a branch or of a new input goes to the caller.    *)
GiveWith(state, result) ==
  /\ calls' = Pop(calls)
  /\ states' = IF top.home = "shared" THEN Append(Pop(states), state) ELSE Pop(states)
  /\ ret' = result

Give(state, id) ==
  GiveWith(state, Returned(id, IF top.home = "shared" THEN << >> ELSE state.values))

(* apply_override leaves errors of limits and schemas as they are. *)
Overridden(code) ==
  IF top.schema \in graph.errors /\ code \notin {"recursion_limit", "schema_invalid"}
  THEN "declared_error" ELSE code

Fail(state, code) == GiveWith(state, Failed(Overridden(code)))

OpenInputUnscoped(caller, arena, profile, s, d) ==
  IF d + Height(arena) > MaxDepth THEN Fail(here, "recursion_limit")
  ELSE /\ calls' = Append(Append(Pop(calls), caller), Call(s, arena.root, d, "input", Len(states) + 1))
       /\ states' = Append(states, State(arena, here.options, profile, << >>, << >>))
       /\ ret' = Pending

(* validate_input and validate_chain_input: the scopes stay, the active    *)
(* references belong to the old input.                                     *)
OpenInput(caller, arena, profile, s, d) ==
  IF d + Height(arena) > MaxDepth THEN Fail(here, "recursion_limit")
  ELSE /\ calls' = Append(Append(Pop(calls), caller), Call(s, arena.root, d, "input", Len(states) + 1))
       /\ states' = Append(states, State(arena, here.options, profile, here.scopes, << >>))
       /\ ret' = Pending

(* The arena of a returned branch, imported. *)
WithImport == [here EXCEPT !.values = Imported(@, ret.values)]

GiveImport == Give(WithImport, Len(here.values) + ret.id)

(* selected_member: sums within sums are flattened, so the member selected *)
(* is the one below the wrapper of the inner sum; null has none.  Those of *)
(* a static schema are not.                                                *)
Selected(candidate, flattened) ==
  LET root == candidate.values[candidate.id]
  IN  IF flattened /\ root.kind = "wrap" THEN root.kids ELSE <<candidate.id>>

(* import_selected and wrap_existing *)
GiveSelected(candidate) ==
  LET selected == Selected(candidate, ~graph.static)
      state == IF selected = << >> THEN here
               ELSE [here EXCEPT !.values = Imported(@, candidate.values)]
      ids == [k \in 1 .. Len(selected) |-> selected[k] + Len(here.values)]
  IN  Give(Pushed(state, "wrap", 0, ids), Len(state.values) + 1)

-----------------------------------------------------------------------------
Strictly == CASE here.options.override = "strict" -> TRUE
              [] here.options.override = "lax"    -> FALSE
              [] OTHER -> here.options.strict \/ graph.flag[top.schema]

Init ==
  /\ graph \in Graphs
  /\ options \in [strict : BOOLEAN, override : Overrides]
  /\ mode \in Modes
  /\ asked \in Inputs
  /\ IF Height(asked) > MaxDepth
     THEN states = << >> /\ calls = << >> /\ ret = Failed("recursion_limit")
     ELSE /\ states = <<State(asked, options, asked.profile, << >>, << >>)>>
          /\ calls = <<Call(graph.root, asked.root, 0, "input", 1)>>
          /\ ret = Pending

ExceedsLate(depth) == depth > MaxDepth + 1

Exceeds(depth) == depth > MaxDepth

Entering(kd) ==
  calls # << >> /\ ret = Pending /\ ~Exceeds(top.depth) /\ kind = kd /\ UNCHANGED given

Returning(kd) == calls # << >> /\ ret # Pending /\ kind = kd /\ UNCHANGED given

Succeeded == ret.outcome = "ok"

PassOn(state) == IF Succeeded THEN Give(state, ret.id) ELSE Fail(state, ret.code)

TooDeep ==
  /\ calls # << >> /\ ret = Pending /\ Exceeds(top.depth)
  /\ Fail(here, "recursion_limit")
  /\ UNCHANGED given

Scalar ==
  /\ Entering("scalar")
  /\ \/ node.kind # "sequence" /\ Give(Pushed(here, node.kind, node.label, << >>), Len(here.values) + 1)
     \/ Fail(here, "value_error")

-----------------------------------------------------------------------------
(* A strict model in a lax validation: the same call again, in a strict    *)
(* branch.                                                                 *)
NeedsStrict ==
  kind = "model" /\ here.options.override = "none" /\ ~here.options.strict /\ graph.flag[top.schema]

EnterStrictModel ==
  /\ Entering("model") /\ NeedsStrict
  /\ Branch(top, [here.options EXCEPT !.strict = TRUE], top.schema, top.input, top.depth)

LeaveStrictModel ==
  /\ Returning("model") /\ NeedsStrict
  /\ IF Succeeded THEN GiveImport ELSE Fail(here, ret.code)

PartSchema(k) == IF kind = "model" THEN kids[k] ELSE kids[1]

Fits == node.kind = "sequence" /\ (kind = "model" => Len(kids) = Len(node.kids))

(* The next item or field, or the end of the loop. *)
NextPart(caller) ==
  IF caller.stage < Len(node.kids)
  THEN Descend([caller EXCEPT !.stage = @ + 1], here, PartSchema(caller.stage + 1),
               node.kids[caller.stage + 1], caller.depth + 1)
  ELSE IF caller.failure # "none" THEN Fail(here, caller.failure)
  ELSE Give(Pushed(here, "sequence", node.label, caller.kids), Len(here.values) + 1)

EnterAggregate ==
  \E kd \in {"sequence", "model"} :
    /\ Entering(kd) /\ ~NeedsStrict
    /\ IF Fits THEN NextPart(top) ELSE Fail(here, "value_error")

(* The first error of the parts; the others follow it in the report.       *)
FirstFailure == IF top.failure = "none" THEN ret.code ELSE top.failure

LeavePart ==
  \E kd \in {"sequence", "model"} :
    /\ Returning(kd) /\ ~NeedsStrict
    /\ IF Succeeded THEN NextPart([top EXCEPT !.kids = Append(@, ret.id)])
       ELSE \/ NextPart([top EXCEPT !.failure = FirstFailure])
            \/ Fail(here, FirstFailure)     \* the report is full

-----------------------------------------------------------------------------
(* A field with an option is validated in a branch that has it, unless     *)
(* another option is in force already.  This is a part of the model's      *)
(* loop, at the depth of the field's schema.                               *)
OptedAgain == TRUE

Opted == here.options.override = "none"

EnterField ==
  /\ Entering("field")
  /\ IF Opted
     THEN Branch(top, [here.options EXCEPT !.override = graph.option[top.schema]],
                 kids[1], top.input, top.depth)
     ELSE Descend(top, here, kids[1], top.input, top.depth)

LeaveField ==
  /\ Returning("field")
  /\ IF Opted /\ Succeeded THEN GiveImport ELSE PassOn(here)

-----------------------------------------------------------------------------
EnterNullable ==
  /\ Entering("nullable")
  /\ IF node.kind = "null" THEN Give(Pushed(here, "wrap", 0, << >>), Len(here.values) + 1)
     ELSE Branch(top, here.options, kids[1], top.input, top.depth + 1)

LeaveNullable ==
  /\ Returning("nullable")
  /\ IF Succeeded THEN GiveSelected(ret) ELSE Fail(here, ret.code)

(* The next choice of a union, or its end. *)
NextChoice(caller) ==
  IF caller.stage < Len(kids)
  THEN Branch([caller EXCEPT !.stage = @ + 1], here.options, kids[caller.stage + 1],
              caller.input, caller.depth + 1)
  ELSE IF caller.best # << >> THEN GiveSelected(caller.best[1])
  ELSE Fail(here, caller.failure)

EnterUnion == Entering("union") /\ NextChoice(top)

LeaveChoice ==
  /\ Returning("union")
  /\ IF Succeeded
     THEN \/ GiveSelected(ret)              \* left to right, or exact
          \/ NextChoice([top EXCEPT !.best = <<ret>>])
          \/ top.best # << >> /\ NextChoice(top)
     ELSE NextChoice([top EXCEPT !.failure = FirstFailure])

-----------------------------------------------------------------------------
EnterDefinitions ==
  /\ Entering("definitions")
  /\ Descend(top, [here EXCEPT !.scopes = Append(@, top.schema)], kids[1], top.input, top.depth)

LeaveDefinitions ==
  /\ Returning("definitions")
  /\ PassOn([here EXCEPT !.scopes = Pop(@)])

Declared(target) ==
  graph.static \/ \E k \in 1 .. Len(here.scopes) : target \in graph.declares[here.scopes[k]]

IsActive(reference) == \E k \in 1 .. Len(here.active) : here.active[k] = reference

EnterReference ==
  /\ Entering("reference")
  /\ IF ~Declared(kids[1]) THEN Fail(here, "schema_invalid")
     ELSE IF IsActive(<<top.input, kids[1]>>) THEN Fail(here, "recursion_loop")
     ELSE Descend(top, [here EXCEPT !.active = Append(@, <<top.input, kids[1]>>)],
                  kids[1], top.input, top.depth + 1)

WithoutSuccessful(reference) ==
  IF Succeeded THEN [here EXCEPT !.active = Pop(@)] ELSE here

(* leave_reference removes the last entry for the reference. *)
Without(reference) ==
  LET last == CHOOSE k \in 1 .. Len(here.active) :
                /\ here.active[k] = reference
                /\ \A j \in k + 1 .. Len(here.active) : here.active[j] # reference
  IN  IF IsActive(reference)
      THEN [here EXCEPT !.active = SubSeq(@, 1, last - 1) \o SubSeq(@, last + 1, Len(@))]
      ELSE here

LeaveReference ==
  /\ Returning("reference")
  /\ PassOn(Without(<<top.input, kids[1]>>))

-----------------------------------------------------------------------------
EnterLaxOrStrict ==
  /\ Entering("lax_or_strict")
  /\ Branch(top, here.options, kids[IF Strictly THEN 2 ELSE 1], top.input, top.depth + 1)

EnterJsonOrStructural ==
  /\ Entering("json_or_structural")
  /\ Branch(top, here.options, kids[IF here.profile = "json" THEN 1 ELSE 2], top.input, top.depth + 1)

LeaveControl ==
  \E kd \in {"lax_or_strict", "json_or_structural"} :
    Returning(kd) /\ IF Succeeded THEN GiveImport ELSE Fail(here, ret.code)

ChainedOnce(caller) == caller

Chained(caller) == [caller EXCEPT !.stage = @ + 1]

EnterChain ==
  /\ Entering("chain")
  /\ Branch(Chained(top), here.options, kids[1], top.input, top.depth + 1)

(* validated_input: the validated value as an input, without the wrappers. *)
Handoff(result, profile) ==
  LET values == result.values
      reduced[v \in 1 .. Len(values)] ==
        IF values[v].kind = "wrap" /\ values[v].kids # << >> THEN reduced[values[v].kids[1]] ELSE v
      asInput(n) == IF n.kind = "wrap" THEN [kind |-> "null", label |-> 0, kids |-> << >>]
                    ELSE [n EXCEPT !.kids = [k \in 1 .. Len(@) |-> reduced[@[k]]]]
  IN  [profile |-> profile, root |-> reduced[result.id],
       nodes |-> [v \in 1 .. Len(values) |-> asInput(values[v])]]

LeaveStep ==
  /\ Returning("chain")
  /\ IF ~Succeeded THEN Fail(here, ret.code)
     ELSE IF top.stage < Len(kids)
     THEN OpenInput(Chained(top), Handoff(ret, here.profile), here.profile, kids[top.stage + 1], top.depth + 1)
     ELSE GiveImport

(* Serialization skips the callback and validates the value alone. *)
SkipFunction ==
  \E kd \in Functions :
    /\ Entering(kd) /\ mode = "serialization"
    /\ Descend(top, here, kids[IF kd = "function_after" THEN 1 ELSE 2], top.input, top.depth + 1)

LeaveSkipped ==
  \E kd \in Functions : Returning(kd) /\ mode = "serialization" /\ PassOn(here)

EnterFunction ==
  \E kd \in Functions :
    /\ Entering(kd) /\ mode # "serialization"
    /\ Branch([top EXCEPT !.stage = 1], here.options, kids[1], top.input, top.depth + 1)

OutputProfileKept == here.profile

OutputProfile == "native"

(* The callback's output is an input of its own, always native. *)
Invoke ==
  \E kd \in Functions :
    /\ Returning(kd) /\ mode # "serialization" /\ top.stage = 1
    /\ IF ~Succeeded THEN Fail(here, ret.code)
       ELSE IF mode = "plain" THEN Fail(here, "validator_unavailable")
       ELSE \/ Fail(here, "validator_error")
            \/ \E output \in Outputs :
                 OpenInput([top EXCEPT !.stage = 2], output, OutputProfile, kids[2], top.depth + 1)

LeaveFunction ==
  \E kd \in Functions :
    /\ Returning(kd) /\ mode # "serialization" /\ top.stage = 2
    /\ IF Succeeded THEN GiveImport ELSE Fail(here, ret.code)

-----------------------------------------------------------------------------
Next ==
  \/ TooDeep \/ Scalar
  \/ EnterStrictModel \/ LeaveStrictModel \/ EnterAggregate \/ LeavePart
  \/ EnterField \/ LeaveField
  \/ EnterNullable \/ LeaveNullable \/ EnterUnion \/ LeaveChoice
  \/ EnterDefinitions \/ LeaveDefinitions \/ EnterReference \/ LeaveReference
  \/ EnterLaxOrStrict \/ EnterJsonOrStructural \/ LeaveControl
  \/ EnterChain \/ LeaveStep
  \/ SkipFunction \/ LeaveSkipped \/ EnterFunction \/ Invoke \/ LeaveFunction

Spec == Init /\ [][Next]_vars

(* The code runs to its end: nothing waits on anything. *)
FairSpec == Spec /\ WF_vars(Next)
-----------------------------------------------------------------------------

(* A call has run its entry: it is not the innermost one, or it is about   *)
(* to take what its child returned.                                        *)
Entered(c) == c < Len(calls) \/ ret # Pending

(* The calls of a kind that are open around what happens in a state.       *)
OpenAround(k, kd) ==
  {c \in 1 .. Len(calls) : calls[c].state <= k /\ Entered(c) /\ graph.kind[calls[c].schema] = kd}

(* No input was opened between a call and what happens in a state.         *)
OnInputOf(c, k) ==
  \A d \in c + 1 .. Len(calls) : calls[d].state <= k => calls[d].home # "input"

(* What a reference call follows: a definition, at an input node.          *)
Followed(c) == <<calls[c].input, graph.kids[calls[c].schema][1]>>

(* A sequence has one entry for each of some calls, in their order.        *)
Lists(s, open, entry) ==
  \E at \in [1 .. Len(s) -> open] :
    /\ \A c \in open : \E k \in 1 .. Len(s) : at[k] = c
    /\ \A j, k \in 1 .. Len(s) : j < k => at[j] < at[k]
    /\ \A k \in 1 .. Len(s) : s[k] = entry[at[k]]

(* Definition scopes and active references are brackets: whatever failed   *)
(* or succeeded before, a state has exactly the scopes of the definitions  *)
(* calls open around it, and the references open on its input.             *)
BracketsMatch ==
  \A k \in 1 .. Len(states) :
    /\ LET open == OpenAround(k, "definitions")
       IN  Lists(states[k].scopes, open, [c \in open |-> calls[c].schema])
    /\ LET open == {c \in OpenAround(k, "reference") : OnInputOf(c, k)}
       IN  Lists(states[k].active, open, [c \in open |-> Followed(c)])

(* Every reference stands within the definitions that declare its target.  *)
Enclosed(g) ==
  g.static \/ \E outside \in SUBSET DOMAIN g.kind :
    /\ g.root \in outside
    /\ \A s \in outside :
         /\ g.kind[s] # "reference"
         /\ g.kind[s] # "definitions" =>
              \A k \in 1 .. Len(g.kids[s]) : g.kids[s][k] \in outside

(* No reference is followed again at an input node where it is being       *)
(* followed already, whatever branches lie between; and one that is        *)
(* declared around its schema is found on every path to it, through        *)
(* branches, callbacks and chains: only a schema with a reference outside  *)
(* of definitions is ever found invalid.                                   *)
ReferencesSound ==
  /\ \A c, d \in 1 .. Len(calls) :
       (/\ c < d /\ Entered(d)
        /\ graph.kind[calls[c].schema] = "reference" /\ graph.kind[calls[d].schema] = "reference"
        /\ \A e \in c + 1 .. d : calls[e].home # "input") => Followed(c) # Followed(d)
  /\ (ret.outcome = "error" /\ ret.code = "schema_invalid") => ~Enclosed(graph)

(* The options reach what they are for.  A call obeys the option of the    *)
(* run; without one, the option of the outermost field around it that has  *)
(* one; and without any, it is strict exactly when the run is or a strict  *)
(* model is around it: through branches, chains and callbacks' outputs.    *)
(* And the profile of a state is the one its input was built for, so that  *)
(* no native value meets JSON rules or the reverse.                        *)
OptionsInherited ==
  /\ \A d \in 1 .. Len(calls) :
       LET its == states[calls[d].state].options
           fields == {c \in 1 .. d - 1 : graph.kind[calls[c].schema] = "field"}
           models == {c \in 1 .. d - 1 : graph.kind[calls[c].schema] = "model"}
       IN  /\ (options.override # "none" \/ fields = {}) => its.override = options.override
           /\ options.override = "none" =>
                \A f \in fields :
                  (\A c \in fields : f <= c) => its.override = graph.option[calls[f].schema]
           /\ its.override = "none" =>
                (its.strict <=> options.strict \/ \E c \in models : graph.flag[calls[c].schema])
  /\ \A k \in 1 .. Len(states) : states[k].profile = states[k].input.profile

(* The stack of the program is bounded by the depth limit: at most three   *)
(* calls - a definitions node, a strict model and its strict branch, or a  *)
(* field with an option, definitions and a model - are at the same depth,  *)
(* and none is deeper than one below the limit.                            *)
StackBounded ==
  /\ \A c \in 1 .. Len(calls) : calls[c].depth <= MaxDepth + 1
  /\ \A c \in 1 .. Len(calls) : c + 3 <= Len(calls) => calls[c].depth < calls[c + 3].depth

(* Every validation ends, however schemas and callbacks' outputs recur.    *)
Termination == <>(calls = << >>)
=============================================================================
