---------------------------- MODULE ModelValidation ----------------------------
(***************************************************************************)
(* validate_model of validation/models.rs: the loop over the fields of a   *)
(* model, the loop over the entries no field consumed, and the value that  *)
(* is built.  Validating a field, a default or an extra is a call of       *)
(* validate_node; here it is an outcome given with the schema or the       *)
(* input.  The same machine validates schemas built in memory (owned) and  *)
(* static programs, whose fields are all input fields and whose factories  *)
(* run at construction.                                                    *)
(***************************************************************************)
EXTENDS ErrorReport, FiniteSets

CONSTANTS
  MaxErrors,  \* options.limits.max_errors
  Name,       \* names of fields, aliases and input entries
  Absent,     \* no destination; also the first segment of an alias that is an index
  Cases       \* the pairs of a schema and an input to validate

(* An alias path: its first segment, and whether further segments follow.  *)
Alias == [top : Name \cup {Absent}, deeper : BOOLEAN]

(* outcome: of the selected value; ofDefault: of the default's value.      *)
(* FieldDefault is absent, materialized here, or left to construction.     *)
Field == [name : Name, input : BOOLEAN, aliases : Seq(Alias),
          default : {"required", "value", "construction"},
          outcome : Outcome(MaxErrors), ofDefault : Outcome(MaxErrors)]

Model == [fields : Seq(Field), extra : {"ignore", "forbid", "allow"},
          destination : Name \cup {Absent}, byName : BOOLEAN, byAlias : BOOLEAN]

(* deeper: a path of several segments that starts here resolves; outcome:  *)
(* of the value as an extra.                                               *)
Entry == [name : Name, deeper : BOOLEAN, outcome : Outcome(MaxErrors)]

(* accepted: the input is an object of the kind the profile asks for.      *)
Case == [model : Model, entries : Seq(Entry), accepted : BOOLEAN]

(* What verify_model_fields says of the owned schemas.                     *)
Verified(m) ==
  LET numbered == 1 .. Len(m.fields)
  IN  /\ \A i, j \in numbered : m.fields[i].name = m.fields[j].name => i = j
      /\ (m.extra = "allow") <=> (m.destination # Absent)
      /\ m.extra = "allow" =>
           \E i \in numbered : /\ m.fields[i].name = m.destination
                               /\ ~m.fields[i].input /\ m.fields[i].default = "required"
      /\ \A i \in numbered : ~m.fields[i].input =>
           m.fields[i].default = "value" \/ m.fields[i].name = m.destination

ASSUME LimitAssumption == MaxErrors \in Nat \ {0}
ASSUME CasesAssumption == Cases \subseteq Case /\ \A c \in Cases : Verified(c.model)
ASSUME NamesAssumption == Name \subseteq Nat /\ Absent \notin Name
ASSUME CodesAssumption == {"model_type", "missing", "extra_forbidden"} \subseteq Code

VARIABLES
  case,      \* the schema and the input; never changes
  stage,     \* "enter", "fields", "extras", "build", "done"
  at,        \* iterations the current loop has made
  consumed,  \* the entries some field selected
  values,    \* field_values: where the value of a field came from
  extras,    \* the entries validated as extras, in order
  count,     \* validated_field_count
  errors,    \* Option<ValidationError>
  result,    \* the fields of the built model, in order
  found,     \* history: the errors of all visited fields and extras, uncapped
  left       \* history: fields, extras or parts of them were left unvisited

vars == <<case, stage, at, consumed, values, extras, count, errors, result, found, left>>

Fields  == case.model.fields
Entries == case.entries
Source  == {"none", "input", "default", "extras"}

Init ==
  /\ case \in Cases
  /\ stage = "enter"
  /\ at = 0
  /\ consumed = {}
  /\ values = [f \in 1 .. Len(Fields) |-> "none"]
  /\ extras = << >>
  /\ count = 0
  /\ errors = Nothing
  /\ result = << >>
  /\ found = << >>
  /\ left = FALSE

-----------------------------------------------------------------------------
(* The first entry with a name, 0 when there is none. *)
EntryNamed(name) ==
  IF \E e \in 1 .. Len(Entries) : Entries[e].name = name
  THEN CHOOSE e \in 1 .. Len(Entries) :
         Entries[e].name = name /\ \A d \in 1 .. e - 1 : Entries[d].name # name
  ELSE 0

(* resolve_alias together with top_level_index. *)
Resolves(alias) ==
  LET e == EntryNamed(alias.top)
  IN  alias.top # Absent /\ e # 0 /\ (alias.deeper => Entries[e].deeper)

ByField(field)  == <<<<"field", field.name>>>>

ByAliasPath(field, alias) ==
  IF ~case.model.byAlias THEN ByField(field)
  ELSE IF alias.deeper THEN <<<<"field", alias.top>>, <<"index", 0>>>>
  ELSE <<<<"field", alias.top>>>>

(* select_field: the first alias that resolves; the field's own name only  *)
(* when there is no alias or the model is populated by name.               *)
SelectField(field) ==
  LET resolving == {i \in 1 .. Len(field.aliases) : Resolves(field.aliases[i])}
      first == CHOOSE i \in resolving : \A j \in resolving : i <= j
  IN  IF resolving # {}
      THEN [entry |-> EntryNamed(field.aliases[first].top),
            path |-> ByAliasPath(field, field.aliases[first])]
      ELSE IF field.aliases = << >> \/ case.model.byName
      THEN [entry |-> EntryNamed(field.name), path |-> ByField(field)]
      ELSE [entry |-> 0, path |-> << >>]

MissingPath(field) ==
  IF case.model.byAlias /\ field.aliases # << >> /\ field.aliases[1].top # Absent
  THEN <<<<"field", field.aliases[1].top>>>>
  ELSE ByField(field)

-----------------------------------------------------------------------------
(* The match on the input: not an object, or of the wrong kind.            *)
Reject ==
  /\ stage = "enter"
  /\ ~case.accepted
  /\ LET detail == [location |-> << >>, code |-> "model_type"]
     IN  errors' = One(detail) /\ found' = <<detail>>
  /\ stage' = "done"
  /\ UNCHANGED <<case, at, consumed, values, extras, count, result, left>>

Accept ==
  /\ stage = "enter"
  /\ case.accepted
  /\ stage' = "fields"
  /\ UNCHANGED <<case, at, consumed, values, extras, count, errors, result, found, left>>

InFields == stage = "fields" /\ at < Len(Fields) /\ ~IsFull(errors, MaxErrors)

Visited  == Fields[at + 1]
Selected == SelectField(Visited)

(* Work the fields after the visited one may still do. *)
MoreFields == \E f \in at + 2 .. Len(Fields) : Fields[f].input \/ Fields[f].default = "value"

MoreExtrasAlways == Cardinality(consumed') < Len(Entries)

MoreExtras == case.model.extra # "ignore" /\ Cardinality(consumed') < Len(Entries)

(* The end of an iteration over a field whose outcome is o under path.     *)
EndField(path, o) ==
  LET e == Collect(errors, path, o, MaxErrors)
      unvisited == MoreFields \/ (case.model.extra # "ignore" /\ consumed' # 1 .. Len(Entries))
  IN  /\ errors' = StopAfterErrorCap(e, MoreFields \/ MoreExtras, MaxErrors)
      /\ found' = found \o LocateAll(path, o.found)
      /\ left' = (left \/ o.left \/ (IsFull(e, MaxErrors) /\ unvisited))
      /\ at' = at + 1
      /\ UNCHANGED <<case, stage, extras, result>>

SetValue(o, source) ==
  values' = IF IsFine(o) THEN [values EXCEPT ![at + 1] = source] ELSE values

ValidateInputUnconsumed ==
  /\ InFields /\ Visited.input /\ Selected.entry # 0
  /\ consumed' = IF IsFine(Visited.outcome) THEN consumed \cup {Selected.entry} ELSE consumed
  /\ SetValue(Visited.outcome, "input")
  /\ count' = IF IsFine(Visited.outcome) THEN count + 1 ELSE count
  /\ EndField(Selected.path, Visited.outcome)

(* An input field whose value was found, with or without a strictness of   *)
(* its own: the entry is consumed even when the value is invalid.          *)
ValidateInput ==
  /\ InFields /\ Visited.input /\ Selected.entry # 0
  /\ consumed' = consumed \cup {Selected.entry}
  /\ SetValue(Visited.outcome, "input")
  /\ count' = IF IsFine(Visited.outcome) THEN count + 1 ELSE count
  /\ EndField(Selected.path, Visited.outcome)

ValidateDefaultCounted ==
  /\ InFields /\ Visited.default = "value"
  /\ Visited.input => Selected.entry = 0
  /\ SetValue(Visited.ofDefault, "default")
  /\ count' = IF IsFine(Visited.ofDefault) THEN count + 1 ELSE count
  /\ UNCHANGED consumed
  /\ EndField(ByField(Visited), Visited.ofDefault)

(* validate_default, for a non-input field or one without an entry.        *)
ValidateDefault ==
  /\ InFields /\ Visited.default = "value"
  /\ Visited.input => Selected.entry = 0
  /\ SetValue(Visited.ofDefault, "default")
  /\ UNCHANGED <<consumed, count>>
  /\ EndField(ByField(Visited), Visited.ofDefault)

RequireField ==
  /\ InFields /\ Visited.input /\ Selected.entry = 0 /\ Visited.default = "required"
  /\ UNCHANGED <<consumed, values, count>>
  /\ EndField(MissingPath(Visited), Single([location |-> << >>, code |-> "missing"]))

(* A default left to construction, or the destination of the extras.       *)
PassOverField ==
  /\ InFields
  /\ \/ Visited.input /\ Selected.entry = 0 /\ Visited.default = "construction"
     \/ ~Visited.input /\ Visited.default # "value"
  /\ UNCHANGED <<consumed, values, count>>
  /\ EndField(ByField(Visited), Fine)

EndFieldsBehindConsumed ==
  /\ stage = "fields" /\ ~InFields
  /\ stage' = IF IsFull(errors, MaxErrors) THEN "done" ELSE "extras"
  /\ at' = Cardinality(consumed)
  /\ UNCHANGED <<case, consumed, values, extras, count, errors, result, found, left>>

(* The break out of the field loop, or its end; a full report is returned. *)
EndFields ==
  /\ stage = "fields" /\ ~InFields
  /\ stage' = IF IsFull(errors, MaxErrors) THEN "done" ELSE "extras"
  /\ at' = 0
  /\ UNCHANGED <<case, consumed, values, extras, count, errors, result, found, left>>

-----------------------------------------------------------------------------
InExtras == stage = "extras" /\ at < Len(Entries) /\ ~IsFull(errors, MaxErrors)

SkipConsumed ==
  /\ InExtras /\ at + 1 \in consumed
  /\ at' = at + 1
  /\ UNCHANGED <<case, stage, consumed, values, extras, count, errors, result, found, left>>

ExtraOutcome ==
  CASE case.model.extra = "ignore" -> Fine
    [] case.model.extra = "forbid" -> Single([location |-> << >>, code |-> "extra_forbidden"])
    [] case.model.extra = "allow"  -> Entries[at + 1].outcome

(* An iteration of validate_extras over an entry no field consumed.        *)
VisitExtra ==
  LET o    == ExtraOutcome
      path == <<<<"field", Entries[at + 1].name>>>>
      e    == Collect(errors, path, o, MaxErrors)
      more == \E next \in at + 2 .. Len(Entries) : next \notin consumed
  IN  /\ InExtras /\ at + 1 \notin consumed
      /\ extras' = IF case.model.extra = "allow" /\ IsFine(o) THEN Append(extras, at + 1) ELSE extras
      /\ errors' = StopAfterErrorCap(e, more, MaxErrors)
      /\ found' = found \o LocateAll(path, o.found)
      /\ left' = (left \/ o.left \/ (IsFull(e, MaxErrors) /\ more))
      /\ at' = at + 1
      /\ UNCHANGED <<case, stage, consumed, values, count, result>>

EndExtras ==
  /\ stage = "extras" /\ ~InExtras
  /\ stage' = IF errors = Nothing THEN "build" ELSE "done"
  /\ UNCHANGED <<case, at, consumed, values, extras, count, errors, result, found, left>>

InOrder(numbers) ==
  CHOOSE s \in [1 .. Cardinality(numbers) -> numbers] :
    \A i, j \in 1 .. Cardinality(numbers) : i < j => s[i] < s[j]

(* The extras become the value of their destination; the fields that have  *)
(* a value are put in the order of their declaration.                      *)
Build ==
  /\ stage = "build"
  /\ values' = [f \in 1 .. Len(Fields) |->
                 IF Fields[f].name = case.model.destination THEN "extras" ELSE values[f]]
  /\ result' = InOrder({f \in 1 .. Len(Fields) : values'[f] # "none"})
  /\ stage' = "done"
  /\ UNCHANGED <<case, at, consumed, extras, count, errors, found, left>>

Next ==
  \/ Reject
  \/ Accept
  \/ ValidateInput
  \/ ValidateDefault
  \/ RequireField
  \/ PassOverField
  \/ EndFields
  \/ SkipConsumed
  \/ VisitExtra
  \/ EndExtras
  \/ Build

Spec == Init /\ [][Next]_vars

-----------------------------------------------------------------------------
(* The report of a model is the capped prefix of the errors of its visited *)
(* fields and extras, and it is flagged exactly when errors were dropped   *)
(* or something was left unvisited: the two has_more computations, which   *)
(* count consumed entries and skip fields that can have no error.          *)
ReportContract == Covers(errors, found, left, MaxErrors)

SelectedEntries ==
  {SelectField(Fields[f]).entry : f \in {g \in 1 .. Len(Fields) : Fields[g].input}} \ {0}

(* The errors about extras of this model; those of a part lie deeper.      *)
Forbidden ==
  {i \in 1 .. Len(found) : found[i].code = "extra_forbidden" /\ Len(found[i].location) = 1}

(* They can be told by their code unless a part reports that code where it *)
(* lies itself, as an error override could that declares it.               *)
ForbidsBelow(o) ==
  \A i \in 1 .. Len(o.found) :
    o.found[i].code = "extra_forbidden" => o.found[i].location # << >>

Told ==
  /\ \A f \in 1 .. Len(Fields) :
       ForbidsBelow(Fields[f].outcome) /\ ForbidsBelow(Fields[f].ofDefault)
  /\ \A e \in 1 .. Len(Entries) : ForbidsBelow(Entries[e].outcome)

(* What a field selects is never an extra, not even when the field is      *)
(* invalid, comes later, or shares the entry with another field by nested  *)
(* aliases; and what no field selects never vanishes silently.             *)
ExtrasAreTheRest ==
  LET rest == (1 .. Len(Entries)) \ SelectedEntries
  IN  /\ \A i \in 1 .. Len(extras) : extras[i] \in rest
      /\ Told => \A i \in Forbidden :
                   \E e \in rest : found[i].location = <<<<"field", Entries[e].name>>>>
      /\ (stage = "done" /\ case.accepted /\ ~errors.truncated) =>
           /\ case.model.extra = "forbid" /\ Told => Cardinality(Forbidden) = Cardinality(rest)
           /\ case.model.extra = "allow" =>
                {extras[i] : i \in 1 .. Len(extras)} = {e \in rest : IsFine(Entries[e].outcome)}

(* Whether the case has an error anywhere, whatever the cap. *)
Invalid ==
  \/ ~case.accepted
  \/ \E f \in 1 .. Len(Fields) :
       LET selected == Fields[f].input /\ SelectField(Fields[f]).entry # 0
       IN  \/ selected /\ ~IsFine(Fields[f].outcome)
           \/ ~selected /\ Fields[f].default = "value" /\ ~IsFine(Fields[f].ofDefault)
           \/ ~selected /\ Fields[f].input /\ Fields[f].default = "required"
  \/ \E e \in (1 .. Len(Entries)) \ SelectedEntries :
       \/ case.model.extra = "forbid"
       \/ case.model.extra = "allow" /\ ~IsFine(Entries[e].outcome)

(* The verdict does not depend on the cap or on where the loops stop.      *)
Verdict == stage = "done" => (errors # Nothing <=> Invalid)

(* What a built model holds: every field once, in the order declared, with *)
(* the value of its own source; only fields left to construction are       *)
(* missing; and the count that smart unions compare is the number of       *)
(* fields that came from the input.                                        *)
BuiltModel ==
  (stage = "done" /\ errors = Nothing) =>
    /\ \A i, j \in 1 .. Len(result) : i < j => result[i] < result[j]
    /\ \A f \in 1 .. Len(Fields) :
         LET field == Fields[f]
             selected == field.input /\ SelectField(field).entry # 0
         IN  /\ values[f] = IF selected THEN "input"
                            ELSE IF field.default = "value" THEN "default"
                            ELSE IF field.name = case.model.destination THEN "extras"
                            ELSE "none"
             /\ (\E i \in 1 .. Len(result) : result[i] = f) <=>
                  (selected \/ field.default # "construction")
    /\ count = Cardinality({f \in 1 .. Len(Fields) : values[f] = "input"})
=============================================================================
