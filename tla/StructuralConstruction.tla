-------------------------- MODULE StructuralConstruction --------------------------
(***************************************************************************)
(* From validated values to typed ones (validation/structural.rs).  The    *)
(* arena of a validation holds values the runtime has no kind for: URLs,   *)
(* fractions, dates, patterns, frozen sets.  prepare_structural rewrites   *)
(* them in place, slot by slot, while it pushes what they are made of to   *)
(* the end of the same arena; then it describes every value.  The runtime  *)
(* takes the scalars one by one (take_scalar), or the whole arena is       *)
(* sealed for a callback (into_structural_arena).                          *)
(* A value holds the ids of other values, or parts that are no values yet. *)
(***************************************************************************)
EXTENDS Naturals, Sequences

CONSTANTS
  Text,       \* the names of kinds and fields, and the parts that are no values yet
  Arenas,     \* what a validation can give: [root |-> id, values |-> sequence of values]
  Capacity    \* the values an arena has room for

ASSUME CapacityAssumption == Capacity \in Nat \ {0}

VARIABLES
  purpose,    \* "construct", or "callback"
  stage,      \* "validated", "expanding", "prepared", "sealed" or "failed"
  validated,  \* the arena as it was validated
  values,     \* its values now
  index,      \* the slot that is expanded next
  nodes,      \* descriptions and edges, once it is prepared
  moved,      \* which scalars were taken one by one
  taken       \* what was taken: the node and the scalar

constructionVars == <<purpose, stage, validated, values, index, nodes, moved, taken>>

Texts == {"url", "multi_host_url"}
Specialised == Texts \cup {"pattern", "fraction", "complex", "date", "time", "datetime",
                           "duration", "frozenset"}
Undescribed == Specialised \ {"frozenset"}
Scalars == {"none", "bool", "exact_int", "fixed_int", "float", "decimal", "string", "bytes", "uuid"}

Atom(kind, part) == [kind |-> kind, names |-> << >>, ids |-> << >>, parts |-> <<part>>]
Holder(kind, ids) == [kind |-> kind, names |-> << >>, ids |-> ids, parts |-> << >>]
Model(name, fields, ids) == [kind |-> "model", names |-> fields, ids |-> ids, parts |-> <<name>>]
Tuple(ids) == Holder("tuple", ids)
NoValue == Holder("none", << >>)

(* What validation gives: the parts every kind is made of, and ids of the  *)
(* arena.                                                                  *)
Value == [kind : Text, names : Seq(Text), ids : Seq(Nat), parts : Seq(Text)]

WellFormed(value) ==
  /\ value.kind \in Texts => Len(value.parts) = 1
  /\ value.kind \in {"pattern", "fraction", "complex"} => Len(value.parts) = 2
  /\ value.kind = "date" => Len(value.parts) = 3
  /\ value.kind = "time" => Len(value.parts) \in 4 .. 5
  /\ value.kind = "datetime" => Len(value.parts) \in 7 .. 8
  /\ value.kind = "duration" => Len(value.parts) = 4

ASSUME TextAssumption ==
  {"model", "tuple", "nullable", "set", "none", "bool", "exact_int", "fixed_int", "float", "string",
   "url", "multi_host_url", "pattern", "frozenset", "value", "source", "flags", "_values"} \subseteq Text

ASSUME ArenasAssumption ==
  \A arena \in Arenas :
    /\ arena.values \in Seq(Value)
    /\ \A i \in DOMAIN arena.values :
         /\ WellFormed(arena.values[i])
         /\ \A k \in DOMAIN arena.values[i].ids : arena.values[i].ids[k] \in DOMAIN arena.values

ConstructionInit ==
  /\ purpose \in {"construct", "callback"}
  /\ stage = "validated"
  /\ validated \in Arenas
  /\ values = validated.values
  /\ index = 1
  /\ nodes = << >>
  /\ moved = << >>
  /\ taken = {}

-----------------------------------------------------------------------------
(* What a slot becomes when n values are in the arena, and what is pushed  *)
(* after them.                                                             *)
Becomes(value, pushed) == [value |-> value, pushed |-> pushed]

Atoms(kind, parts) == [i \in DOMAIN parts |-> Atom(kind, parts[i])]

Numbered(n, count) == [i \in 1 .. count |-> n + i]

AsTuple(kind, parts, n) == Becomes(Tuple(Numbered(n, Len(parts))), Atoms(kind, parts))

(* time_tuple: the optional offset is pushed before the other parts and    *)
(* comes last in the tuple.                                                *)
TimeTuple(parts, n) ==
  LET clock  == SubSeq(parts, 1, 4)
      offset == IF Len(parts) = 5
                THEN <<Atom("fixed_int", parts[5]), Holder("nullable", <<n + 1>>)>>
                ELSE <<Holder("nullable", << >>)>>
      last   == n + Len(offset)
  IN  Becomes(Tuple(Numbered(last, 4) \o <<last>>), offset \o Atoms("fixed_int", clock))

DateTimeTupleUnexpanded(parts, n) ==
  LET time == [Atom("time", "") EXCEPT !.parts = SubSeq(parts, 4, Len(parts))]
  IN  Becomes(Tuple(<<n + 4, n + 5>>),
              Atoms("fixed_int", SubSeq(parts, 1, 3)) \o <<Tuple(Numbered(n, 3)), time>>)

(* The time is pushed as the tuple it is written as: the loop would not    *)
(* come to it.                                                             *)
DateTimeTuple(parts, n) ==
  LET time == TimeTuple(SubSeq(parts, 4, Len(parts)), n + 4)
  IN  Becomes(Tuple(<<n + 4, n + 5 + Len(time.pushed)>>),
              Atoms("fixed_int", SubSeq(parts, 1, 3)) \o <<Tuple(Numbered(n, 3))>>
                \o time.pushed \o <<time.value>>)

Replacement(value, n) ==
  CASE value.kind \in Texts ->
         Becomes(Model(value.kind, <<"value">>, <<n + 1>>), Atoms("string", value.parts))
    [] value.kind = "pattern" ->
         Becomes(Model("pattern", <<"source", "flags">>, Numbered(n, 2)),
                 <<Atom("string", value.parts[1]), Atom("fixed_int", value.parts[2])>>)
    [] value.kind = "fraction" -> AsTuple("exact_int", value.parts, n)
    [] value.kind = "complex"  -> AsTuple("float", value.parts, n)
    [] value.kind = "date"     -> AsTuple("fixed_int", value.parts, n)
    [] value.kind = "time"     -> TimeTuple(value.parts, n)
    [] value.kind = "datetime" -> DateTimeTuple(value.parts, n)
    [] value.kind = "duration" ->
         Becomes(Tuple(Numbered(n, 4)),
                 <<Atom("bool", value.parts[1])>> \o Atoms("fixed_int", Tail(value.parts)))
    [] value.kind = "frozenset" ->
         Becomes(Model("frozenset", <<"_values">>, <<n + 1>>), <<Holder("set", value.ids)>>)
    [] OTHER -> Becomes(value, << >>)

-----------------------------------------------------------------------------
(* structural_description and build_structural_edges.                      *)
Kind(value) ==
  CASE value.kind = "decimal" -> "string"
    [] value.kind = "uuid"    -> "bytes"
    [] OTHER                  -> value.kind

Node(value) ==
  [kind |-> Kind(value), nominal |-> IF value.kind \in Scalars THEN << >> ELSE value.parts,
   names |-> value.names, ids |-> value.ids]

(* prepare_structural of an arena that was prepared is refused and changes *)
(* nothing.                                                                *)
Prepare ==
  /\ stage = "validated"
  /\ stage' = "expanding"
  /\ UNCHANGED <<purpose, validated, values, index, nodes, moved, taken>>

(* One round of the loop of expand_specialized_values over the slots that  *)
(* there were at its start.                                                *)
ExpandSlot ==
  LET new == Replacement(values[index], Len(values))
  IN  /\ stage = "expanding"
      /\ index <= Len(validated.values)
      /\ Len(values) + Len(new.pushed) <= Capacity
      /\ values' = [values EXCEPT ![index] = new.value] \o new.pushed
      /\ index' = index + 1
      /\ UNCHANGED <<purpose, stage, validated, nodes, moved, taken>>

(* A push fails; the arena is dropped with what was pushed before.         *)
ArenaIsFull ==
  /\ stage = "expanding"
  /\ index <= Len(validated.values)
  /\ Len(values) + Len(Replacement(values[index], Len(values)).pushed) > Capacity
  /\ stage' = "failed"
  /\ UNCHANGED <<purpose, validated, values, index, nodes, moved, taken>>

Describe ==
  /\ stage = "expanding"
  /\ index > Len(validated.values)
  /\ IF \E i \in DOMAIN values : values[i].kind \in Undescribed
     THEN stage' = "failed" /\ UNCHANGED <<nodes, moved>>
     ELSE /\ stage' = "prepared"
          /\ nodes' = [i \in DOMAIN values |-> Node(values[i])]
          /\ moved' = [i \in DOMAIN values |-> FALSE]
  /\ UNCHANGED <<purpose, validated, values, index, taken>>

-----------------------------------------------------------------------------
TakeStructuralScalar(value) == [kind |-> Kind(value), parts |-> value.parts]

TakeScalarAgain(id) ==
  /\ purpose = "construct"
  /\ stage = "prepared"
  /\ id \in DOMAIN moved
  /\ nodes[id].kind \in Scalars
  /\ taken' = taken \cup {[id |-> id, scalar |-> TakeStructuralScalar(values[id])]}
  /\ values' = [values EXCEPT ![id] = NoValue]
  /\ moved' = [moved EXCEPT ![id] = TRUE]
  /\ UNCHANGED <<purpose, stage, validated, index, nodes>>

(* take_scalar.  The runtime takes whatever it likes; what was moved, and  *)
(* what is no scalar, is refused and stays.                                *)
TakeScalar(id) ==
  /\ purpose = "construct"
  /\ stage = "prepared"
  /\ id \in DOMAIN moved
  /\ ~moved[id]
  /\ values[id].kind \in Scalars
  /\ taken' = taken \cup {[id |-> id, scalar |-> TakeStructuralScalar(values[id])]}
  /\ values' = [values EXCEPT ![id] = NoValue]
  /\ moved' = [moved EXCEPT ![id] = TRUE]
  /\ UNCHANGED <<purpose, stage, validated, index, nodes>>

(* into_structural_arena takes every scalar and seals them with the        *)
(* aggregates.                                                             *)
Seal ==
  LET scalars == {i \in DOMAIN values : values[i].kind \in Scalars}
  IN  /\ purpose = "callback"
      /\ stage = "prepared"
      /\ stage' = "sealed"
      /\ taken' = {[id |-> i, scalar |-> TakeStructuralScalar(values[i])] : i \in scalars}
      /\ values' = [i \in DOMAIN values |-> IF i \in scalars THEN NoValue ELSE values[i]]
      /\ UNCHANGED <<purpose, validated, index, nodes, moved>>

ConstructionNext ==
  \/ Prepare
  \/ ExpandSlot
  \/ ArenaIsFull
  \/ Describe
  \/ \E id \in DOMAIN nodes : TakeScalar(id)
  \/ Seal

ConstructionSpec == ConstructionInit /\ [][ConstructionNext]_constructionVars

-----------------------------------------------------------------------------
(* Expanding in place leaves nothing behind: every slot that was passed,   *)
(* and everything that was pushed meanwhile, is of a kind the runtime      *)
(* knows, although the loop of expand_specialized_values never comes to    *)
(* what it pushes; and every id in the arena is one of the arena.          *)
Expanded ==
  /\ \A i \in DOMAIN values : i < index \/ i > Len(validated.values) => values[i].kind \notin Specialised
  /\ \A i \in DOMAIN values : \A k \in DOMAIN values[i].ids : values[i].ids[k] \in DOMAIN values

(* A scalar that is handed out is of the kind its node was described by,   *)
(* never the None that is left in its place, and a node gives only one.    *)
(* And none that was validated is lost or altered: it is in its place, as  *)
(* it was, until it is handed out, and sealing hands out all of them.      *)
ScalarsAsDescribed ==
  /\ \A t, u \in taken :
       /\ t.scalar.kind = nodes[t.id].kind
       /\ t.id = u.id => t = u
  /\ \A i \in DOMAIN values :
       i <= Len(validated.values) /\ validated.values[i].kind \in Scalars =>
         \/ [id |-> i, scalar |-> TakeStructuralScalar(validated.values[i])] \in taken
         \/ stage # "sealed" /\ values[i] = validated.values[i]
=============================================================================
