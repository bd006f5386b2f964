------------------------------- MODULE SumLayout -------------------------------
(***************************************************************************)
(* How a value says which member of a sum it is: CanonicalSumLayout of     *)
(* validation/sum_schema.rs, and wrap_existing and selected_member of      *)
(* validation/sums.rs.  The members of nested sums are flattened into one  *)
(* list, sorted and freed of repetitions; a value names its member by the  *)
(* place in that list.  The value of a branch is therefore taken out of    *)
(* the branch's sum and put into the union's, where its place is another.  *)
(* Types (ShapeIdentity, a digest) are terms.  Only owned schemas have     *)
(* such layouts.                                                           *)
(***************************************************************************)
EXTENDS InputExactness

CONSTANT TypeOrder    \* the member types of one category, in the order of names and digests

NoneType == <<"primitive", "None">>

Absent == << >>       \* SelectedMember.value = None
InvalidOutput == <<"invalid_sum_output">>
NoMember == [type |-> InvalidOutput, value |-> Absent]

(* literal_kind_identity                                                   *)
LiteralType(json) ==
  <<"primitive", CASE json[1] = "null"    -> "None"
                   [] json[1] = "boolean" -> "bool"
                   [] json[1] = "number"  -> "int"
                   [] json[1] = "string"  -> "str"
                   [] OTHER               -> "bytes">>

(* schema_sort_key and literal_sort_key, for the types of members: equal   *)
(* types are of one category.                                              *)
Category(type) ==
  CASE type = NoneType                           -> 0
    [] type = <<"primitive", "bool">>            -> 1
    [] type = <<"primitive", "int">>             -> 2
    [] type[1] = "integer"                       -> 3
    [] type = <<"primitive", "f64">>             -> 4
    [] type = <<"primitive", "str">>             -> 5
    [] type = <<"primitive", "bytes">>           -> 6
    [] type[1] = "list"                          -> 10
    [] type[1] = "mapping"                       -> 11
    [] type[1] = "set"                           -> 12
    [] type[1] = "tuple"                         -> 13
    [] type[1] \in {"nominal", "frozen-set"}     -> 31
    [] OTHER                                     -> 41

PlaceInOrder(type) == CHOOSE i \in DOMAIN TypeOrder : TypeOrder[i] = type

(* Types of different categories are in the categories' order.             *)
Precedes(a, b) ==
  \/ Category(a) < Category(b)
  \/ Category(a) = Category(b) /\ a # b /\ PlaceInOrder(a) < PlaceInOrder(b)

(* from_members: sort_by, then dedup_by_key, which compares neighbours.    *)
LayoutOf(types) ==
  FoldLeft(LAMBDA members, type : IF members # << >> /\ Last(members) = type THEN members
                                  ELSE Append(members, type),
           << >>, SortSeq(types, Precedes))

IsDirect(layout) == Len(layout) = 1

IsOptionalOfTwo(layout) == Len(layout) = 2

IsOptional(layout) == Len(layout) = 2 /\ layout[1] = NoneType

(* The identity of a layout.                                               *)
SumType(layout) ==
  CASE IsDirect(layout)   -> layout[1]
    [] IsOptional(layout) -> <<"optional", layout[2]>>
    [] OTHER              -> <<"union", layout>>

-----------------------------------------------------------------------------
IsSum(node) == node.tag \in {"literal", "nullable", "union", "tagged-union"}

RECURSIVE TypeOf(_, _), MembersOf(_, _)

LayoutOfAll(nodes, defs) ==
  LayoutOf(FlattenSeq([n \in DOMAIN nodes |-> MembersOf(nodes[n], defs)]))

(* The layout that a sum schema keeps.                                     *)
Layout(node, defs) ==
  CASE node.tag = "literal" ->
         LayoutOf([v \in DOMAIN node.rule.values |-> LiteralType(node.rule.values[v])])
    [] node.tag = "nullable" -> LayoutOf(<<NoneType>> \o MembersOf(node.children[1], defs))
    [] OTHER -> LayoutOfAll(node.children, defs)

(* collect_members.  A reference is a member as it is: what it refers to   *)
(* is no sum.                                                              *)
MembersOf(node, defs) ==
  CASE IsSum(node) -> Layout(node, defs)
    [] node.tag \in {"lax-or-strict", "json-or-structural"} -> MembersOf(node.children[1], defs)
    [] node.tag = "chain" -> MembersOf(Last(node.children), defs)
    [] OTHER -> <<TypeOf(node, defs)>>

(* structural_identity_at; a model's is the one it was declared with.      *)
TypeOf(node, defs) ==
  CASE node.tag = "none"       -> NoneType
    [] node.tag = "bool"       -> <<"primitive", "bool">>
    [] node.tag = "integer"    -> IF node.rule.target = None THEN <<"primitive", "int">>
                                  ELSE <<"integer", node.rule.target>>
    [] node.tag = "float"      -> <<"primitive", "f64">>
    [] node.tag = "string"     -> <<"primitive", "str">>
    [] IsSum(node)             -> SumType(Layout(node, defs))
    [] node.tag = "ref"        -> TypeOf(defs[node.rule.name], defs)
    [] node.tag = "model"      -> <<"nominal", node>>
    [] node.tag \in {"list", "mapping", "set", "frozen-set", "tuple"} ->
         <<node.tag, [c \in DOMAIN node.children |-> TypeOf(node.children[c], defs)]>>
    [] node.tag \in {"lax-or-strict", "json-or-structural"} -> TypeOf(node.children[1], defs)
    [] node.tag = "chain"      -> TypeOf(Last(node.children), defs)
    [] OTHER                   -> <<node.tag>>

(* What the constructors of control schemas and references demand, so that *)
(* it does not matter which part of a control schema validates.            *)
RECURSIVE Constructible(_, _)
Constructible(node, defs) ==
  /\ node.tag \in {"lax-or-strict", "json-or-structural"} =>
       TypeOf(node.children[1], defs) = TypeOf(node.children[2], defs)
  /\ node.tag = "ref" =>
       ~IsSum(defs[node.rule.name]) /\ defs[node.rule.name].tag \notin {"definitions", "embedded-json"}
  /\ \A c \in DOMAIN node.children : Constructible(node.children[c], defs)
  /\ \A f \in DOMAIN node.fields : Constructible(node.fields[f].schema, defs)

-----------------------------------------------------------------------------
(* wrap_existing: a direct sum is its value, an optional one is empty or   *)
(* holds its value, any other names the place of the member's type.        *)
Wrap(layout, selected) ==
  LET value == IF selected.value = Absent THEN <<"member", NoneType>> ELSE selected.value[1]
  IN  CASE IsDirect(layout) -> value
        [] IsOptional(layout) /\ selected.type = NoneType -> <<"nullable", Absent>>
        [] IsOptional(layout) /\ selected.type # NoneType -> <<"nullable", selected.value>>
        [] ~IsDirect(layout) /\ ~IsOptional(layout) /\ selected.type \in Range(layout) ->
             <<"union", CHOOSE i \in DOMAIN layout : layout[i] = selected.type, value>>
        [] OTHER -> InvalidOutput

(* selected_from_layout                                                    *)
SelectedFrom(layout, value) ==
  CASE IsDirect(layout) -> [type |-> layout[1], value |-> <<value>>]
    [] ~IsDirect(layout) /\ IsOptional(layout) /\ value[1] = "nullable" ->
         IF value[2] = Absent THEN [type |-> NoneType, value |-> Absent]
         ELSE [type |-> layout[2], value |-> value[2]]
    [] ~IsDirect(layout) /\ ~IsOptional(layout) /\ value[1] = "union" ->
         IF value[2] \in DOMAIN layout THEN [type |-> layout[value[2]], value |-> <<value[3]>>]
         ELSE NoMember
    [] OTHER -> NoMember

(* selected_member                                                         *)
RECURSIVE SelectedMember(_, _, _)
SelectedMember(node, defs, value) ==
  CASE IsSum(node) -> SelectedFrom(Layout(node, defs), value)
    [] node.tag \in {"lax-or-strict", "json-or-structural"} ->
         SelectedMember(node.children[1], defs, value)
    [] node.tag = "chain" -> SelectedMember(Last(node.children), defs, value)
    [] OTHER -> [type |-> TypeOf(node, defs), value |-> <<value>>]

(* The value of an accepted branch as the value of the sum around it.      *)
Imported(layout, node, defs, value) ==
  LET selected == SelectedMember(node, defs, value)
  IN  IF selected = NoMember THEN InvalidOutput ELSE Wrap(layout, selected)

(* The form of the value an accepted input becomes; the member at its end  *)
(* carries the type it was validated as.                                   *)
RECURSIVE Output(_, _, _, _)
Output(node, defs, json, o) ==
  LET through(child) == Imported(Layout(node, defs), child, defs, Output(child, defs, json, o))
  IN  CASE node.tag = "literal" ->
             Wrap(Layout(node, defs),
                  [type |-> LiteralType(json), value |-> <<<<"member", LiteralType(json)>>>>])
        [] node.tag = "nullable" ->
             IF json[1] = "null" THEN Wrap(Layout(node, defs), [type |-> NoneType, value |-> Absent])
             ELSE through(node.children[1])
        [] node.tag \in {"union", "tagged-union"} ->
             through(node.children[PickedBranch(node, defs, json, o)])
        [] node.tag = "ref" -> Output(defs[node.rule.name], defs, json, o)
        [] node.tag = "lax-or-strict" -> Output(node.children[IF o.strict THEN 2 ELSE 1], defs, json, o)
        [] node.tag = "json-or-structural" -> Output(node.children[1], defs, json, o)
        [] OTHER -> <<"member", TypeOf(node, defs)>>

-----------------------------------------------------------------------------
(* What a sum should be, without layouts: the types its values can have... *)
RECURSIVE MemberTypes(_, _)
MemberTypes(node, defs) ==
  CASE node.tag = "literal"  -> {LiteralType(json) : json \in Range(node.rule.values)}
    [] node.tag = "nullable" -> {NoneType} \cup MemberTypes(node.children[1], defs)
    [] node.tag \in {"union", "tagged-union"} ->
         UNION {MemberTypes(node.children[c], defs) : c \in DOMAIN node.children}
    [] node.tag = "ref" -> MemberTypes(defs[node.rule.name], defs)
    [] node.tag \in {"lax-or-strict", "json-or-structural"} -> MemberTypes(node.children[1], defs)
    [] OTHER -> {TypeOf(node, defs)}

(* ... and the type that validation ends with.                             *)
RECURSIVE ReachedType(_, _, _, _)
ReachedType(node, defs, json, o) ==
  LET next == ValueParts(node, defs, json, o)
  IN  CASE node.tag = "literal" -> LiteralType(json)
        [] node.tag = "nullable" /\ json[1] = "null" -> NoneType
        [] node.tag \in {"nullable", "union", "tagged-union", "ref", "lax-or-strict",
                         "json-or-structural"} /\ next # << >> ->
             ReachedType(next[1][1], defs, json, o)
        [] OTHER -> TypeOf(node, defs)

(* A value in the form of a layout that names a type and is of it.         *)
IsMember(layout, value, type) ==
  LET selected == SelectedFrom(layout, value)
  IN  /\ selected.type = type
      /\ selected.value # Absent => selected.value[1] = <<"member", type>>
      /\ selected.value = Absent => type = NoneType
=============================================================================
