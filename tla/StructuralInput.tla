---------------------------- MODULE StructuralInput ----------------------------
(***************************************************************************)
(* StructuralInputBuilder of input/native.rs: the visitor that turns the   *)
(* events of a structural projection, or of a validator callback's output, *)
(* into an input arena.  The events come from code the builder does not    *)
(* trust: any event may come at any time.  The first one it refuses ends   *)
(* the projection: emitters hand the error on.  Node ids count from 1.     *)
(***************************************************************************)
EXTENDS Integers, Sequences, FiniteSets

CONSTANTS
  MaxDepth, MaxItems, MaxStringBytes,  \* limits: JsonLimits
  MaxCount,    \* positions announced by events are at most this
  Fields,      \* record field names, numbered in their order
  NameBytes,   \* the length of a field name
  Projections  \* what emitters may send: kinds, edges, scalars, counts up to a bound; the node limit

NativeLimits ==
  /\ MaxDepth > 0 /\ MaxItems > 0 /\ MaxStringBytes > 0
  /\ \A p \in Projections : p.maxNodes > 0

ASSUME LimitsAssumption ==
  /\ {MaxDepth, MaxItems, MaxStringBytes, MaxCount, NameBytes} \subseteq Nat
  /\ \A p \in Projections : p.maxNodes \in Nat /\ p.maxCount \in Nat
  /\ NativeLimits
ASSUME FieldsAssumption == Fields \subseteq Nat \ {0}

(* "set" stands for frozen sets too, "union" for the kinds the builder     *)
(* does not support.                                                       *)
Kinds == {"record", "sequence", "tuple", "set", "mapping", "optional", "union"}

Edges ==
  ({"field"} \X Fields) \cup ({"index", "key", "value"} \X (0 .. MaxCount))
    \cup ({"some", "other"} \X {0})

NoEdge == <<"none", 0>>

(* Scalars by what the builder does with them: an integer may have too     *)
(* many digits, a kind may not be supported.                               *)
Scalars == {"null", "integer", "string", "long_integer", "unsupported"}

ASSUME ProjectionsAssumption ==
  \A p \in Projections : p.kinds \subseteq Kinds /\ p.edges \subseteq Edges /\ p.scalars \subseteq Scalars

Frame == [kind : Kinds, childCount : Nat, pending : Edges \cup {NoEdge},
          children : Seq([edge : Edges, id : Nat])]

(* A node is its rank in the order of compare_input_ids and its items: the *)
(* entries of objects are named, those of mappings have two ids.           *)
ItemType == [name : Nat, ids : Seq(Nat)]
Node == [rank : Nat, items : Seq(ItemType)]

VARIABLES projection, status, values, stringBytes, frames, root
vars == <<projection, status, values, stringBytes, frames, root>>

MaxNodes == projection.maxNodes

TypeOK ==
  /\ projection \in Projections
  /\ status \in {"open", "refused", "finished"}
  /\ values \in Seq(Node)
  /\ stringBytes \in Nat
  /\ frames \in Seq(Frame)
  /\ root \in Nat

Init ==
  /\ projection \in Projections
  /\ status = "open"
  /\ values = << >>
  /\ stringBytes = 0
  /\ frames = << >>
  /\ root = 0

-----------------------------------------------------------------------------
(* input_rank and sequence_rank *)
Rank == [null |-> 0, integer |-> 2, string |-> 4, sequence |-> 7, tuple |-> 8, set |-> 9,
         record |-> 11, mapping |-> 12]

(* The first place where two sequences differ decides; a prefix is less.   *)
Lexicographic(s, t, less(_, _)) ==
  \E k \in 1 .. Len(s) + 1 :
    /\ k <= Len(t)
    /\ \A j \in 1 .. k - 1 : ~less(s[j], t[j]) /\ ~less(t[j], s[j])
    /\ k <= Len(s) => less(s[k], t[k])

(* compare_input_ids: is the node of one id less than that of another?     *)
LessIds(nodes) ==
  LET less[pair \in (1 .. Len(nodes)) \X (1 .. Len(nodes))] ==
        LET left  == nodes[pair[1]]
            right == nodes[pair[2]]
            lessId(i, j)   == less[<<i, j>>]
            lessItem(a, b) == \/ a.name < b.name
                              \/ a.name = b.name /\ Lexicographic(a.ids, b.ids, lessId)
        IN  \/ left.rank < right.rank
            \/ left.rank = right.rank /\ Lexicographic(left.items, right.items, lessItem)
  IN  less

(* The sort key of an item is the sequence of its ids.                     *)
ItemBefore(nodes, a, b) ==
  LET less == LessIds(nodes)
      lessId(i, j) == less[<<i, j>>]
  IN  Lexicographic(a.ids, b.ids, lessId)

InOrder(nodes, items) ==
  \A i, j \in 1 .. Len(items) : i < j => ~ItemBefore(nodes, items[j], items[i])

(* sort_by is stable, a choice of one order is enough here: items that     *)
(* compare equal are equal values under different ids.                     *)
Rearranged(items, p) == [i \in 1 .. Len(items) |-> items[p[i]]]

Sorted(nodes, items) ==
  LET n == Len(items)
      sorting == {p \in [1 .. n -> 1 .. n] :
                    /\ \A i, j \in 1 .. n : p[i] = p[j] => i = j
                    /\ InOrder(nodes, Rearranged(items, p))}
  IN  IF sorting = {} THEN items ELSE Rearranged(items, CHOOSE p \in sorting : TRUE)

-----------------------------------------------------------------------------
Refuse == status' = "refused" /\ UNCHANGED <<projection, values, stringBytes, frames, root>>

Top(s) == s[Len(s)]

Pop(s) == SubSeq(s, 1, Len(s) - 1)

(* check_enter: the announced child count fits the kind and the limits.    *)
EnterFits(kind, count) ==
  /\ count + 1 <= MaxNodes
  /\ CASE kind = "union"    -> FALSE
       [] kind = "mapping"  -> count % 2 = 0 /\ count \div 2 <= MaxItems
       [] kind = "optional" -> count <= 1
       [] OTHER             -> count <= MaxItems

Opened(kind, count) == [kind |-> kind, childCount |-> count, pending |-> NoEdge, children |-> << >>]

EnterLate(kind, count) ==
  /\ status = "open"
  /\ IF Len(frames) > MaxDepth + 1 \/ ~EnterFits(kind, count) THEN Refuse
     ELSE /\ frames' = Append(frames, Opened(kind, count))
          /\ UNCHANGED <<projection, status, values, stringBytes, root>>

Enter(kind, count) ==
  /\ status = "open"
  /\ IF Len(frames) > MaxDepth \/ ~EnterFits(kind, count) THEN Refuse
     ELSE /\ frames' = Append(frames, Opened(kind, count))
          /\ UNCHANGED <<projection, status, values, stringBytes, root>>

Edge(edge) ==
  /\ status = "open"
  /\ IF frames = << >> \/ edge[1] = "other" THEN Refuse
     ELSE IF Top(frames).pending # NoEdge THEN Refuse
     ELSE /\ frames' = [frames EXCEPT ![Len(frames)].pending = edge]
          /\ UNCHANGED <<projection, status, values, stringBytes, root>>

(* The frame with a child under the edge announced for it. *)
Received(frame, id) ==
  [frame EXCEPT !.pending = NoEdge, !.children = Append(@, [edge |-> frame.pending, id |-> id])]

Keep(nodes, bytes) == values' = nodes /\ stringBytes' = bytes /\ UNCHANGED <<projection, status>>

AttachAnyRoot(stack, id, nodes, bytes) ==
  IF stack # << >>
  THEN IF Top(stack).pending = NoEdge THEN Refuse
       ELSE /\ frames' = [stack EXCEPT ![Len(stack)] = Received(@, id)]
            /\ Keep(nodes, bytes) /\ UNCHANGED root
  ELSE root' = id /\ frames' = << >> /\ Keep(nodes, bytes)

(* attach: a finished child goes to the innermost open aggregate, under    *)
(* the edge announced for it, or becomes the root.                         *)
Attach(stack, id, nodes, bytes) ==
  IF stack # << >>
  THEN IF Top(stack).pending = NoEdge THEN Refuse
       ELSE /\ frames' = [stack EXCEPT ![Len(stack)] = Received(@, id)]
            /\ Keep(nodes, bytes) /\ UNCHANGED root
  ELSE IF root # 0 THEN Refuse
       ELSE root' = id /\ frames' = << >> /\ Keep(nodes, bytes)

PushAndAttachAhead(stack, node, bytes) ==
  IF Len(values) >= MaxNodes THEN Refuse
  ELSE Attach(stack, Len(values) + 2, Append(values, node), bytes)

(* push, then attach *)
PushAndAttach(stack, node, bytes) ==
  IF Len(values) >= MaxNodes THEN Refuse
  ELSE Attach(stack, Len(values) + 1, Append(values, node), bytes)

(* bytes: the length of a text *)
Scalar(scalar, bytes) ==
  LET total == stringBytes + (IF scalar = "string" THEN bytes ELSE 0)
  IN  /\ status = "open"
      /\ IF \/ scalar \in {"long_integer", "unsupported"}
            \/ scalar = "string" /\ total > MaxStringBytes
         THEN Refuse
         ELSE PushAndAttach(frames, [rank |-> Rank[scalar], items |-> << >>], total)

-----------------------------------------------------------------------------
(* The edges aggregate_value asks of the children of a frame.              *)
EdgesFit(kind, children) ==
  CASE kind = "record"  -> \A i \in 1 .. Len(children) : children[i].edge[1] = "field"
    [] kind = "mapping" -> \A i \in 1 .. Len(children) :
                             children[i].edge =
                               <<IF i % 2 = 1 THEN "key" ELSE "value", (i - 1) \div 2>>
    [] OTHER -> \A i \in 1 .. Len(children) : children[i].edge = <<"index", i - 1>>

ItemsOf(kind, children) ==
  CASE kind = "record"  -> [i \in 1 .. Len(children) |->
                              [name |-> children[i].edge[2], ids |-> <<children[i].id>>]]
    [] kind = "mapping" -> [i \in 1 .. Len(children) \div 2 |->
                              [name |-> 0, ids |-> <<children[2 * i - 1].id, children[2 * i].id>>]]
    [] OTHER -> [i \in 1 .. Len(children) |-> [name |-> 0, ids |-> <<children[i].id>>]]

ItemsUnsorted(kind, children) == ItemsOf(kind, children)

(* Unordered sets and mappings are put in the order of their values.       *)
ItemsInOrder(kind, children) ==
  LET items == ItemsOf(kind, children)
  IN  IF kind \in {"set", "mapping"} THEN Sorted(values, items) ELSE items

(* aggregate_value, then push and attach *)
FinishAggregate(stack, frame) ==
  LET total == stringBytes
                 + (IF frame.kind = "record" THEN NameBytes * Len(frame.children) ELSE 0)
  IN  IF ~EdgesFit(frame.kind, frame.children) THEN Refuse
      ELSE IF frame.kind = "record" /\ Len(frame.children) > 0 /\ total > MaxStringBytes
      THEN Refuse
      ELSE PushAndAttach(stack, [rank |-> Rank[frame.kind],
                                 items |-> ItemsInOrder(frame.kind, frame.children)], total)

(* finish_optional: an absent value is null, a present one is its member.  *)
FinishOptional(stack, frame) ==
  IF frame.children = << >>
  THEN PushAndAttach(stack, [rank |-> Rank["null"], items |-> << >>], stringBytes)
  ELSE IF frame.children[1].edge = <<"some", 0>>
  THEN Attach(stack, frame.children[1].id, values, stringBytes)
  ELSE Refuse

Exit(kind) ==
  /\ status = "open"
  /\ IF frames = << >> THEN Refuse
     ELSE LET frame == Top(frames)
          IN  IF \/ frame.kind # kind
                 \/ frame.pending # NoEdge
                 \/ Len(frame.children) # frame.childCount
              THEN Refuse
              ELSE IF kind = "optional" THEN FinishOptional(Pop(frames), frame)
              ELSE FinishAggregate(Pop(frames), frame)

(* The end of project_structural_input, or finish of the callback's sink.  *)
Finish ==
  /\ status = "open"
  /\ IF frames # << >> \/ root = 0 THEN Refuse
     ELSE status' = "finished" /\ UNCHANGED <<projection, values, stringBytes, frames, root>>

Next ==
  \/ \E kind \in projection.kinds, count \in 0 .. projection.maxCount : Enter(kind, count)
  \/ \E edge \in projection.edges : Edge(edge)
  \/ \E scalar \in projection.scalars : Scalar(scalar, 1)
  \/ \E kind \in projection.kinds : Exit(kind)
  \/ Finish

Spec == Init /\ [][Next]_vars

-----------------------------------------------------------------------------
Ids(item) == {item.ids[j] : j \in 1 .. Len(item.ids)}

(* The children of a node.                                                 *)
Below(nodes, v) == UNION {Ids(nodes[v].items[i]) : i \in 1 .. Len(nodes[v].items)}

(* The children of an open aggregate.                                      *)
ChildIds(frame) == {frame.children[c].id : c \in 1 .. Len(frame.children)}

(* Ids point backwards only: the children of a node were pushed before it, *)
(* and what open aggregates and the root hold is in the arena; a finished  *)
(* arena has its root last.  So arenas are acyclic, all of a finished one  *)
(* can be below its root, and every recursion over it ends.                *)
ChildrenFirst ==
  /\ \A v \in 1 .. Len(values) : Below(values, v) \subseteq 1 .. v - 1
  /\ \A f \in 1 .. Len(frames) : ChildIds(frames[f]) \subseteq 1 .. Len(values)
  /\ root \in 0 .. Len(values)
  /\ status = "finished" => root = Len(values) /\ values # << >>

(* What may hold nodes: a parent, an open aggregate, the root.             *)
Holders ==
  ({"node"} \X (1 .. Len(values))) \cup ({"frame"} \X (1 .. Len(frames))) \cup {<<"root", 0>>}

HeldBy(holder) ==
  CASE holder[1] = "node"  -> Below(values, holder[2])
    [] holder[1] = "frame" -> ChildIds(frames[holder[2]])
    [] OTHER               -> {root} \ {0}

(* The items of a node or the children of a frame name no id twice.        *)
NamesOnce(items) ==
  \A i, k \in 1 .. Len(items) : \A j \in 1 .. Len(items[i].ids), l \in 1 .. Len(items[k].ids) :
    items[i].ids[j] = items[k].ids[l] => i = k /\ j = l

HoldsOnce(children) ==
  \A c, d \in 1 .. Len(children) : children[c].id = children[d].id => c = d

(* No node is lost or shared: each one is held exactly once, by a parent,  *)
(* by an open aggregate or as the root, also across optional members, that *)
(* have a frame and no node.                                               *)
OneHolder ==
  status \in {"open", "finished"} =>
    /\ \A id \in 1 .. Len(values) :
         \E holder \in Holders : {h \in Holders : id \in HeldBy(h)} = {holder}
    /\ \A v \in 1 .. Len(values) : NamesOnce(values[v].items)
    /\ \A f \in 1 .. Len(frames) : HoldsOnce(frames[f].children)

(* The sort orders every set and mapping: compare_input_ids is total and   *)
(* transitive on what the arena can hold, and later pushes do not disturb  *)
(* the order.                                                              *)
SetsAreSorted ==
  \A v \in 1 .. Len(values) :
    values[v].rank \in {Rank["set"], Rank["mapping"]} => InOrder(values, values[v].items)

(* One can go down n levels from a node.                                   *)
IsDescent(nodes, v, n, walk) ==
  walk[1] = v /\ \A level \in 1 .. n : walk[level + 1] \in Below(nodes, walk[level])

Descends(nodes, v, n) ==
  \E walk \in [1 .. n + 1 -> 1 .. Len(nodes)] : IsDescent(nodes, v, n, walk)

(* However the events come, nodes, text and open aggregates are bounded,   *)
(* and what is accepted is at most one level deeper than max_depth.        *)
WithinLimits ==
  /\ Len(values) <= MaxNodes
  /\ stringBytes <= MaxStringBytes
  /\ Len(frames) <= MaxDepth + 1
  /\ status = "finished" => ~Descends(values, root, MaxDepth + 2)
=============================================================================
